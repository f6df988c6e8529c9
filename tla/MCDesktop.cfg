\* The master key; the events, the main window and the bridge, with fairness.
SPECIFICATION PartsSpec
CONSTANTS
  Callers = {c1, c2}
  Keys = {k1, k2, k3}
  NoKey = NoKey
  MaxActs = 1
  MaxSwitches = 1
  MaxHides = 1
  MaxFaults = 1
  MaxUpdates = 1
  MaxOps = 2
INVARIANTS SealedStaysReadable OneKeyHanded InstallsAlone
PROPERTIES EpochAnnounced ChangesReachWindows SupersededStaysHidden QueuedIsServed ModeRecovers
CHECK_DEADLOCK FALSE
