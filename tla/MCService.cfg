\* Two clients of a server with two permits; the others as MCService has them.
SPECIFICATION PartsSpec
CONSTANTS
  Conns = {"c1", "c2"}
  Permits = 2
  MaxRequests = 2
INVARIANT RevokedGetsNothing
PROPERTIES EveryAdmittedIsAnswered DeadChildIsNoticed LoadingEnds StoppedWorkerEnds
CHECK_DEADLOCK FALSE
