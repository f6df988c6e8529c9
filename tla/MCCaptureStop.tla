---------------------------- MODULE MCCaptureStop ----------------------------
(***************************************************************************)
(* One Host of CaptureOwner and its stop.  The threads run; what is hoped  *)
(* of the platform and of whoever stops the Host is the hypothesis of the  *)
(* properties that need it.                                                *)
(***************************************************************************)
EXTENDS CaptureOwner

Platform == \A h \in Hosts : FairPlatform(h)
Retries == \A h \in Hosts : FairRetries(h)

\* With the platform's fairness a dropped Host gives the lease back, and with retries
\* besides a stop that has begun succeeds (LeaseComesFree, StopSucceeds).
LeaseAndStopEnd == Platform => LeaseComesFree /\ (Retries => StopSucceeds)
=============================================================================
