-------------------------- MODULE MCServicePolicies --------------------------
(***************************************************************************)
(* Instance of ServicePolicies.  The policies share nothing but mLock of   *)
(* the controller, so a behaviour of the instance moves one of them: all   *)
(* interleavings within a policy, and not those between two.               *)
(***************************************************************************)
EXTENDS ServicePolicies

VARIABLE policy  \* the one that moves

MCInit ==
  /\ Init
  /\ policy \in {"uid", "thermal", "resource"}
  /\ hot => policy = "thermal"

MCNext ==
  /\ \/ Setup
     \/ policy = "uid" /\ setup = "ready" /\ UidNext
     \/ policy = "thermal" /\ ThermalNext
     \/ policy = "resource" /\ setup = "ready" /\ ResourceNext
  /\ UNCHANGED policy

\* The observer thread, and whoever holds mLock, go on.
MCSpec == MCInit /\ [][MCNext]_<<vars, policy>> /\ WF_<<vars, policy>>(UidStep /\ UNCHANGED policy)
=============================================================================
