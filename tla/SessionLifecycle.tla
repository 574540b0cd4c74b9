-------------------------- MODULE SessionLifecycle --------------------------
(***************************************************************************)
(* What the session controller promises about the life of a session,       *)
(* whatever clients, policies, transcoder and watchdog do: a session waits *)
(* until it is run for the first time, then alternates between running and *)
(* being paused, and may leave at any moment.  At most one runs; running   *)
(* another one pauses it.                                                  *)
(***************************************************************************)
CONSTANT Key

VARIABLE life  \* [Key -> {"ABSENT", "NOT_STARTED", "RUNNING", "PAUSED"}]

(* Every session but k, with the one that runs paused. *)
PauseOthers(k, s) ==
    [j \in Key |-> IF j = k THEN s ELSE IF life[j] = "RUNNING" THEN "PAUSED" ELSE life[j]]

Arrive(k) == life[k] = "ABSENT" /\ life' = [life EXCEPT ![k] = "NOT_STARTED"]

Run(k) == life[k] \in {"NOT_STARTED", "PAUSED"} /\ life' = PauseOthers(k, "RUNNING")

Pause(k) == life[k] = "RUNNING" /\ life' = [life EXCEPT ![k] = "PAUSED"]

(* A session that waits is turned away, which may pause the one that runs. *)
TurnAway(k) == life[k] = "NOT_STARTED" /\ life' = PauseOthers(k, "ABSENT")

Leave(k) == life[k] # "ABSENT" /\ life' = [life EXCEPT ![k] = "ABSENT"]

LifecycleInit == life = [k \in Key |-> "ABSENT"]

LifecycleNext ==
    \E k \in Key : Arrive(k) \/ Run(k) \/ Pause(k) \/ TurnAway(k) \/ Leave(k)

LifecycleSpec == LifecycleInit /\ [][LifecycleNext]_life
=============================================================================
