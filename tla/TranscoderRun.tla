---------------------------- MODULE TranscoderRun ----------------------------
(***************************************************************************)
(* What MediaTranscoder.h promises of one run, to a client that starts it  *)
(* and may then pause or cancel it once.  TranscoderWrapper relies on it.  *)
(***************************************************************************)

VARIABLES run,       \* the threads: busy, stopping after an error, or over
          client,    \* the client's thread
          reported   \* the callback that it got; "silent" is none

runVars == <<run, client, reported>>

Over == {"finish", "error", "silent"}

RunInit ==
  /\ run = "configured"
  /\ client = "configured"
  /\ reported = "none"

Start ==
  /\ client = "configured"
  /\ client' = "started"
  /\ run' = "busy"
  /\ UNCHANGED reported

\* A thread fails and stops the others.
Fault ==
  /\ run = "busy"
  /\ client = "started"
  /\ run' = "faulty"
  /\ UNCHANGED <<client, reported>>

\* pause() or cancel().  After an error there is nothing left to stop.
Stop ==
  /\ client = "started"
  /\ client' = IF run \in {"faulty", "error"} THEN "refused" ELSE "stopping"
  /\ UNCHANGED <<run, reported>>

\* All threads are done.  "If the transcoding finishes or encountered an error
\* during pause, the corresponding callback will be called."
End(outcome) ==
  /\ run \in {"busy", "faulty"}
  /\ run = "faulty" => outcome = "error"
  /\ run = "busy" /\ client = "started" => outcome = "finish"
  /\ run' = outcome
  /\ UNCHANGED <<client, reported>>

Return ==
  /\ client = "stopping"
  /\ run \in Over
  /\ client' = "returned"
  /\ UNCHANGED <<run, reported>>

Report ==
  /\ run \in Over
  /\ reported = "none"
  /\ reported' = run
  /\ UNCHANGED <<run, client>>

RunNext ==
  \/ Start
  \/ Fault
  \/ Stop
  \/ \E outcome \in Over : End(outcome)
  \/ Return
  \/ Report

RunSpec == RunInit /\ [][RunNext]_runVars
=============================================================================
