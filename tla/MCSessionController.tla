------------------------ MODULE MCSessionController ------------------------
(* TLC instances of SessionController. *)
EXTENDS SessionController, TLC

(* Clients, session ids and real-time uids are interchangeable. *)
Symmetry == Permutations(Client) \cup Permutations(SessionId)
            \cup Permutations(RealTimeUid)

(* The calls of the last step are an output: no action reads them. *)
StateView == <<schedVars, policyVars, uidHistory, transcoderReady, watchdogVars, lockVars>>
=============================================================================
