------------------------------- MODULE Pacer -------------------------------
(***************************************************************************)
(* TranscodingSessionController::Pacer: the quota on back-to-back          *)
(* transcoding on behalf of one uid.  The operators below return the entry *)
(* of mUidHistoryMap that a call leaves behind; the map itself is a        *)
(* variable of SessionController.                                          *)
(*                                                                         *)
(* Time is abstracted to what the pacer compares: "late" stands for        *)
(* timeSinceLastComplete > mBurstThresholdMs, and the field spent for      *)
(* burstDuration >= mBurstTimeQuotaSec.  burstCount is only ever compared  *)
(* with the quota, so it saturates there.                                  *)
(***************************************************************************)
EXTENDS Naturals

CONSTANTS
    BurstCountQuota,  \* pacerBurstCountQuota
    MtpUid            \* uids holding ACCESS_MTP, which are not paced

ASSUME QuotaAssumption == BurstCountQuota \in Nat

HistoryEntry == [known : BOOLEAN, sessionActive : BOOLEAN,
                 burstCount : 0..BurstCountQuota, spent : BOOLEAN]

(* What a uid that is not in mUidHistoryMap reads as. *)
NoHistory == [known |-> FALSE, sessionActive |-> FALSE, burstCount |-> 0, spent |-> FALSE]

IsSubjectToQuota(uid, callingUid) == uid # callingUid /\ uid \notin MtpUid

OverQuota(e) == e.known /\ e.burstCount >= BurstCountQuota /\ e.spent

(* The result of onSessionStarted(uid, callingUid): may the session run for uid? *)
HasQuota(e, uid, callingUid) == IsSubjectToQuota(uid, callingUid) => ~OverQuota(e)

(* Mutant: the time since the last completion is looked at before the quota. *)
OnSessionStartedResetsFirst(e, uid, callingUid, late) ==
    IF ~IsSubjectToQuota(uid, callingUid) \/ (OverQuota(e) /\ ~late)
    THEN e
    ELSE IF e.known /\ ~late
         THEN [e EXCEPT !.sessionActive = TRUE]
         ELSE [known |-> TRUE, sessionActive |-> TRUE, burstCount |-> 0, spent |-> FALSE]

(* The entry after onSessionStarted(uid, callingUid). *)
OnSessionStarted(e, uid, callingUid, late) ==
    IF ~IsSubjectToQuota(uid, callingUid) \/ OverQuota(e)
    THEN e
    ELSE IF e.known /\ ~late
         THEN [e EXCEPT !.sessionActive = TRUE]
         ELSE [known |-> TRUE, sessionActive |-> TRUE, burstCount |-> 0, spent |-> FALSE]

(* The entry after onSessionCompleted(uid, runningTime); reached says that   *)
(* the running time brings burstDuration to the quota.                      *)
OnSessionCompleted(e, reached) ==
    IF e.known /\ e.sessionActive
    THEN [known |-> TRUE, sessionActive |-> FALSE,
          burstCount |-> IF e.burstCount < BurstCountQuota THEN e.burstCount + 1
                                                           ELSE e.burstCount,
          spent |-> e.spent \/ reached]
    ELSE e

(* Mutants: the departure of a uid is not noticed; it takes back a count. *)
OnSessionCancelledIgnored(e) == e
OnSessionCancelledUncounts(e) == [e EXCEPT !.sessionActive = FALSE, !.burstCount = @ - 1]

OnSessionCancelled(e) == [e EXCEPT !.sessionActive = FALSE]
=============================================================================
