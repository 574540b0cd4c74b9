---------------------------- MODULE MoveUidsLoop ----------------------------
(***************************************************************************)
(* The loop of moveUidsToTop_l, iterator by iterator, on a list.  UidList  *)
(* defines what the function does to the order of the uids in one formula, *)
(* which SessionController uses; here the loop is shown to do just that.   *)
(***************************************************************************)
EXTENDS UidList, Naturals, FiniteSets, SequencesExt

ASSUME FiniteAssumption == IsFiniteSet(Uid)  \* uid_t has 32 bits

VARIABLES
    list,               \* mUidSortedList
    uids,               \* the parameter
    preserveTopUid,     \* the parameter
    it,                 \* the position of the iterator
    pushCurTopToFront, numUidsMoved,
    initial,            \* mUidSortedList at the call
    done

loopVars == <<list, uids, preserveTopUid, it, pushCurTopToFront, numUidsMoved, initial, done>>

(* Lists of distinct uids that end with the offline uid. *)
UidLists ==
    UNION {{Append(l, OfflineUid) : l \in SetToSeqs(s)} : s \in SUBSET (Uid \ {OfflineUid})}

LoopInit ==
    /\ initial \in UidLists
    /\ list = initial
    /\ uids \in SUBSET Uid
    /\ preserveTopUid \in BOOLEAN
    /\ it = 1
    /\ pushCurTopToFront = FALSE
    /\ numUidsMoved = 0
    /\ done = (uids = {})

curTopUid == initial[1]

Unvisited == it <= Len(list) /\ numUidsMoved # Cardinality(uids)

(* Mutant: the first uid gets no special treatment. *)
NeverPreserved == FALSE

IsPreserved == list[it] = curTopUid /\ preserveTopUid

(* A uid of the set: erased, and pushed to the front unless it is the one   *)
(* to be preserved, which is pushed last.                                   *)
MoveUid ==
    /\ ~done /\ Unvisited
    /\ list[it] # OfflineUid /\ list[it] \in uids
    /\ numUidsMoved' = numUidsMoved + 1
    /\ IF IsPreserved
       THEN /\ list' = RemoveAt(list, it)
            /\ pushCurTopToFront' = TRUE
            /\ UNCHANGED it
       ELSE /\ list' = <<list[it]>> \o RemoveAt(list, it)
            /\ it' = it + 1
            /\ UNCHANGED pushCurTopToFront
    /\ UNCHANGED <<uids, preserveTopUid, initial, done>>

SkipUid ==
    /\ ~done /\ Unvisited
    /\ list[it] = OfflineUid \/ list[it] \notin uids
    /\ it' = it + 1
    /\ UNCHANGED <<list, uids, preserveTopUid, pushCurTopToFront, numUidsMoved, initial, done>>

Finish ==
    /\ ~done /\ ~Unvisited
    /\ list' = IF pushCurTopToFront THEN <<curTopUid>> \o list ELSE list
    /\ done' = TRUE
    /\ UNCHANGED <<uids, preserveTopUid, it, pushCurTopToFront, numUidsMoved, initial>>

LoopNext == MoveUid \/ SkipUid \/ Finish

LoopSpec == LoopInit /\ [][LoopNext]_loopVars

OrderOf(l) ==
    LET ahead == {p \in (DOMAIN l) \X (DOMAIN l) : p[1] <= p[2]}
    IN  {<<l[p[1]], l[p[2]]>> : p \in ahead}

(* The loop, with its early break and its special case for the first uid,   *)
(* leaves the list in the order that MoveUidsToTop gives.                   *)
LoopMatchesOrder ==
    done => OrderOf(list) = MoveUidsToTop(OrderOf(initial), uids, preserveTopUid)

(* "if there are multiple uids in the set, and the current front uid is     *)
(* still in the set, we try to keep that uid at front so that current       *)
(* session run is not interrupted" (moveUidsToTop_l).                       *)
TopUidKept == done /\ preserveTopUid /\ curTopUid \in uids => list[1] = curTopUid
=============================================================================
