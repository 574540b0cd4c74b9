------------------------------ MODULE UidList ------------------------------
(***************************************************************************)
(* mUidSortedList of TranscodingSessionController: the uids that have a    *)
(* session queue, in the order in which they are served.  The list never   *)
(* holds a uid twice, so it is kept as the order it stands for: a set of   *)
(* pairs with <<u, v>> \in l when u is v or stands ahead of v.  The pair   *)
(* <<u, u>> says that u is in the list.                                    *)
(***************************************************************************)
CONSTANTS
    Uid,        \* every uid, OFFLINE_UID included
    OfflineUid  \* OFFLINE_UID: the queue of the sessions without a real-time client

ASSUME OfflineAssumption == OfflineUid \in Uid

Elems(l) == {u \in Uid : <<u, u>> \in l}

(* u is *mUidSortedList.begin(). *)
IsFront(l, u) == u \in Elems(l) /\ \A v \in Elems(l) : <<u, v>> \in l

(* l puts the uids it holds in one order, with the offline uid at the end,  *)
(* where mOfflineUidIterator points.                                        *)
IsUidList(l) ==
    /\ l \subseteq Elems(l) \X Elems(l)
    /\ \A u, v \in Elems(l) :
        /\ <<u, v>> \in l \/ <<v, u>> \in l
        /\ <<u, v>> \in l /\ <<v, u>> \in l => u = v
        /\ \A w \in Elems(l) : <<u, v>> \in l /\ <<v, w>> \in l => <<u, w>> \in l
    /\ OfflineUid \in Elems(l)
    /\ \A u \in Elems(l) : <<u, OfflineUid>> \in l

PushFront(l, u) == l \cup {<<u, v>> : v \in Elems(l) \cup {u}}

(* Mutant: mUidSortedList.push_back(u). *)
InsertAtEnd(l, u) == l \cup {<<v, u>> : v \in Elems(l) \cup {u}}

(* mUidSortedList.insert(mOfflineUidIterator, u): u becomes the last        *)
(* real-time uid.                                                           *)
InsertBeforeOffline(l, u) ==
    l \cup {<<v, u>> : v \in Elems(l) \ {OfflineUid}} \cup {<<u, u>>, <<u, OfflineUid>>}

(* mUidSortedList.remove(u) for every u of a set. *)
EraseAll(l, uids) == {p \in l : p[1] \notin uids /\ p[2] \notin uids}

(* Mutant: the uids that move keep their relative order. *)
MoveUidsInOrder(l, uids, preserveTopUid) ==
    LET moved == (uids \cap Elems(l)) \ {OfflineUid}
    IN  {p \in Elems(l) \X Elems(l) :
            \/ p[1] \in moved /\ p[2] \notin moved
            \/ (p[1] \in moved <=> p[2] \in moved) /\ p \in l}

(***************************************************************************)
(* moveUidsToTop_l.  The listed uids of the set go ahead of all the others *)
(* and their relative order is reversed, because each is pushed to the     *)
(* front in turn; the first of the list, if it is to be preserved, stays   *)
(* the first.  The offline uid is never moved.                             *)
(***************************************************************************)
MoveUidsToTop(l, uids, preserveTopUid) ==
    LET moved == (uids \cap Elems(l)) \ {OfflineUid}
        keepsTop(u) == preserveTopUid /\ IsFront(l, u)
        ahead(u, v) == \/ keepsTop(u)
                       \/ ~keepsTop(v) /\ <<v, u>> \in l
    IN  {p \in Elems(l) \X Elems(l) :
            \/ p[1] \in moved /\ p[2] \notin moved
            \/ p[1] \in moved /\ p[2] \in moved /\ ahead(p[1], p[2])
            \/ p[1] \notin moved /\ p[2] \notin moved /\ p \in l}
=============================================================================
