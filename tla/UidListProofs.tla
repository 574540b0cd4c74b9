--------------------------- MODULE UidListProofs ---------------------------
(***************************************************************************)
(* Every operation on mUidSortedList leaves a list: an order of the uids   *)
(* that it should hold, with the offline uid at the end.                   *)
(***************************************************************************)
EXTENDS UidList, TLAPS

(* push_front of a uid that is not in the list. *)
LEMMA PushFrontLemma ==
    ASSUME NEW l, NEW u \in Uid, IsUidList(l), u \notin Elems(l)
    PROVE  /\ IsUidList(PushFront(l, u))
           /\ Elems(PushFront(l, u)) = Elems(l) \cup {u}
<1> DEFINE m == PushFront(l, u)
<1>1. Elems(m) = Elems(l) \cup {u}
    BY DEF PushFront, Elems
<1>2. \A v, w \in Elems(l) \cup {u} : <<v, w>> \in m <=> v = u \/ <<v, w>> \in l
    BY DEF PushFront, Elems, IsUidList
<1>3. m \subseteq Elems(m) \X Elems(m)
  <2> SUFFICES ASSUME NEW p \in m PROVE p \in Elems(m) \X Elems(m)
      OBVIOUS
  <2>1. CASE p \in l
      BY <1>1, <2>1 DEF IsUidList
  <2>2. CASE p \in {<<u, v>> : v \in Elems(l) \cup {u}}
    <3>1. PICK v \in Elems(l) \cup {u} : p = <<u, v>>
        BY <2>2
    <3> HIDE DEF m
    <3> QED BY <1>1, <3>1
  <2> QED BY <2>1, <2>2 DEF PushFront
<1>4. \A v \in Elems(l) : v # u /\ <<v, u>> \notin l /\ <<u, v>> \notin l
    BY DEF IsUidList
<1> HIDE DEF m
<1> QED BY <1>1, <1>2, <1>3, <1>4 DEF IsUidList, m

(* insert in front of the offline uid of a uid that is not in the list. *)
LEMMA InsertLemma ==
    ASSUME NEW l, NEW u \in Uid, IsUidList(l), u \notin Elems(l)
    PROVE  /\ IsUidList(InsertBeforeOffline(l, u))
           /\ Elems(InsertBeforeOffline(l, u)) = Elems(l) \cup {u}
<1> DEFINE m == InsertBeforeOffline(l, u)
<1>0. OfflineUid \in Elems(l) /\ u # OfflineUid
    BY DEF IsUidList
<1>1. Elems(m) = Elems(l) \cup {u}
  <2>1. ASSUME NEW v \in Uid PROVE <<v, v>> \in m <=> <<v, v>> \in l \/ v = u
      BY <1>0 DEF InsertBeforeOffline
  <2> HIDE DEF m
  <2> QED BY <2>1 DEF Elems
<1>2. \A v, w \in Elems(l) \cup {u} :
        <<v, w>> \in m <=> \/ <<v, w>> \in l
                           \/ w = u /\ v # OfflineUid
                           \/ v = u /\ w = OfflineUid
  <2> TAKE v, w \in Elems(l) \cup {u}
  <2>1. <<v, w>> \in {<<x, u>> : x \in Elems(l) \ {OfflineUid}} <=>
            w = u /\ v \in Elems(l) \ {OfflineUid}
      OBVIOUS
  <2>2. <<v, w>> \in {<<u, u>>, <<u, OfflineUid>>} <=> v = u /\ w \in {u, OfflineUid}
      OBVIOUS
  <2> QED BY <1>0, <2>1, <2>2 DEF InsertBeforeOffline
<1>3. m \subseteq Elems(m) \X Elems(m)
  <2> SUFFICES ASSUME NEW p \in m PROVE p \in Elems(m) \X Elems(m)
      OBVIOUS
  <2>1. CASE p \in l
      BY <1>1, <2>1 DEF IsUidList
  <2>2. CASE p \in {<<v, u>> : v \in Elems(l) \ {OfflineUid}}
    <3>1. PICK v \in Elems(l) : p = <<v, u>>
        BY <2>2
    <3> HIDE DEF m
    <3> QED BY <1>1, <3>1
  <2>3. CASE p \in {<<u, u>>, <<u, OfflineUid>>}
    <3> HIDE DEF m
    <3> QED BY <1>0, <1>1, <2>3
  <2> QED BY <2>1, <2>2, <2>3 DEF InsertBeforeOffline
<1>4. \A v \in Elems(l) : v # u /\ <<v, u>> \notin l /\ <<u, v>> \notin l
    BY DEF IsUidList
<1>5. OfflineUid \in Elems(l) /\ \A v \in Elems(l) : <<v, OfflineUid>> \in l
    BY DEF IsUidList
<1> HIDE DEF m
<1> QED BY <1>1, <1>2, <1>3, <1>4, <1>5 DEF IsUidList, m

(* remove of real-time uids. *)
LEMMA EraseLemma ==
    ASSUME NEW l, NEW S, IsUidList(l), OfflineUid \notin S
    PROVE  /\ IsUidList(EraseAll(l, S))
           /\ Elems(EraseAll(l, S)) = Elems(l) \ S
<1> DEFINE m == EraseAll(l, S)
<1>1. Elems(m) = Elems(l) \ S
    BY DEF EraseAll, Elems
<1>2. \A v, w \in Elems(l) \ S : <<v, w>> \in m <=> <<v, w>> \in l
    BY DEF EraseAll
<1>3. m \subseteq Elems(m) \X Elems(m)
    BY <1>1 DEF EraseAll, IsUidList
<1> HIDE DEF m
<1> QED BY <1>1, <1>2, <1>3 DEF IsUidList, m

(* moveUidsToTop_l. *)
LEMMA MoveLemma ==
    ASSUME NEW l, NEW uids, NEW preserveTopUid \in BOOLEAN, IsUidList(l)
    PROVE  /\ IsUidList(MoveUidsToTop(l, uids, preserveTopUid))
           /\ Elems(MoveUidsToTop(l, uids, preserveTopUid)) = Elems(l)
<1> DEFINE m == MoveUidsToTop(l, uids, preserveTopUid)
           moved == (uids \cap Elems(l)) \ {OfflineUid}
           keepsTop(u) == preserveTopUid /\ IsFront(l, u)
           ahead(u, v) == keepsTop(u) \/ (~keepsTop(v) /\ <<v, u>> \in l)
<1>1. \A v, w \in Elems(l) :
        <<v, w>> \in m <=> \/ v \in moved /\ w \notin moved
                           \/ v \in moved /\ w \in moved /\ ahead(v, w)
                           \/ v \notin moved /\ w \notin moved /\ <<v, w>> \in l
    BY DEF MoveUidsToTop
<1>2. m \subseteq Elems(l) \X Elems(l)
    BY DEF MoveUidsToTop
<1>3. \A u, v \in Elems(l) : keepsTop(u) /\ keepsTop(v) => u = v
    BY DEF IsFront, IsUidList
<1>4. \A u \in Elems(l) : <<u, u>> \in l
    BY DEF Elems
<1>5. \A u, v \in Elems(l) : ahead(u, v) \/ ahead(v, u)
    BY DEF IsUidList
<1>6. \A u, v \in Elems(l) : ahead(u, v) /\ ahead(v, u) => u = v
    BY <1>3 DEF IsUidList
<1>7. \A u, v, w \in Elems(l) : ahead(u, v) /\ ahead(v, w) => ahead(u, w)
    BY <1>3 DEF IsUidList
<1> HIDE DEF m, ahead, keepsTop
<1>8. Elems(m) = Elems(l)
  <2>1. \A u \in Elems(l) : <<u, u>> \in m
      BY <1>1, <1>4, <1>5
  <2>2. \A u \in Uid : <<u, u>> \in m => u \in Elems(l)
      BY <1>2
  <2> QED BY <2>1, <2>2 DEF Elems
<1>9. OfflineUid \in Elems(l) /\ OfflineUid \notin moved
    BY DEF IsUidList
<1>10. \A u \in Elems(l) : <<u, OfflineUid>> \in m
    BY <1>1, <1>9 DEF IsUidList
<1>11. ASSUME NEW u \in Elems(l), NEW v \in Elems(l)
       PROVE  /\ <<u, v>> \in m \/ <<v, u>> \in m
              /\ <<u, v>> \in m /\ <<v, u>> \in m => u = v
    BY <1>1, <1>5, <1>6 DEF IsUidList
<1>12. ASSUME NEW u \in Elems(l), NEW v \in Elems(l), NEW w \in Elems(l),
              <<u, v>> \in m, <<v, w>> \in m
       PROVE  <<u, w>> \in m
    BY <1>1, <1>7, <1>12 DEF IsUidList
<1>13. IsUidList(m)
    BY <1>2, <1>8, <1>9, <1>10, <1>11, <1>12 DEF IsUidList
<1> QED BY <1>8, <1>13 DEF m
=============================================================================
