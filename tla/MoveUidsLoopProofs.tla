------------------------- MODULE MoveUidsLoopProofs -------------------------
(***************************************************************************)
(* The loop of moveUidsToTop_l computes the order that UidList gives, for  *)
(* lists and sets of any length.                                           *)
(***************************************************************************)
EXTENDS MoveUidsLoop, FiniteSetTheorems, TLAPS

(* The uids that the loop takes to the front; the first of the list may be  *)
(* kept at the front.                                                       *)
Moves(u) == u \in uids /\ u # OfflineUid
Kept(u) == preserveTopUid /\ u = initial[1]

Earlier(u, v) == \E p, q \in DOMAIN initial : p < q /\ u = initial[p] /\ v = initial[q]

(* u has to stand ahead of v in the end. *)
Before(u, v) ==
    \/ Moves(u) /\ ~Moves(v)
    \/ Moves(u) /\ Moves(v) /\ Kept(u) /\ u # v
    \/ Moves(u) /\ Moves(v) /\ ~Kept(v) /\ Earlier(v, u)
    \/ ~Moves(u) /\ ~Moves(v) /\ Earlier(u, v)

(* The elements of initial that are no longer in list. *)
Offset == IF pushCurTopToFront THEN 1 ELSE 0

(* The positions in initial that the iterator has passed. *)
Passed == 1 .. (it - 1 + Offset)

MovedSoFar == {u \in uids : u # OfflineUid /\ \E q \in Passed : u = initial[q]}

LoopTypeOK ==
    /\ initial \in Seq(Uid) /\ Len(initial) >= 1
    /\ \A p, q \in DOMAIN initial : initial[p] = initial[q] => p = q
    /\ initial[Len(initial)] = OfflineUid
    /\ list \in Seq(Uid)
    /\ uids \in SUBSET Uid
    /\ preserveTopUid \in BOOLEAN
    /\ it \in Nat \ {0}
    /\ pushCurTopToFront \in BOOLEAN
    /\ numUidsMoved \in Nat
    /\ done \in BOOLEAN

(* Behind the iterator the list is as it was, before it in the new order.   *)
PlacesInv ==
    /\ Len(list) + Offset = Len(initial)
    /\ it <= Len(list) + 1
    /\ \A j \in it .. Len(list) : list[j] = initial[j + Offset]
    /\ \A j \in 1 .. (it - 1) : \E q \in (1 + Offset) .. (it - 1 + Offset) : list[j] = initial[q]
    /\ \A q \in (1 + Offset) .. (it - 1 + Offset) : \E j \in 1 .. (it - 1) : list[j] = initial[q]
    /\ \A i, j \in 1 .. (it - 1) : i < j => Before(list[i], list[j])

(* The first uid is taken out when it is to be kept. *)
TopInv ==
    /\ pushCurTopToFront => preserveTopUid /\ Moves(initial[1])
    /\ preserveTopUid /\ Moves(initial[1]) /\ it + Offset > 1 => pushCurTopToFront

Sorted ==
    /\ \A i, j \in DOMAIN list : i < j => Before(list[i], list[j])
    /\ \A j \in DOMAIN list : \E q \in DOMAIN initial : list[j] = initial[q]
    /\ \A q \in DOMAIN initial : \E j \in DOMAIN list : list[j] = initial[q]

LoopInv ==
    /\ LoopTypeOK
    /\ ~done => PlacesInv /\ TopInv /\ numUidsMoved = Cardinality(MovedSoFar)
    /\ done => Sorted
----------------------------------------------------------------------------
(* Lists *)

LEMMA ConcatLemma ==
    ASSUME NEW S, NEW a \in Seq(S), NEW b \in Seq(S)
    PROVE  a \o b \in Seq(S) /\ Len(a \o b) = Len(a) + Len(b)
OBVIOUS

LEMMA Erased ==
    ASSUME NEW S, NEW s \in Seq(S), NEW i \in 1 .. Len(s)
    PROVE  /\ RemoveAt(s, i) \in Seq(S) /\ Len(RemoveAt(s, i)) = Len(s) - 1
           /\ \A j \in 1 .. (i - 1) : RemoveAt(s, i)[j] = s[j]
           /\ \A j \in i .. (Len(s) - 1) : RemoveAt(s, i)[j] = s[j + 1]
<1> DEFINE a == SubSeq(s, 1, i - 1)
           b == SubSeq(s, i + 1, Len(s))
<1>0. Len(s) \in Nat /\ i \in Nat
    OBVIOUS
<1>1. a \in Seq(S) /\ Len(a) = i - 1 /\ \A j \in 1 .. (i - 1) : a[j] = s[j]
    BY <1>0
<1>2. b \in Seq(S) /\ Len(b) = Len(s) - i /\ \A j \in 1 .. (Len(s) - i) : b[j] = s[i + j]
    BY <1>0
<1>3. RemoveAt(s, i) = a \o b
    BY DEF RemoveAt
<1> HIDE DEF a, b
<1>4. a \o b \in Seq(S) /\ Len(a \o b) = Len(s) - 1
  <2>1. a \o b \in Seq(S) /\ Len(a \o b) = Len(a) + Len(b)
      BY <1>1, <1>2, ConcatLemma
  <2> QED BY <1>0, <1>1, <1>2, <2>1
<1>5. \A j \in 1 .. (i - 1) : (a \o b)[j] = s[j]
    BY <1>0, <1>1, <1>2
<1>6. ASSUME NEW j \in i .. (Len(s) - 1) PROVE (a \o b)[j] = s[j + 1]
  <2> DEFINE k == j - (i - 1)
  <2>1. (a \o b)[j] = b[k]
      BY <1>0, <1>1, <1>2
  <2>2. k \in 1 .. (Len(s) - i) /\ i + k = j + 1
      BY <1>0
  <2> HIDE DEF k
  <2> QED BY <1>2, <2>1, <2>2
<1> QED BY <1>3, <1>4, <1>5, <1>6

(* An element of a list is taken to its front. *)
LEMMA TakenToFront ==
    ASSUME NEW S, NEW s \in Seq(S), NEW i \in 1 .. Len(s)
    PROVE  /\ <<s[i]>> \o RemoveAt(s, i) \in Seq(S)
           /\ Len(<<s[i]>> \o RemoveAt(s, i)) = Len(s)
           /\ (<<s[i]>> \o RemoveAt(s, i))[1] = s[i]
           /\ \A j \in 2 .. i : (<<s[i]>> \o RemoveAt(s, i))[j] = s[j - 1]
           /\ \A j \in (i + 1) .. Len(s) : (<<s[i]>> \o RemoveAt(s, i))[j] = s[j]
<1> DEFINE r == RemoveAt(s, i)
<1>0. Len(s) \in Nat /\ i \in Nat /\ s[i] \in S
    OBVIOUS
<1>1. /\ r \in Seq(S) /\ Len(r) = Len(s) - 1
      /\ \A j \in 1 .. (i - 1) : r[j] = s[j]
      /\ \A j \in i .. (Len(s) - 1) : r[j] = s[j + 1]
    BY Erased
<1> HIDE DEF r
<1>2. /\ <<s[i]>> \o r \in Seq(S) /\ Len(<<s[i]>> \o r) = Len(s)
      /\ (<<s[i]>> \o r)[1] = s[i]
      /\ \A j \in 2 .. Len(s) : (<<s[i]>> \o r)[j] = r[j - 1]
    BY <1>0, <1>1
<1>3. \A j \in 2 .. i : (<<s[i]>> \o r)[j] = s[j - 1]
    BY <1>0, <1>1, <1>2
<1>4. \A j \in (i + 1) .. Len(s) : (<<s[i]>> \o r)[j] = s[j]
    BY <1>0, <1>1, <1>2
<1> QED BY <1>2, <1>3, <1>4 DEF r

LEMMA PushedToFront ==
    ASSUME NEW S, NEW s \in Seq(S), NEW e \in S
    PROVE  /\ <<e>> \o s \in Seq(S) /\ Len(<<e>> \o s) = Len(s) + 1
           /\ (<<e>> \o s)[1] = e
           /\ \A j \in 2 .. (Len(s) + 1) : (<<e>> \o s)[j] = s[j - 1]
OBVIOUS

(* The lists that the loop may be called with. *)
LEMMA UidListsLemma ==
    ASSUME NEW l \in UidLists
    PROVE  /\ l \in Seq(Uid) /\ Len(l) >= 1 /\ l[Len(l)] = OfflineUid
           /\ \A p, q \in DOMAIN l : l[p] = l[q] => p = q
<1>1. PICK s \in SUBSET (Uid \ {OfflineUid}) : l \in {Append(k, OfflineUid) : k \in SetToSeqs(s)}
    BY DEF UidLists
<1>2. PICK k \in SetToSeqs(s) : l = Append(k, OfflineUid)
    BY <1>1
<1>3. Cardinality(s) \in Nat
  <2>1. IsFiniteSet(s)
      BY FiniteAssumption, FS_Subset
  <2> QED BY <2>1, FS_CardinalityType
<1> DEFINE n == Cardinality(s)
<1> HIDE DEF n
<1>4. k \in [1 .. n -> s] /\ \A i, j \in 1 .. n : i # j => k[i] # k[j]
    BY <1>2 DEF SetToSeqs, n
<1>5. n \in Nat
    BY <1>3 DEF n
<1>6. k \in Seq(Uid) /\ Len(k) = n
    BY <1>4, <1>5
<1>7. /\ l \in Seq(Uid) /\ Len(l) = n + 1 /\ l[n + 1] = OfflineUid
      /\ \A i \in 1 .. n : l[i] = k[i]
    BY <1>2, <1>5, <1>6, OfflineAssumption
<1>8. ASSUME NEW p \in DOMAIN l, NEW q \in DOMAIN l, l[p] = l[q] PROVE p = q
  <2>1. p \in 1 .. (n + 1) /\ q \in 1 .. (n + 1)
      BY <1>7
  <2>2. \A i \in 1 .. n : l[i] # OfflineUid
      BY <1>4, <1>7
  <2> QED BY <1>4, <1>5, <1>7, <1>8, <2>1, <2>2
<1> QED BY <1>5, <1>7, <1>8

----------------------------------------------------------------------------
(* The new order *)

LEMMA OrderLemma ==
    ASSUME NEW l, NEW x
    PROVE  x \in OrderOf(l) <=> \E i, j \in DOMAIN l : i <= j /\ x = <<l[i], l[j]>>
<1> DEFINE ahead == {p \in (DOMAIN l) \X (DOMAIN l) : p[1] <= p[2]}
<1>1. OrderOf(l) = {<<l[p[1]], l[p[2]]>> : p \in ahead}
    BY DEF OrderOf
<1>2. ASSUME x \in OrderOf(l)
      PROVE  \E i, j \in DOMAIN l : i <= j /\ x = <<l[i], l[j]>>
  <2>1. PICK p \in ahead : x = <<l[p[1]], l[p[2]]>>
      BY <1>1, <1>2
  <2>2. p[1] \in DOMAIN l /\ p[2] \in DOMAIN l /\ p[1] <= p[2]
      BY <2>1
  <2> QED BY <2>1, <2>2
<1>3. ASSUME NEW i \in DOMAIN l, NEW j \in DOMAIN l, i <= j, x = <<l[i], l[j]>>
      PROVE  x \in OrderOf(l)
  <2>1. <<i, j>> \in ahead
      BY <1>3
  <2>2. x = <<l[<<i, j>>[1]], l[<<i, j>>[2]]>>
      BY <1>3
  <2> QED BY <1>1, <2>1, <2>2
<1> QED BY <1>2, <1>3

LEMMA BeforeLemma ==
    ASSUME LoopTypeOK, NEW u, NEW v, Before(u, v)
    PROVE  u # v /\ ~Before(v, u)
<1>1. \A a, b : Earlier(a, b) => a # b /\ ~Earlier(b, a)
  <2> SUFFICES ASSUME NEW a, NEW b, Earlier(a, b) PROVE a # b /\ ~Earlier(b, a)
      OBVIOUS
  <2>1. PICK p, q \in DOMAIN initial : p < q /\ a = initial[p] /\ b = initial[q]
      BY DEF Earlier
  <2>2. p \in Nat /\ q \in Nat
      BY <2>1 DEF LoopTypeOK
  <2>3. a # b
      BY <2>1, <2>2 DEF LoopTypeOK
  <2>4. ASSUME Earlier(b, a) PROVE FALSE
    <3>1. PICK x, y \in DOMAIN initial : x < y /\ b = initial[x] /\ a = initial[y]
        BY <2>4 DEF Earlier
    <3>2. x = q /\ y = p
        BY <2>1, <3>1 DEF LoopTypeOK
    <3> QED BY <2>1, <2>2, <3>1, <3>2
  <2> QED BY <2>3, <2>4
<1> QED BY <1>1 DEF Before, Kept

(* What the formula of UidList says of the list. *)
LEMMA FormulaLemma ==
    ASSUME LoopTypeOK, NEW u, NEW v
    PROVE  <<u, v>> \in MoveUidsToTop(OrderOf(initial), uids, preserveTopUid) <=>
             /\ \E p \in DOMAIN initial : u = initial[p]
             /\ \E q \in DOMAIN initial : v = initial[q]
             /\ u = v \/ Before(u, v)
<1> DEFINE l == OrderOf(initial)
           In(a) == \E p \in DOMAIN initial : a = initial[p]
<1>0. \A p \in DOMAIN initial : p \in Nat /\ p >= 1 /\ p <= Len(initial) /\ initial[p] \in Uid
    BY DEF LoopTypeOK
<1>1. \A a, b : <<a, b>> \in l <=> \E p, q \in DOMAIN initial :
                                     p <= q /\ a = initial[p] /\ b = initial[q]
  <2>1. \A x : x \in l <=> \E p, q \in DOMAIN initial : p <= q /\ x = <<initial[p], initial[q]>>
      BY OrderLemma
  <2> QED BY <2>1
<1>2. \A a, b : <<a, b>> \in l <=> In(a) /\ In(b) /\ (a = b \/ Earlier(a, b))
  <2> SUFFICES ASSUME NEW a, NEW b
               PROVE  <<a, b>> \in l <=> In(a) /\ In(b) /\ (a = b \/ Earlier(a, b))
      OBVIOUS
  <2>1. ASSUME <<a, b>> \in l PROVE In(a) /\ In(b) /\ (a = b \/ Earlier(a, b))
    <3>1. PICK p, q \in DOMAIN initial : p <= q /\ a = initial[p] /\ b = initial[q]
        BY <1>1, <2>1
    <3> QED BY <1>0, <3>1 DEF Earlier
  <2>2. ASSUME In(a), In(b), a = b PROVE <<a, b>> \in l
      BY <1>0, <1>1, <2>2
  <2>3. ASSUME Earlier(a, b) PROVE <<a, b>> \in l
    <3>1. PICK p, q \in DOMAIN initial : p < q /\ a = initial[p] /\ b = initial[q]
        BY <2>3 DEF Earlier
    <3> QED BY <1>0, <1>1, <3>1
  <2> QED BY <2>1, <2>2, <2>3
<1>3. \A a : a \in Elems(l) <=> In(a)
    BY <1>0, <1>2 DEF Elems
<1>4. 1 \in DOMAIN initial
    BY DEF LoopTypeOK
<1>5. \A a : IsFront(l, a) <=> a = initial[1]
  <2> SUFFICES ASSUME NEW a PROVE IsFront(l, a) <=> a = initial[1]
      OBVIOUS
  <2>1. ASSUME a = initial[1] PROVE IsFront(l, a)
    <3>1. \A b : In(b) => <<a, b>> \in l
        BY <1>0, <1>1, <1>4, <2>1
    <3> QED BY <1>3, <1>4, <2>1, <3>1 DEF IsFront
  <2>2. ASSUME IsFront(l, a) PROVE a = initial[1]
    <3>1. <<a, initial[1]>> \in l
        BY <1>3, <1>4, <2>2 DEF IsFront
    <3>2. PICK p, q \in DOMAIN initial : p <= q /\ a = initial[p] /\ initial[1] = initial[q]
        BY <1>1, <3>1
    <3>3. q = 1
        BY <1>4, <3>2 DEF LoopTypeOK
    <3>4. p = 1
        BY <1>0, <3>2, <3>3
    <3> QED BY <3>2, <3>4
  <2> QED BY <2>1, <2>2
<1> HIDE DEF l, In
<1>6. \A a : a \in (uids \cap Elems(l)) \ {OfflineUid} <=> In(a) /\ Moves(a)
    BY <1>3 DEF Moves
<1>7. <<u, v>> \in MoveUidsToTop(l, uids, preserveTopUid) <=>
        /\ In(u) /\ In(v)
        /\ \/ Moves(u) /\ ~Moves(v)
           \/ Moves(u) /\ Moves(v) /\ (Kept(u) \/ (~Kept(v) /\ <<v, u>> \in l))
           \/ ~Moves(u) /\ ~Moves(v) /\ <<u, v>> \in l
    BY <1>3, <1>5, <1>6 DEF MoveUidsToTop, Kept
<1>8. <<u, v>> \in MoveUidsToTop(l, uids, preserveTopUid) <=> In(u) /\ In(v) /\ (u = v \/ Before(u, v))
    BY <1>2, <1>7 DEF Before, Kept
<1> QED BY <1>8 DEF l, In

(* A list that is sorted in the new order has the order of the formula.     *)
LEMMA SortedLemma ==
    ASSUME LoopTypeOK, Sorted
    PROVE  OrderOf(list) = MoveUidsToTop(OrderOf(initial), uids, preserveTopUid)
<1> DEFINE m == MoveUidsToTop(OrderOf(initial), uids, preserveTopUid)
<1>0. \A j \in DOMAIN list : j \in Nat
    BY DEF LoopTypeOK
<1>1. \A x : x \in OrderOf(list) <=> \E i, j \in DOMAIN list : i <= j /\ x = <<list[i], list[j]>>
    BY OrderLemma
<1>2. ASSUME NEW x \in OrderOf(list) PROVE x \in m
  <2>1. PICK i, j \in DOMAIN list : i <= j /\ x = <<list[i], list[j]>>
      BY <1>1, <1>2
  <2>2. list[i] = list[j] \/ Before(list[i], list[j])
      BY <1>0, <2>1 DEF Sorted
  <2>3. /\ \E p \in DOMAIN initial : list[i] = initial[p]
        /\ \E q \in DOMAIN initial : list[j] = initial[q]
      BY <2>1 DEF Sorted
  <2> QED BY <2>1, <2>2, <2>3, FormulaLemma
<1>3. ASSUME NEW x \in m PROVE x \in OrderOf(list)
  <2>1. PICK u, v : x = <<u, v>>
      BY <1>3 DEF MoveUidsToTop
  <2>2. /\ \E p \in DOMAIN initial : u = initial[p]
        /\ \E q \in DOMAIN initial : v = initial[q]
        /\ u = v \/ Before(u, v)
      BY <1>3, <2>1, FormulaLemma
  <2>3. PICK i \in DOMAIN list : u = list[i]
      BY <2>2 DEF Sorted
  <2>4. PICK j \in DOMAIN list : v = list[j]
      BY <2>2 DEF Sorted
  <2>5. CASE u = v
    <3>1. i <= i /\ x = <<list[i], list[i]>>
        BY <1>0, <2>1, <2>3, <2>5
    <3> QED BY <1>1, <3>1
  <2>6. CASE Before(u, v)
    <3>1. ~Before(v, u)
        BY <2>6, BeforeLemma
    <3>2. i <= j
        BY <1>0, <2>3, <2>4, <3>1 DEF Sorted
    <3> QED BY <1>1, <2>1, <2>3, <2>4, <3>2
  <2> QED BY <2>2, <2>5, <2>6
<1> QED BY <1>2, <1>3
----------------------------------------------------------------------------
(* The loop *)

LEMMA LoopStarts ==
    ASSUME LoopInit
    PROVE  LoopInv
<1>1. LoopTypeOK
  <2>1. initial \in UidLists /\ list = initial
      BY DEF LoopInit
  <2>2. it \in Nat \ {0} /\ numUidsMoved \in Nat /\ uids \in SUBSET Uid
      BY DEF LoopInit
  <2> QED BY <2>1, <2>2, UidListsLemma DEF LoopInit, LoopTypeOK
<1>2. it = 1 /\ Offset = 0 /\ list = initial /\ pushCurTopToFront = FALSE /\ numUidsMoved = 0
    BY DEF LoopInit, Offset
<1>3. PlacesInv
    BY <1>1, <1>2 DEF PlacesInv, LoopTypeOK
<1>4. TopInv
    BY <1>2 DEF TopInv
<1>5. MovedSoFar = {}
    BY <1>2 DEF MovedSoFar, Passed
<1>6. numUidsMoved = Cardinality(MovedSoFar)
    BY <1>2, <1>5, FS_EmptySet
<1>7. ASSUME done PROVE Sorted
  <2>1. \A u : ~Moves(u)
      BY <1>7 DEF LoopInit, Moves
  <2>2. \A i, j \in DOMAIN list : i < j => Before(list[i], list[j])
      BY <1>2, <2>1 DEF Before, Earlier
  <2> QED BY <1>2, <2>2 DEF Sorted
<1> QED BY <1>1, <1>3, <1>4, <1>6, <1>7 DEF LoopInv

(* The uid at the iterator has not been moved. *)
LEMMA NextUidLemma ==
    ASSUME LoopInv, ~done, Unvisited
    PROVE  /\ it \in 1 .. Len(list) /\ it + Offset \in DOMAIN initial /\ Offset \in {0, 1}
           /\ list[it] = initial[it + Offset] /\ list[it] \in Uid
           /\ \A q \in Passed : q \in DOMAIN initial /\ initial[q] # list[it]
           /\ list[it] \notin MovedSoFar
           /\ Len(list) \in Nat /\ it \in Nat
<1>1. LoopTypeOK /\ PlacesInv
    BY DEF LoopInv
<1>2. Len(list) \in Nat /\ Len(initial) \in Nat /\ it \in Nat \ {0} /\ Offset \in {0, 1}
    BY <1>1 DEF LoopTypeOK, Offset
<1>3. it \in 1 .. Len(list) /\ DOMAIN initial = 1 .. Len(initial) /\ DOMAIN list = 1 .. Len(list)
    BY <1>1, <1>2 DEF Unvisited, LoopTypeOK
<1>4. it + Offset \in DOMAIN initial /\ list[it] = initial[it + Offset] /\ list[it] \in Uid
    BY <1>1, <1>2, <1>3 DEF PlacesInv, LoopTypeOK
<1>5. ASSUME NEW q \in Passed PROVE q \in DOMAIN initial /\ q # it + Offset
    BY <1>2, <1>3, <1>4 DEF Passed
<1>6. \A q \in Passed : q \in DOMAIN initial /\ initial[q] # list[it]
    BY <1>1, <1>4, <1>5 DEF LoopTypeOK
<1> QED BY <1>2, <1>3, <1>4, <1>6 DEF MovedSoFar

(* The count of the uids that were moved. *)
LEMMA CountLemma ==
    ASSUME LoopTypeOK, numUidsMoved = Cardinality(MovedSoFar)
    PROVE  /\ numUidsMoved = Cardinality(uids) => MovedSoFar = uids
           /\ \A u : u \notin MovedSoFar => Cardinality(MovedSoFar \cup {u}) = numUidsMoved + 1
<1>1. IsFiniteSet(uids)
    BY FiniteAssumption, FS_Subset DEF LoopTypeOK
<1>2. MovedSoFar \in SUBSET uids
    BY DEF MovedSoFar
<1>3. IsFiniteSet(MovedSoFar) /\ (Cardinality(uids) = Cardinality(MovedSoFar) => uids = MovedSoFar)
    BY <1>1, <1>2, FS_Subset
<1> QED BY <1>3, FS_AddElement

LEMMA BeforeKept ==
    ASSUME UNCHANGED <<uids, preserveTopUid, initial>>
    PROVE  \A i, j : Before(list[i], list[j])' <=> Before(list'[i], list'[j])
BY DEF Before, Moves, Kept, Earlier

LEMMA SkipStep ==
    ASSUME LoopInv, SkipUid
    PROVE  LoopInv'
<1>1. /\ ~done /\ Unvisited /\ ~Moves(list[it]) /\ it' = it + 1
      /\ UNCHANGED <<list, uids, preserveTopUid, pushCurTopToFront, numUidsMoved, initial, done>>
    BY DEF SkipUid, Moves
<1>2. LoopTypeOK /\ PlacesInv /\ TopInv /\ numUidsMoved = Cardinality(MovedSoFar)
    BY <1>1 DEF LoopInv
<1>3. /\ it \in 1 .. Len(list) /\ it + Offset \in DOMAIN initial /\ Offset \in {0, 1}
      /\ list[it] = initial[it + Offset]
      /\ \A q \in Passed : q \in DOMAIN initial /\ initial[q] # list[it]
      /\ Len(list) \in Nat /\ it \in Nat
    BY <1>1, NextUidLemma
<1>4. LoopTypeOK'
  <2>1. it' \in Nat \ {0}
      BY <1>1, <1>3
  <2> QED BY <1>1, <1>2, <2>1 DEF LoopTypeOK
<1>5. /\ Offset' = Offset
      /\ \A u, v : Before(u, v)' <=> Before(u, v)
      /\ \A u : Moves(u)' <=> Moves(u)
    BY <1>1 DEF Offset, Before, Moves, Kept, Earlier
<1>6. ASSUME NEW i \in 1 .. (it - 1) PROVE Before(list[i], list[it])
  <2>1. PICK q \in (1 + Offset) .. (it - 1 + Offset) : list[i] = initial[q]
      BY <1>2 DEF PlacesInv
  <2>2. q \in DOMAIN initial /\ q < it + Offset
      BY <1>3, <2>1 DEF Passed
  <2>3. Earlier(list[i], list[it])
      BY <1>3, <2>1, <2>2 DEF Earlier
  <2> QED BY <1>1, <2>3 DEF Before
<1>7. PlacesInv'
  <2>1. (Len(list) + Offset = Len(initial) /\ it <= Len(list) + 1)'
      BY <1>1, <1>2, <1>3, <1>5 DEF PlacesInv
  <2>2. \A j \in it' .. Len(list) : list[j] = initial[j + Offset]
      BY <1>1, <1>2, <1>3 DEF PlacesInv
  <2>3. \A j \in 1 .. it : \E q \in (1 + Offset) .. (it + Offset) : list[j] = initial[q]
    <3> SUFFICES ASSUME NEW j \in 1 .. it
                 PROVE  \E q \in (1 + Offset) .. (it + Offset) : list[j] = initial[q]
        OBVIOUS
    <3>1. CASE j = it
      <4>1. it + Offset \in (1 + Offset) .. (it + Offset)
          BY <1>3
      <4> QED BY <1>3, <3>1, <4>1
    <3>2. CASE j # it
      <4>0. j \in 1 .. (it - 1)
          BY <1>3, <3>2
      <4>1. PICK q \in (1 + Offset) .. (it - 1 + Offset) : list[j] = initial[q]
          BY <1>2, <4>0 DEF PlacesInv
      <4>2. q \in (1 + Offset) .. (it + Offset)
          BY <1>3, <4>1
      <4> QED BY <4>1, <4>2
    <3> QED BY <3>1, <3>2
  <2>4. \A q \in (1 + Offset) .. (it + Offset) : \E j \in 1 .. it : list[j] = initial[q]
    <3> SUFFICES ASSUME NEW q \in (1 + Offset) .. (it + Offset)
                 PROVE  \E j \in 1 .. it : list[j] = initial[q]
        OBVIOUS
    <3>1. CASE q = it + Offset
        BY <1>3, <3>1
    <3>2. CASE q # it + Offset
      <4>1. q \in (1 + Offset) .. (it - 1 + Offset)
          BY <1>3, <3>2
      <4>2. PICK j \in 1 .. (it - 1) : list[j] = initial[q]
          BY <1>2, <4>1 DEF PlacesInv
      <4>3. j \in 1 .. it
          BY <1>3, <4>2
      <4> QED BY <4>2, <4>3
    <3> QED BY <3>1, <3>2
  <2>5. ASSUME NEW i \in 1 .. it, NEW j \in 1 .. it, i < j PROVE Before(list[i], list[j])
    <3>1. i \in 1 .. (it - 1)
        BY <1>3, <2>5
    <3>2. CASE j = it
        BY <1>6, <3>1, <3>2
    <3>3. CASE j # it
      <4>1. j \in 1 .. (it - 1)
          BY <1>3, <3>3
      <4> QED BY <1>2, <2>5, <3>1, <4>1 DEF PlacesInv
    <3> QED BY <3>2, <3>3
  <2>6. it' - 1 = it
      BY <1>1, <1>3
  <2>7. /\ \A j \in it' .. Len(list') : list'[j] = initial'[j + Offset']
        /\ \A j \in 1 .. (it' - 1) :
             \E q \in (1 + Offset') .. (it' - 1 + Offset') : list'[j] = initial'[q]
        /\ \A q \in (1 + Offset') .. (it' - 1 + Offset') :
             \E j \in 1 .. (it' - 1) : list'[j] = initial'[q]
      BY <1>1, <1>5, <2>2, <2>3, <2>4, <2>6
  <2>8. \A i, j \in 1 .. (it' - 1) : i < j => Before(list[i], list[j])'
      BY <1>1, <1>5, <2>5, <2>6
  <2> QED BY <2>1, <2>7, <2>8 DEF PlacesInv
<1>8. TopInv'
  <2>1. ASSUME preserveTopUid, Moves(initial[1]) PROVE pushCurTopToFront
    <3>1. it + Offset # 1
        BY <1>1, <1>3, <2>1
    <3> QED BY <1>2, <1>3, <2>1, <3>1 DEF TopInv
  <2> QED BY <1>1, <1>2, <1>5, <2>1 DEF TopInv, Moves
<1>9. MovedSoFar' = MovedSoFar
  <2>1. \A q : q \in Passed' <=> q \in Passed \/ q = it + Offset
      BY <1>1, <1>3, <1>5 DEF Passed
  <2> QED BY <1>1, <1>3, <2>1 DEF MovedSoFar, Moves
<1> QED BY <1>1, <1>2, <1>4, <1>7, <1>8, <1>9 DEF LoopInv
(* The first uid is taken out. *)
LEMMA KeepStep ==
    ASSUME LoopInv, MoveUid, IsPreserved
    PROVE  LoopInv'
<1>1. /\ ~done /\ Unvisited /\ Moves(list[it]) /\ list[it] = initial[1] /\ preserveTopUid
      /\ list' = RemoveAt(list, it) /\ pushCurTopToFront' = TRUE
      /\ numUidsMoved' = numUidsMoved + 1
      /\ UNCHANGED <<it, uids, preserveTopUid, initial, done>>
    BY DEF MoveUid, IsPreserved, curTopUid, Moves
<1>2. LoopTypeOK /\ PlacesInv /\ TopInv /\ numUidsMoved = Cardinality(MovedSoFar)
    BY <1>1 DEF LoopInv
<1>3. /\ it \in 1 .. Len(list) /\ it + Offset \in DOMAIN initial /\ Offset \in {0, 1}
      /\ list[it] = initial[it + Offset] /\ list[it] \notin MovedSoFar
      /\ Len(list) \in Nat /\ it \in Nat
    BY <1>1, NextUidLemma
<1>4. it = 1 /\ Offset = 0 /\ Offset' = 1
  <2>1. 1 \in DOMAIN initial
      BY <1>2 DEF LoopTypeOK
  <2>2. it + Offset = 1
      BY <1>1, <1>2, <1>3, <2>1 DEF LoopTypeOK
  <2> QED BY <1>1, <1>3, <2>2 DEF Offset
<1>5. /\ list' \in Seq(Uid) /\ Len(list') = Len(list) - 1
      /\ \A j \in 1 .. (Len(list) - 1) : list'[j] = list[j + 1]
  <2>1. list \in Seq(Uid) /\ 1 \in 1 .. Len(list) /\ list' = RemoveAt(list, 1)
      BY <1>1, <1>2, <1>3, <1>4 DEF LoopTypeOK
  <2> QED BY <2>1, Erased
<1>6. LoopTypeOK'
  <2>1. numUidsMoved' \in Nat
      BY <1>1, <1>2 DEF LoopTypeOK
  <2> QED BY <1>1, <1>2, <1>5, <2>1 DEF LoopTypeOK
<1>7. PlacesInv'
  <2>1. (Len(list) + Offset = Len(initial) /\ it <= Len(list) + 1)'
      BY <1>1, <1>2, <1>3, <1>4, <1>5 DEF PlacesInv
  <2>2. ASSUME NEW j \in 1 .. (Len(list) - 1) PROVE list'[j] = initial[j + 1]
    <3>1. j + 1 \in it .. Len(list) /\ j + 1 + Offset = j + 1
        BY <1>3, <1>4
    <3>2. list[j + 1] = initial[j + 1]
        BY <1>2, <3>1 DEF PlacesInv
    <3> QED BY <1>5, <3>2
  <2>3. it' = 1 /\ Offset' = 1 /\ Len(list') = Len(list) - 1 /\ initial' = initial
      BY <1>1, <1>4, <1>5
  <2> QED BY <2>1, <2>2, <2>3 DEF PlacesInv
<1>8. TopInv'
    BY <1>1 DEF TopInv, Moves
<1>9. MovedSoFar' = MovedSoFar \cup {list[it]}
    BY <1>1, <1>4 DEF MovedSoFar, Passed, Moves
<1>10. (numUidsMoved = Cardinality(MovedSoFar))'
    BY <1>1, <1>2, <1>3, <1>9, CountLemma
<1> QED BY <1>1, <1>6, <1>7, <1>8, <1>10 DEF LoopInv

(* A uid is taken to the front. *)
LEMMA FrontStep ==
    ASSUME LoopInv, MoveUid, ~IsPreserved
    PROVE  LoopInv'
<1> DEFINE e == list[it]
<1>1. /\ ~done /\ Unvisited /\ Moves(e) /\ ~(e = initial[1] /\ preserveTopUid)
      /\ list' = <<e>> \o RemoveAt(list, it) /\ it' = it + 1
      /\ numUidsMoved' = numUidsMoved + 1
      /\ UNCHANGED <<pushCurTopToFront, uids, preserveTopUid, initial, done>>
    BY DEF MoveUid, IsPreserved, curTopUid, Moves
<1>2. LoopTypeOK /\ PlacesInv /\ TopInv /\ numUidsMoved = Cardinality(MovedSoFar)
    BY <1>1 DEF LoopInv
<1>3. /\ it \in 1 .. Len(list) /\ it + Offset \in DOMAIN initial /\ Offset \in {0, 1}
      /\ e = initial[it + Offset] /\ e \notin MovedSoFar
      /\ \A q \in Passed : q \in DOMAIN initial /\ initial[q] # e
      /\ Len(list) \in Nat /\ it \in Nat
    BY <1>1, NextUidLemma
<1>4. /\ list' \in Seq(Uid) /\ Len(list') = Len(list)
      /\ list'[1] = e
      /\ \A j \in 2 .. it : list'[j] = list[j - 1]
      /\ \A j \in (it + 1) .. Len(list) : list'[j] = list[j]
  <2>1. list \in Seq(Uid) /\ list' = <<list[it]>> \o RemoveAt(list, it)
      BY <1>1, <1>2 DEF LoopTypeOK
  <2>2. it \in 1 .. Len(list)
      BY <1>3
  <2> HIDE DEF e
  <2> DEFINE n == <<list[it]>> \o RemoveAt(list, it)
  <2>3. /\ n \in Seq(Uid) /\ Len(n) = Len(list)
        /\ n[1] = list[it]
        /\ \A j \in 2 .. it : n[j] = list[j - 1]
        /\ \A j \in (it + 1) .. Len(list) : n[j] = list[j]
      BY <2>1, <2>2, TakenToFront
  <2>4. list' = n
      BY <2>1
  <2> HIDE DEF n
  <2> QED BY <2>3, <2>4 DEF e
<1>5. LoopTypeOK'
  <2>1. it' \in Nat \ {0} /\ numUidsMoved' \in Nat
      BY <1>1, <1>2, <1>3 DEF LoopTypeOK
  <2> QED BY <1>1, <1>2, <1>4, <2>1 DEF LoopTypeOK
<1>6. /\ Offset' = Offset
      /\ \A u, v : Before(u, v)' <=> Before(u, v)
      /\ \A u : Moves(u)' <=> Moves(u)
    BY <1>1 DEF Offset, Before, Moves, Kept, Earlier
<1>7. ASSUME NEW i \in 1 .. (it - 1) PROVE Before(e, list[i])
  <2>1. PICK q \in (1 + Offset) .. (it - 1 + Offset) : list[i] = initial[q]
      BY <1>2 DEF PlacesInv
  <2>2. q \in DOMAIN initial /\ q < it + Offset
      BY <1>3, <2>1 DEF Passed
  <2>3. Earlier(list[i], e)
      BY <1>3, <2>1, <2>2 DEF Earlier
  <2>4. ASSUME Moves(list[i]) PROVE ~Kept(list[i])
    <3> SUFFICES ASSUME preserveTopUid, list[i] = initial[1] PROVE FALSE
        BY DEF Kept
    <3>1. it + Offset > 1
        BY <1>3
    <3>2. Offset = 1
        BY <1>2, <2>4, <3>1 DEF TopInv, Offset
    <3>3. 1 \in DOMAIN initial /\ q # 1
        BY <1>2, <2>1, <3>2 DEF LoopTypeOK
    <3> QED BY <1>2, <2>1, <2>2, <3>3 DEF LoopTypeOK
  <2> QED BY <1>1, <2>3, <2>4 DEF Before
<1>8. PlacesInv'
  <2>1. (Len(list) + Offset = Len(initial) /\ it <= Len(list) + 1)'
      BY <1>1, <1>2, <1>3, <1>4, <1>6 DEF PlacesInv
  <2>2. ASSUME NEW j \in (it + 1) .. Len(list) PROVE list'[j] = initial[j + Offset]
      BY <1>2, <1>3, <1>4 DEF PlacesInv
  <2>3. ASSUME NEW j \in 1 .. it
        PROVE  \E q \in (1 + Offset) .. (it + Offset) : list'[j] = initial[q]
    <3>1. CASE j = 1
      <4>1. it + Offset \in (1 + Offset) .. (it + Offset)
          BY <1>3
      <4> QED BY <1>3, <1>4, <3>1, <4>1
    <3>2. CASE j # 1
      <4>0. j \in 2 .. it /\ j - 1 \in 1 .. (it - 1)
          BY <1>3, <3>2
      <4>1. PICK q \in (1 + Offset) .. (it - 1 + Offset) : list[j - 1] = initial[q]
          BY <1>2, <4>0 DEF PlacesInv
      <4>2. q \in (1 + Offset) .. (it + Offset)
          BY <1>3, <4>1
      <4> QED BY <1>4, <4>0, <4>1, <4>2
    <3> QED BY <3>1, <3>2
  <2>4. ASSUME NEW q \in (1 + Offset) .. (it + Offset)
        PROVE  \E j \in 1 .. it : list'[j] = initial[q]
    <3>1. CASE q = it + Offset
      <4>1. 1 \in 1 .. it
          BY <1>3
      <4> QED BY <1>3, <1>4, <3>1, <4>1
    <3>2. CASE q # it + Offset
      <4>1. q \in (1 + Offset) .. (it - 1 + Offset)
          BY <1>3, <3>2
      <4>2. PICK j \in 1 .. (it - 1) : list[j] = initial[q]
          BY <1>2, <4>1 DEF PlacesInv
      <4>3. j + 1 \in 1 .. it /\ j + 1 \in 2 .. it /\ (j + 1) - 1 = j
          BY <1>3, <4>2
      <4>4. list'[j + 1] = initial[q]
          BY <1>4, <4>2, <4>3
      <4> QED BY <4>3, <4>4
    <3> QED BY <3>1, <3>2
  <2>5. ASSUME NEW i \in 1 .. it, NEW j \in 1 .. it, i < j PROVE Before(list'[i], list'[j])
    <3>1. j \in 2 .. it /\ j - 1 \in 1 .. (it - 1) /\ list'[j] = list[j - 1]
      <4>1. j \in 2 .. it /\ j - 1 \in 1 .. (it - 1)
          BY <1>3, <2>5
      <4> QED BY <1>4, <4>1
    <3>2. CASE i = 1
        BY <1>4, <1>7, <3>1, <3>2
    <3>3. CASE i # 1
      <4>1. i \in 2 .. it /\ i - 1 \in 1 .. (it - 1) /\ i - 1 < j - 1
          BY <1>3, <2>5, <3>3
      <4>2. Before(list[i - 1], list[j - 1])
          BY <1>2, <3>1, <4>1 DEF PlacesInv
      <4> QED BY <1>4, <3>1, <4>1, <4>2
    <3> QED BY <3>2, <3>3
  <2>6. it' - 1 = it /\ it' = it + 1
      BY <1>1, <1>3
  <2>7. /\ \A j \in it' .. Len(list') : list'[j] = initial'[j + Offset']
        /\ \A j \in 1 .. (it' - 1) :
             \E q \in (1 + Offset') .. (it' - 1 + Offset') : list'[j] = initial'[q]
        /\ \A q \in (1 + Offset') .. (it' - 1 + Offset') :
             \E j \in 1 .. (it' - 1) : list'[j] = initial'[q]
    <3>1. initial' = initial /\ Offset' = Offset /\ Len(list') = Len(list) /\ it' - 1 = it
          /\ it' = it + 1
        BY <1>1, <1>4, <1>6, <2>6
    <3> HIDE DEF e
    <3> QED BY <2>2, <2>3, <2>4, <3>1
  <2>8. \A i, j \in 1 .. (it' - 1) : i < j => Before(list[i], list[j])'
      BY <1>1, <2>5, <2>6, BeforeKept
  <2> QED BY <2>1, <2>7, <2>8 DEF PlacesInv
<1>9. TopInv'
  <2>1. ASSUME preserveTopUid, Moves(initial[1]) PROVE pushCurTopToFront
    <3>1. it + Offset # 1
        BY <1>1, <1>3, <2>1
    <3> QED BY <1>2, <1>3, <2>1, <3>1 DEF TopInv
  <2> QED BY <1>1, <1>2, <1>6, <2>1 DEF TopInv, Moves
<1>10. MovedSoFar' = MovedSoFar \cup {e}
  <2>1. \A q : q \in Passed' <=> q \in Passed \/ q = it + Offset
    <3>1. it' = it + 1 /\ Offset' = Offset /\ it \in Nat \ {0} /\ Offset \in {0, 1}
        BY <1>1, <1>3, <1>6
    <3> QED BY <3>1 DEF Passed
  <2> QED BY <1>1, <1>3, <2>1 DEF MovedSoFar, Moves
<1>11. (numUidsMoved = Cardinality(MovedSoFar))'
    BY <1>1, <1>2, <1>3, <1>10, CountLemma
<1> QED BY <1>1, <1>5, <1>8, <1>9, <1>11 DEF LoopInv

(* The end: what the iterator has not come to does not move. *)
LEMMA FinishStep ==
    ASSUME LoopInv, Finish
    PROVE  LoopInv'
<1>1. /\ ~done /\ ~Unvisited /\ done' = TRUE
      /\ list' = IF pushCurTopToFront THEN <<initial[1]>> \o list ELSE list
      /\ UNCHANGED <<uids, preserveTopUid, it, pushCurTopToFront, numUidsMoved, initial>>
    BY DEF Finish, curTopUid
<1>2. LoopTypeOK /\ PlacesInv /\ TopInv /\ numUidsMoved = Cardinality(MovedSoFar)
    BY <1>1 DEF LoopInv
<1>3. /\ Len(list) \in Nat /\ Len(initial) \in Nat /\ it \in Nat \ {0} /\ Offset \in {0, 1}
      /\ DOMAIN list = 1 .. Len(list) /\ DOMAIN initial = 1 .. Len(initial)
      /\ initial[1] \in Uid
    BY <1>2 DEF LoopTypeOK, Offset
<1>4. ASSUME NEW j \in it .. Len(list) PROVE ~Moves(list[j])
  <2>1. j + Offset \in DOMAIN initial /\ list[j] = initial[j + Offset] /\ j + Offset \notin Passed
      BY <1>2, <1>3 DEF PlacesInv, Passed
  <2>2. MovedSoFar = uids
      BY <1>1, <1>2, <1>3, CountLemma DEF Unvisited
  <2>3. \A q \in Passed : q \in DOMAIN initial
      BY <1>2, <1>3 DEF PlacesInv, Passed
  <2>4. list[j] \notin MovedSoFar
      BY <1>2, <2>1, <2>3 DEF MovedSoFar, LoopTypeOK
  <2> QED BY <2>2, <2>4 DEF Moves
<1>5. ASSUME NEW j \in DOMAIN list
      PROVE  \E q \in (1 + Offset) .. Len(initial) :
               /\ list[j] = initial[q]
               /\ j >= it => q = j + Offset
               /\ j < it => q < it + Offset
  <2>1. CASE j >= it
    <3>1. j \in it .. Len(list) /\ j + Offset \in (1 + Offset) .. Len(initial)
        BY <1>2, <1>3, <2>1 DEF PlacesInv
    <3>2. list[j] = initial[j + Offset]
        BY <1>2, <3>1 DEF PlacesInv
    <3> QED BY <1>3, <2>1, <3>1, <3>2
  <2>2. CASE j < it
    <3>1. j \in 1 .. (it - 1)
        BY <1>3, <2>2
    <3>2. PICK q \in (1 + Offset) .. (it - 1 + Offset) : list[j] = initial[q]
        BY <1>2, <3>1 DEF PlacesInv
    <3>3. q \in (1 + Offset) .. Len(initial) /\ q < it + Offset
        BY <1>2, <1>3, <3>2 DEF PlacesInv
    <3> QED BY <1>3, <2>2, <3>2, <3>3
  <2> QED BY <1>3, <2>1, <2>2
<1>6. ASSUME NEW i \in DOMAIN list, NEW j \in DOMAIN list, i < j
      PROVE  Before(list[i], list[j])
  <2>1. CASE j < it
    <3>1. i \in 1 .. (it - 1) /\ j \in 1 .. (it - 1)
        BY <1>3, <1>6, <2>1
    <3> QED BY <1>2, <1>6, <3>1 DEF PlacesInv
  <2>2. CASE j >= it
    <3>1. j \in it .. Len(list)
        BY <1>3, <2>2
    <3>2. ~Moves(list[j])
        BY <1>4, <3>1
    <3>3. PICK q \in (1 + Offset) .. Len(initial) : list[j] = initial[q] /\ q = j + Offset
        BY <1>5, <2>2
    <3>4. PICK p \in (1 + Offset) .. Len(initial) :
            /\ list[i] = initial[p]
            /\ i >= it => p = i + Offset
            /\ i < it => p < it + Offset
        BY <1>5
    <3>5. p < q /\ p \in DOMAIN initial /\ q \in DOMAIN initial
        BY <1>3, <1>6, <2>2, <3>3, <3>4
    <3>6. Earlier(list[i], list[j])
        BY <3>3, <3>4, <3>5 DEF Earlier
    <3> QED BY <3>2, <3>6 DEF Before
  <2> QED BY <1>3, <2>1, <2>2
<1>7. ASSUME NEW q \in (1 + Offset) .. Len(initial) PROVE \E j \in DOMAIN list : list[j] = initial[q]
  <2>1. CASE q <= it - 1 + Offset
    <3>1. q \in (1 + Offset) .. (it - 1 + Offset)
        BY <1>3, <2>1
    <3>2. PICK j \in 1 .. (it - 1) : list[j] = initial[q]
        BY <1>2, <3>1 DEF PlacesInv
    <3>3. j \in DOMAIN list
        BY <1>2, <1>3, <3>2 DEF PlacesInv
    <3> QED BY <3>2, <3>3
  <2>2. CASE q > it - 1 + Offset
    <3>1. q - Offset \in it .. Len(list) /\ q - Offset \in DOMAIN list /\ (q - Offset) + Offset = q
        BY <1>2, <1>3, <2>2 DEF PlacesInv
    <3>2. list[q - Offset] = initial[(q - Offset) + Offset]
        BY <1>2, <3>1 DEF PlacesInv
    <3> QED BY <3>1, <3>2
  <2> QED BY <1>3, <2>1, <2>2
<1>8. CASE pushCurTopToFront
  <2>1. Offset = 1 /\ preserveTopUid /\ Moves(initial[1]) /\ list' = <<initial[1]>> \o list
      BY <1>1, <1>2, <1>8 DEF Offset, TopInv
  <2>2. /\ list' \in Seq(Uid) /\ Len(list') = Len(list) + 1
        /\ list'[1] = initial[1]
        /\ \A j \in 2 .. (Len(list) + 1) : list'[j] = list[j - 1]
      BY <1>2, <1>3, <2>1, PushedToFront DEF LoopTypeOK
  <2>3. DOMAIN list' = 1 .. (Len(list) + 1)
      BY <1>3, <2>2
  <2>4. ASSUME NEW j \in DOMAIN list PROVE Before(initial[1], list[j])
    <3>1. PICK q \in 2 .. Len(initial) : list[j] = initial[q]
        BY <1>5, <2>1
    <3>2. initial[1] # list[j]
        BY <1>2, <1>3, <3>1 DEF LoopTypeOK
    <3> QED BY <2>1, <3>2 DEF Before, Kept
  <2>5. ASSUME NEW i \in DOMAIN list', NEW j \in DOMAIN list', i < j
        PROVE  Before(list'[i], list'[j])
    <3>1. j \in 2 .. (Len(list) + 1) /\ j - 1 \in DOMAIN list
        BY <1>3, <2>3, <2>5
    <3>2. CASE i = 1
        BY <2>2, <2>4, <3>1, <3>2
    <3>3. CASE i # 1
      <4>1. i \in 2 .. (Len(list) + 1) /\ i - 1 \in DOMAIN list /\ i - 1 < j - 1
          BY <1>3, <2>3, <2>5, <3>3
      <4> QED BY <1>6, <2>2, <3>1, <4>1
    <3> QED BY <3>2, <3>3
  <2>6. ASSUME NEW j \in DOMAIN list' PROVE \E q \in DOMAIN initial : list'[j] = initial[q]
    <3>1. CASE j = 1
        BY <1>2, <1>3, <2>2, <3>1 DEF LoopTypeOK
    <3>2. CASE j # 1
      <4>1. j \in 2 .. (Len(list) + 1) /\ j - 1 \in DOMAIN list
          BY <1>3, <2>3, <3>2
      <4>2. PICK q \in 2 .. Len(initial) : list[j - 1] = initial[q]
          BY <1>5, <2>1, <4>1
      <4> QED BY <1>3, <2>2, <4>1, <4>2
    <3> QED BY <3>1, <3>2
  <2>7. ASSUME NEW q \in DOMAIN initial PROVE \E j \in DOMAIN list' : list'[j] = initial[q]
    <3>1. CASE q = 1
        BY <1>3, <2>2, <2>3, <3>1
    <3>2. CASE q # 1
      <4>1. q \in (1 + Offset) .. Len(initial)
          BY <1>3, <2>1, <3>2
      <4>2. PICK j \in DOMAIN list : list[j] = initial[q]
          BY <1>7, <4>1
      <4>3. j + 1 \in DOMAIN list' /\ j + 1 \in 2 .. (Len(list) + 1) /\ (j + 1) - 1 = j
          BY <1>3, <2>3, <4>2
      <4>4. list'[j + 1] = initial[q]
          BY <2>2, <4>2, <4>3
      <4> QED BY <4>3, <4>4
    <3> QED BY <3>1, <3>2
  <2>8. Sorted'
    <3>1. UNCHANGED <<uids, preserveTopUid, initial>>
        BY <1>1
    <3>2. \A i, j \in DOMAIN list' : i < j => Before(list[i], list[j])'
        BY <2>5, <3>1, BeforeKept
    <3> QED BY <2>6, <2>7, <3>1, <3>2 DEF Sorted
  <2>9. LoopTypeOK'
      BY <1>1, <1>2, <2>2 DEF LoopTypeOK
  <2> QED BY <1>1, <2>8, <2>9 DEF LoopInv
<1>9. CASE ~pushCurTopToFront
  <2>1. Offset = 0 /\ list' = list
      BY <1>1, <1>9 DEF Offset
  <2>2. Sorted
    <3>1. (1 + Offset) .. Len(initial) = DOMAIN initial
        BY <1>3, <2>1
    <3>2. \A j \in DOMAIN list : \E q \in DOMAIN initial : list[j] = initial[q]
        BY <1>5, <3>1
    <3>3. \A q \in DOMAIN initial : \E j \in DOMAIN list : list[j] = initial[q]
        BY <1>7, <3>1
    <3> QED BY <1>6, <3>2, <3>3 DEF Sorted
  <2>3. Sorted'
    <3>1. UNCHANGED <<uids, preserveTopUid, initial, list>>
        BY <1>1, <2>1
    <3> QED BY <2>2, <3>1, BeforeKept DEF Sorted
  <2>4. LoopTypeOK'
      BY <1>1, <1>2, <2>1 DEF LoopTypeOK
  <2> QED BY <1>1, <2>3, <2>4 DEF LoopInv
<1> QED BY <1>8, <1>9
LEMMA LoopSteps ==
    ASSUME LoopInv, [LoopNext]_loopVars
    PROVE  LoopInv'
<1>1. CASE MoveUid
    BY <1>1, KeepStep, FrontStep
<1>2. CASE SkipUid
    BY <1>2, SkipStep
<1>3. CASE Finish
    BY <1>3, FinishStep
<1>4. CASE UNCHANGED loopVars
  <2>1. UNCHANGED <<list, uids, preserveTopUid, it, pushCurTopToFront, numUidsMoved, initial, done>>
      BY <1>4 DEF loopVars
  <2>2. Offset' = Offset /\ MovedSoFar' = MovedSoFar
      BY <2>1 DEF Offset, MovedSoFar, Passed
  <2>3. LoopTypeOK'
      BY <2>1 DEF LoopInv, LoopTypeOK
  <2>4. PlacesInv => PlacesInv'
      BY <2>1, <2>2, BeforeKept DEF PlacesInv
  <2>5. TopInv => TopInv'
      BY <2>1, <2>2 DEF TopInv, Moves
  <2>6. Sorted => Sorted'
      BY <2>1, BeforeKept DEF Sorted
  <2> QED BY <2>1, <2>2, <2>3, <2>4, <2>5, <2>6 DEF LoopInv
<1> QED BY <1>1, <1>2, <1>3, <1>4 DEF LoopNext

LEMMA LoopSafe == LoopSpec => []LoopInv
<1>1. LoopInit => LoopInv
    BY LoopStarts
<1>2. LoopInv /\ [LoopNext]_loopVars => LoopInv'
    BY LoopSteps
<1> QED BY <1>1, <1>2, PTL DEF LoopSpec

(* The loop of moveUidsToTop_l leaves the list in the order that            *)
(* MoveUidsToTop gives, whatever the list, the set and the first uid: the   *)
(* early break misses no uid of the set.                                    *)
THEOREM LoopComputesOrder == LoopSpec => []LoopMatchesOrder
<1>1. LoopInv => LoopMatchesOrder
    BY SortedLemma DEF LoopInv, LoopMatchesOrder
<1> QED BY <1>1, LoopSafe, PTL

(* The first uid of the list, if it is to be kept and is in the set, is the *)
(* first in the end: the session that runs is not interrupted.              *)
THEOREM TopUidStaysFirst == LoopSpec => []TopUidKept
<1>1. ASSUME LoopInv, done, preserveTopUid, curTopUid \in uids
      PROVE  list[1] = curTopUid
  <2>1. LoopTypeOK /\ Sorted
      BY <1>1 DEF LoopInv
  <2>2. /\ 1 \in DOMAIN initial /\ curTopUid = initial[1]
        /\ DOMAIN list = 1 .. Len(list) /\ Len(list) \in Nat
        /\ DOMAIN initial = 1 .. Len(initial) /\ Len(initial) \in Nat
      BY <2>1 DEF LoopTypeOK, curTopUid
  <2>3. PICK j \in DOMAIN list : list[j] = initial[1]
      BY <2>1, <2>2 DEF Sorted
  <2>4. 1 \in DOMAIN list
      BY <2>2, <2>3
  <2>5. CASE initial[1] = OfflineUid
    <3>1. Len(initial) = 1
        BY <2>1, <2>2, <2>5 DEF LoopTypeOK
    <3>2. PICK q \in DOMAIN initial : list[1] = initial[q]
        BY <2>1, <2>4 DEF Sorted
    <3>3. q = 1
        BY <2>2, <3>1, <3>2
    <3> QED BY <2>2, <3>2, <3>3
  <2>6. CASE initial[1] # OfflineUid
    <3>1. Moves(initial[1]) /\ Kept(initial[1])
        BY <1>1, <2>2, <2>6 DEF Moves, Kept
    <3>2. ASSUME j # 1 PROVE list[1] = initial[1]
      <4>0. 1 < j
          BY <2>2, <2>3, <3>2
      <4>1. Before(list[1], initial[1])
          BY <2>1, <2>3, <2>4, <4>0 DEF Sorted
      <4> QED BY <3>1, <4>1 DEF Before, Kept
    <3> QED BY <2>2, <2>3, <3>2
  <2> QED BY <2>5, <2>6
<1>2. LoopInv => TopUidKept
    BY <1>1 DEF TopUidKept
<1> QED BY <1>2, LoopSafe, PTL
=============================================================================
