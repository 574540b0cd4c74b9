---------------------- MODULE SessionControllerProofs ----------------------
(***************************************************************************)
(* The safety of the session controller, for any number of clients,        *)
(* sessions and uids: ControllerInv is inductive.  What follows from it:   *)
(* the safety properties one by one, the book-keeping of the pacer, and    *)
(* that the controller implements SessionLifecycle.                        *)
(***************************************************************************)
EXTENDS SessionController, UidListProofs

-----------------------------------------------------------------------------
(* Queues.                                                                  *)

Distinct(q) == \A i, j \in 1..Len(q) : q[i] = q[j] => i = j

(* erase(find(k)) takes k out of a queue and leaves the others. *)
LEMMA WithoutLemma ==
    ASSUME NEW q \in Seq(Key), NEW k, Distinct(q)
    PROVE  /\ Without(q, k) \in Seq(Key)
           /\ Distinct(Without(q, k))
           /\ \A j : Holds(Without(q, k), j) <=> Holds(q, j) /\ j # k
<1>1. CASE ~Holds(q, k)
    BY <1>1 DEF Without, Holds
<1>2. CASE Holds(q, k)
  <2> DEFINE at == CHOOSE i \in 1..Len(q) : q[i] = k
             r == Without(q, k)
  <2>1. at \in 1..Len(q) /\ q[at] = k
      BY <1>2 DEF Holds
  <2>2. r = [i \in 1..(Len(q) - 1) |-> IF i < at THEN q[i] ELSE q[i + 1]]
      BY <1>2 DEF Without
  <2> HIDE DEF at, r
  <2>3. Len(q) \in Nat /\ Len(q) - 1 \in Nat
      BY <2>1
  <2>4. r \in Seq(Key) /\ Len(r) = Len(q) - 1
    <3>1. \A i \in 1..(Len(q) - 1) : (IF i < at THEN q[i] ELSE q[i + 1]) \in Key
        BY <2>1, <2>3
    <3> QED BY <2>2, <2>3, <3>1
  <2>5. \A i \in 1..Len(r) : r[i] = IF i < at THEN q[i] ELSE q[i + 1]
      BY <2>2, <2>4
  <2>6. Distinct(r)
      BY <2>1, <2>3, <2>4, <2>5 DEF Distinct
  <2>7. ASSUME NEW j PROVE Holds(r, j) <=> Holds(q, j) /\ j # k
    <3>1. ASSUME Holds(r, j) PROVE Holds(q, j) /\ j # k
        BY <2>1, <2>3, <2>4, <2>5, <3>1 DEF Holds, Distinct
    <3>2. ASSUME Holds(q, j), j # k PROVE Holds(r, j)
      <4>1. PICK i \in 1..Len(q) : q[i] = j
          BY <3>2 DEF Holds
      <4>2. CASE i < at
          BY <2>1, <2>3, <2>4, <2>5, <4>1, <4>2 DEF Holds
      <4>3. CASE i > at
        <5>1. i - 1 \in 1..Len(r) /\ ~(i - 1 < at) /\ (i - 1) + 1 = i
            BY <2>1, <2>3, <2>4, <4>1, <4>3
        <5>2. r[i - 1] = j
            BY <2>5, <4>1, <5>1
        <5> QED BY <5>1, <5>2 DEF Holds
      <4> QED BY <2>1, <3>2, <4>1, <4>2, <4>3
    <3> QED BY <3>1, <3>2
  <2> QED BY <2>4, <2>6, <2>7 DEF r
<1> QED BY <1>1, <1>2

(* push_back adds k to a queue that does not hold it. *)
LEMMA AppendLemma ==
    ASSUME NEW q \in Seq(Key), NEW k \in Key, Distinct(q), ~Holds(q, k)
    PROVE  /\ Append(q, k) \in Seq(Key)
           /\ Append(q, k) # <<>>
           /\ Distinct(Append(q, k))
           /\ \A j : Holds(Append(q, k), j) <=> Holds(q, j) \/ j = k
<1>1. /\ Append(q, k) \in Seq(Key)
      /\ Len(Append(q, k)) = Len(q) + 1
      /\ \A i \in 1..Len(q) : Append(q, k)[i] = q[i]
      /\ Append(q, k)[Len(q) + 1] = k
      /\ Len(q) \in Nat
    OBVIOUS
<1>2. Append(q, k) # <<>>
    BY <1>1
<1>3. Distinct(Append(q, k))
    BY <1>1 DEF Distinct, Holds
<1>4. ASSUME NEW j PROVE Holds(Append(q, k), j) <=> Holds(q, j) \/ j = k
  <2>1. ASSUME Holds(Append(q, k), j) PROVE Holds(q, j) \/ j = k
    <3>1. PICK i \in 1..Len(Append(q, k)) : Append(q, k)[i] = j
        BY <2>1 DEF Holds
    <3>2. i \in 1..Len(q) \/ i = Len(q) + 1
        BY <1>1
    <3> QED BY <1>1, <3>1, <3>2 DEF Holds
  <2>2. ASSUME Holds(q, j) PROVE Holds(Append(q, k), j)
      BY <1>1, <2>2 DEF Holds
  <2>3. Holds(Append(q, k), k)
      BY <1>1 DEF Holds
  <2> QED BY <2>1, <2>2, <2>3
<1> QED BY <1>1, <1>2, <1>3, <1>4

-----------------------------------------------------------------------------
(* removeSession_l and addUidToSession_l keep queues, list and sessions     *)
(* together.                                                                *)

(* map is what is left of the sessions once k no longer names uids. *)
LEMMA RemoveFromQueuesLemma ==
    ASSUME TypeOK, QueuesMatchSessions, OfflineIsLast,
           NEW k \in Sessions, NEW uids \in SUBSET UidsOf(k), NEW topUids,
           RemoveFromQueues(k, uids, topUids),
           NEW map, DOMAIN map \subseteq Key,
           \A j \in DOMAIN map : map[j].allClientUids # {} /\ map[j].allClientUids \subseteq Uid,
           \A j \in Key, u \in Uid :
                j \in DOMAIN map /\ u \in map[j].allClientUids <=>
                    j \in Sessions /\ u \in UidsOf(j) /\ ~(j = k /\ u \in uids)
    PROVE  /\ QueuesMatch(map, sessionQueues', uidSortedList')
           /\ IsUidList(uidSortedList')
           /\ DOMAIN sessionQueues' \subseteq Uid
           /\ sessionQueues' \in [DOMAIN sessionQueues' -> Seq(Key)]
<1> DEFINE emptied == {u \in uids \ {OfflineUid} :
                            Holds(QueueOf(u), k) /\ Without(QueueOf(u), k) = <<>>}
           dom == DOMAIN sessionQueues \ emptied
           new(u) == IF u \in uids THEN Without(sessionQueues[u], k) ELSE sessionQueues[u]
<1>1. /\ DOMAIN sessionQueues \subseteq Uid
      /\ DOMAIN sessionQueues = Elems(uidSortedList)
      /\ uids \subseteq DOMAIN sessionQueues
      /\ k \in Key
      /\ \A u \in DOMAIN sessionQueues : sessionQueues[u] \in Seq(Key) /\ Distinct(sessionQueues[u])
      /\ \A u \in DOMAIN sessionQueues, j \in Key :
            Holds(sessionQueues[u], j) <=> j \in Sessions /\ u \in UidsOf(j)
      /\ \A u \in DOMAIN sessionQueues : u # OfflineUid => sessionQueues[u] # <<>>
    BY DEF TypeOK, QueuesMatchSessions, QueuesMatch, Distinct, Sessions, UidsOf
<1>2. emptied = {u \in uids \ {OfflineUid} : Without(sessionQueues[u], k) = <<>>}
    BY <1>1 DEF QueueOf
<1>3. sessionQueues' = [u \in dom |-> new(u)]
    BY <1>1 DEF RemoveFromQueues, QueueOf
<1>4. DOMAIN sessionQueues' = dom /\ \A u \in dom : sessionQueues'[u] = new(u)
    BY <1>3
<1>5. /\ IsUidList(uidSortedList')
      /\ Elems(uidSortedList') = Elems(uidSortedList) \ emptied
  <2> DEFINE remaining == EraseAll(uidSortedList, emptied)
  <2>1. IsUidList(remaining) /\ Elems(remaining) = Elems(uidSortedList) \ emptied
      BY EraseLemma DEF OfflineIsLast
  <2>2. \/ uidSortedList' = remaining
        \/ uidSortedList' = MoveUidsToTop(remaining, topUids, FALSE)
      BY DEF RemoveFromQueues
  <2> HIDE DEF remaining, emptied
  <2>3. /\ IsUidList(MoveUidsToTop(remaining, topUids, FALSE))
        /\ Elems(MoveUidsToTop(remaining, topUids, FALSE)) = Elems(remaining)
      BY <2>1, MoveLemma
  <2> QED BY <2>1, <2>2, <2>3
<1>6. ASSUME NEW u \in dom
      PROVE  /\ new(u) \in Seq(Key)
             /\ Distinct(new(u))
             /\ \A j \in Key : Holds(new(u), j) <=>
                    j \in DOMAIN map /\ u \in map[j].allClientUids
             /\ u # OfflineUid => new(u) # <<>>
  <2>1. CASE u \in uids
    <3>1. /\ Without(sessionQueues[u], k) \in Seq(Key)
          /\ Distinct(Without(sessionQueues[u], k))
          /\ \A j : Holds(Without(sessionQueues[u], k), j) <=> Holds(sessionQueues[u], j) /\ j # k
        BY <1>1, WithoutLemma
    <3>2. u # OfflineUid => Without(sessionQueues[u], k) # <<>>
        BY <1>2, <2>1
    <3>3. ASSUME NEW j \in Key
          PROVE  Holds(new(u), j) <=> j \in DOMAIN map /\ u \in map[j].allClientUids
        BY <1>1, <2>1, <3>1
    <3> QED BY <2>1, <3>1, <3>2, <3>3
  <2>2. CASE u \notin uids
      BY <1>1, <2>2
  <2> QED BY <2>1, <2>2
<1>7. \A j \in DOMAIN map : map[j].allClientUids \subseteq dom
  <2> SUFFICES ASSUME NEW j \in DOMAIN map, NEW u \in map[j].allClientUids PROVE u \in dom
      OBVIOUS
  <2>1. u \in Uid /\ j \in Key /\ j \in Sessions /\ u \in UidsOf(j) /\ ~(j = k /\ u \in uids)
      OBVIOUS
  <2>2. u \in DOMAIN sessionQueues
      BY <2>1 DEF QueuesMatchSessions, QueuesMatch, Sessions, UidsOf
  <2>3. CASE u \in uids
    <3>1. Holds(sessionQueues[u], j) /\ j # k
        BY <1>1, <2>1, <2>2, <2>3
    <3>2. Holds(Without(sessionQueues[u], k), j)
        BY <1>1, <2>2, <3>1, WithoutLemma
    <3>3. Without(sessionQueues[u], k) # <<>>
        BY <3>2 DEF Holds
    <3> QED BY <1>2, <2>2, <3>3
  <2> QED BY <2>2, <2>3
<1> HIDE DEF dom, new, emptied
<1>8. \A u \in DOMAIN sessionQueues' :
        /\ sessionQueues'[u] \in Seq(Key)
        /\ Distinct(sessionQueues'[u])
        /\ \A j \in Key : Holds(sessionQueues'[u], j) <=>
               j \in DOMAIN map /\ u \in map[j].allClientUids
        /\ u # OfflineUid => sessionQueues'[u] # <<>>
    BY <1>4, <1>6
<1>9. DOMAIN sessionQueues' = Elems(uidSortedList')
    BY <1>1, <1>4, <1>5 DEF dom
<1>10. QueuesMatch(map, sessionQueues', uidSortedList')
    BY <1>4, <1>7, <1>8, <1>9 DEF QueuesMatch, Distinct
<1>11. DOMAIN sessionQueues' \subseteq Uid
    BY <1>1, <1>4 DEF dom
<1>12. sessionQueues' \in [DOMAIN sessionQueues' -> Seq(Key)]
    BY <1>3, <1>4, <1>8
<1> QED BY <1>5, <1>10, <1>11, <1>12

(* map is what the sessions are once k names uid too. *)
LEMMA AddUidLemma ==
    ASSUME TypeOK, QueuesMatchSessions, OfflineIsLast,
           NEW k \in Key, NEW uid \in Uid, NEW onTop \in BOOLEAN,
           ~(k \in Sessions /\ uid \in UidsOf(k)),
           AddUidToSession(uid, k, onTop),
           NEW map, DOMAIN map \subseteq Key,
           \A j \in DOMAIN map : map[j].allClientUids # {} /\ map[j].allClientUids \subseteq Uid,
           \A j \in Key, u \in Uid :
                j \in DOMAIN map /\ u \in map[j].allClientUids <=>
                    (j \in Sessions /\ u \in UidsOf(j)) \/ (j = k /\ u = uid)
    PROVE  /\ QueuesMatch(map, sessionQueues', uidSortedList')
           /\ IsUidList(uidSortedList')
           /\ DOMAIN sessionQueues' \subseteq Uid
           /\ sessionQueues' \in [DOMAIN sessionQueues' -> Seq(Key)]
<1> DEFINE dom == DOMAIN sessionQueues \cup {uid}
           new(u) == IF u = uid THEN Append(QueueOf(u), k) ELSE sessionQueues[u]
<1>1. /\ DOMAIN sessionQueues \subseteq Uid
      /\ DOMAIN sessionQueues = Elems(uidSortedList)
      /\ \A u \in DOMAIN sessionQueues : sessionQueues[u] \in Seq(Key) /\ Distinct(sessionQueues[u])
      /\ \A u \in DOMAIN sessionQueues, j \in Key :
            Holds(sessionQueues[u], j) <=> j \in Sessions /\ u \in UidsOf(j)
      /\ \A u \in DOMAIN sessionQueues : u # OfflineUid => sessionQueues[u] # <<>>
      /\ \A j \in Sessions : UidsOf(j) \subseteq DOMAIN sessionQueues
    BY DEF TypeOK, QueuesMatchSessions, QueuesMatch, Distinct, Sessions, UidsOf
<1>2. sessionQueues' = [u \in dom |-> new(u)]
    BY DEF AddUidToSession
<1>3. DOMAIN sessionQueues' = dom /\ \A u \in dom : sessionQueues'[u] = new(u)
    BY <1>2
<1>4. /\ IsUidList(uidSortedList')
      /\ Elems(uidSortedList') = dom
  <2>1. uidSortedList' = ListWithUid(uid, onTop)
      BY DEF AddUidToSession
  <2>2. CASE uid = OfflineUid
    <3>1. uidSortedList' = uidSortedList /\ IsUidList(uidSortedList)
        BY <2>1, <2>2 DEF ListWithUid, OfflineIsLast
    <3>2. OfflineUid \in Elems(uidSortedList)
        BY <3>1 DEF IsUidList
    <3> QED BY <1>1, <2>2, <3>1, <3>2
  <2>3. CASE uid # OfflineUid /\ uid \notin DOMAIN sessionQueues
    <3>1. CASE onTop
        BY <1>1, <2>1, <2>3, <3>1, PushFrontLemma DEF ListWithUid, OfflineIsLast
    <3>2. CASE ~onTop
        BY <1>1, <2>1, <2>3, <3>2, InsertLemma DEF ListWithUid, OfflineIsLast
    <3> QED BY <3>1, <3>2
  <2>4. CASE uid # OfflineUid /\ uid \in DOMAIN sessionQueues
    <3>1. CASE onTop
      <4> DEFINE rest == EraseAll(uidSortedList, {uid})
      <4>1. IsUidList(rest) /\ Elems(rest) = Elems(uidSortedList) \ {uid}
          BY <2>4, EraseLemma DEF OfflineIsLast
      <4>2. uidSortedList' = PushFront(rest, uid)
          BY <2>1, <2>4, <3>1 DEF ListWithUid
      <4> HIDE DEF rest
      <4> QED BY <1>1, <2>4, <4>1, <4>2, PushFrontLemma
    <3>2. CASE ~onTop
        BY <1>1, <2>1, <2>4, <3>2 DEF ListWithUid, OfflineIsLast
    <3> QED BY <3>1, <3>2
  <2> QED BY <2>2, <2>3, <2>4
<1>5. /\ QueueOf(uid) \in Seq(Key)
      /\ Distinct(QueueOf(uid))
      /\ \A j \in Key : Holds(QueueOf(uid), j) <=> j \in Sessions /\ uid \in UidsOf(j)
  <2>1. CASE uid \in DOMAIN sessionQueues
      BY <1>1, <2>1 DEF QueueOf
  <2>2. CASE uid \notin DOMAIN sessionQueues
    <3>1. QueueOf(uid) = <<>>
        BY <2>2 DEF QueueOf
    <3>2. Distinct(<<>>) /\ \A j \in Key : ~Holds(<<>>, j)
        BY DEF Distinct, Holds
    <3> QED BY <1>1, <2>2, <3>1, <3>2
  <2> QED BY <2>1, <2>2
<1>6. ASSUME NEW u \in dom
      PROVE  /\ new(u) \in Seq(Key)
             /\ Distinct(new(u))
             /\ \A j \in Key : Holds(new(u), j) <=>
                    j \in DOMAIN map /\ u \in map[j].allClientUids
             /\ u # OfflineUid => new(u) # <<>>
  <2>1. CASE u = uid
    <3>1. ~Holds(QueueOf(uid), k)
        BY <1>5
    <3>2. /\ new(uid) \in Seq(Key) /\ new(uid) # <<>> /\ Distinct(new(uid))
          /\ \A j : Holds(new(uid), j) <=> Holds(QueueOf(uid), j) \/ j = k
        BY <1>5, <3>1, AppendLemma
    <3> HIDE DEF new
    <3> QED BY <1>5, <2>1, <3>2
  <2>2. CASE u # uid
      BY <1>1, <2>2
  <2> QED BY <2>1, <2>2
<1>7. \A j \in DOMAIN map : map[j].allClientUids \subseteq dom
  <2> SUFFICES ASSUME NEW j \in DOMAIN map, NEW u \in map[j].allClientUids PROVE u \in dom
      OBVIOUS
  <2>1. u \in Uid /\ j \in Key
      OBVIOUS
  <2> QED BY <1>1, <2>1
<1> HIDE DEF dom, new
<1>8. \A u \in DOMAIN sessionQueues' :
        /\ sessionQueues'[u] \in Seq(Key)
        /\ Distinct(sessionQueues'[u])
        /\ \A j \in Key : Holds(sessionQueues'[u], j) <=>
               j \in DOMAIN map /\ u \in map[j].allClientUids
        /\ u # OfflineUid => sessionQueues'[u] # <<>>
    BY <1>3, <1>6
<1>9. QueuesMatch(map, sessionQueues', uidSortedList')
    BY <1>3, <1>4, <1>7, <1>8 DEF QueuesMatch, Distinct
<1>10. DOMAIN sessionQueues' \subseteq Uid
    BY <1>1, <1>3 DEF dom
<1>11. sessionQueues' \in [DOMAIN sessionQueues' -> Seq(Key)]
    BY <1>2, <1>3, <1>8
<1> QED BY <1>4, <1>9, <1>10, <1>11

-----------------------------------------------------------------------------
(* The pacer's operations return history entries.                           *)
LEMMA PacerLemma ==
    ASSUME NEW e \in HistoryEntry, NEW reached \in BOOLEAN, NEW late \in BOOLEAN,
           NEW uid, NEW callingUid
    PROVE  /\ OnSessionStarted(e, uid, callingUid, late) \in HistoryEntry
           /\ OnSessionCompleted(e, reached) \in HistoryEntry
           /\ OnSessionCancelled(e) \in HistoryEntry
<1>1. BurstCountQuota \in Nat
    BY QuotaAssumption
<1>2. OnSessionStarted(e, uid, callingUid, late) \in HistoryEntry
  <2>1. [e EXCEPT !.sessionActive = TRUE] \in HistoryEntry
      BY DEF HistoryEntry
  <2>2. [known |-> TRUE, sessionActive |-> TRUE, burstCount |-> 0, spent |-> FALSE] \in HistoryEntry
      BY <1>1 DEF HistoryEntry
  <2> QED BY <2>1, <2>2 DEF OnSessionStarted
<1>3. OnSessionCompleted(e, reached) \in HistoryEntry
    BY <1>1 DEF OnSessionCompleted, HistoryEntry
<1>4. OnSessionCancelled(e) \in HistoryEntry
    BY DEF OnSessionCancelled, HistoryEntry
<1> QED BY <1>2, <1>3, <1>4

-----------------------------------------------------------------------------
(* mSessionMap and the watchdog as a handler finds them, or as they are     *)
(* once the current session is paused.                                      *)
Consistent(map, w) ==
    /\ map \in [Sessions -> Session]
    /\ \A j \in Sessions :
        /\ map[j].allClientUids = UidsOf(j)
        /\ map[j].state = "RUNNING" => StateOf(j) = "RUNNING"
        /\ map[j].state = "NOT_STARTED" <=> StateOf(j) = "NOT_STARTED"
        /\ map[j].state = "RUNNING" => w = j \/ timedOut = j
    /\ w # NoSession => w \in Sessions /\ map[w].state = "RUNNING"

LEMMA AsFoundLemma ==
    ASSUME ControllerInv
    PROVE  Consistent(sessionMap, watched)
BY DEF ControllerInv, TypeOK, Consistent, WatchdogCoversRunner, WatchedIsRunning, IsRunning,
       StateOf, UidsOf, Sessions

LEMMA AfterPauseLemma ==
    ASSUME ControllerInv
    PROVE  /\ Consistent(PausedMap, WatchdogAfterPause)
           /\ WatchdogAfterPause = NoSession
           /\ \A j \in Sessions : PausedMap[j].state # "RUNNING"
<1>1. \A j \in Sessions : StateOf(j) = "RUNNING" => j = currentSession
    BY DEF ControllerInv, OneRunner
<1>2. watched # NoSession => IsRunning(watched)
    BY DEF ControllerInv, WatchedIsRunning
<1>3. WatchdogAfterPause = NoSession
    BY <1>1, <1>2 DEF WatchdogAfterPause, IsRunning
<1>4. ASSUME NEW j \in Sessions
      PROVE  /\ PausedMap[j] \in Session
             /\ PausedMap[j].allClientUids = UidsOf(j)
             /\ PausedMap[j].state # "RUNNING"
             /\ PausedMap[j].state = "NOT_STARTED" <=> StateOf(j) = "NOT_STARTED"
  <2>1. sessionMap[j] \in Session
      BY DEF ControllerInv, TypeOK
  <2>2. CASE j = currentSession /\ IsRunning(j)
    <3>1. PausedMap[j] = [sessionMap[j] EXCEPT !.state = "PAUSED"]
        BY <2>2 DEF PausedMap
    <3> QED BY <2>1, <2>2, <3>1 DEF Session, SessionState, UidsOf, IsRunning, StateOf
  <2>3. CASE ~(j = currentSession /\ IsRunning(j))
    <3>1. PausedMap[j] = sessionMap[j]
        BY <2>3 DEF PausedMap
    <3> QED BY <1>1, <2>1, <2>3, <3>1 DEF UidsOf, IsRunning, StateOf
  <2> QED BY <2>2, <2>3
<1>5. PausedMap \in [Sessions -> Session]
    BY <1>4 DEF PausedMap
<1> QED BY <1>3, <1>4, <1>5 DEF Consistent

(* What a removal of k leaves behind. *)
LEMMA RemoveSessionLemma ==
    ASSUME ControllerInv, NEW k \in Sessions, NEW map, NEW w, NEW topUids, NEW reached,
           Consistent(map, w),
           RemoveSession(k, map, w, topUids, reached),
           timedOut' = timedOut \/ timedOut = k
    PROVE  /\ Sessions' = Sessions \ {k}
           /\ \A j \in Sessions' : UidsOf(j)' = UidsOf(j)
           /\ Sessions' \subseteq Key
           /\ sessionMap' \in [Sessions' -> Session]
           /\ DOMAIN sessionQueues' \subseteq Uid
           /\ sessionQueues' \in [DOMAIN sessionQueues' -> Seq(Key)]
           /\ currentSession' \in Key \cup {NoSession}
           /\ watched' \in Key \cup {NoSession}
           /\ uidHistory' \in [Uid -> HistoryEntry]
           /\ QueuesMatchSessions'
           /\ OfflineIsLast'
           /\ OneRunner'
           /\ CurrentIsLive'
           /\ WatchdogCoversRunner'
           /\ WatchedIsRunning'
<1>0. TypeOK /\ QueuesMatchSessions /\ OfflineIsLast
    BY DEF ControllerInv
<1>1. sessionMap' = [j \in Sessions \ {k} |-> map[j]]
    BY DEF RemoveSession
<1>2. Sessions' = Sessions \ {k} /\ \A j \in Sessions' : sessionMap'[j] = map[j]
    BY <1>1 DEF Sessions
<1>3. \A j \in Sessions' : UidsOf(j)' = UidsOf(j)
    BY <1>2 DEF Consistent, UidsOf
<1>4. Sessions' \subseteq Key /\ sessionMap' \in [Sessions' -> Session]
    BY <1>0, <1>1, <1>2 DEF Consistent, TypeOK
<1>5. /\ QueuesMatch(sessionMap', sessionQueues', uidSortedList')
      /\ IsUidList(uidSortedList')
      /\ DOMAIN sessionQueues' \subseteq Uid
      /\ sessionQueues' \in [DOMAIN sessionQueues' -> Seq(Key)]
  <2>1. RemoveFromQueues(k, UidsOf(k), topUids)
      BY DEF RemoveSession
  <2>2. \A j \in DOMAIN sessionMap' : /\ sessionMap'[j].allClientUids # {}
                                      /\ sessionMap'[j].allClientUids \subseteq Uid
      BY <1>0, <1>2, <1>3 DEF Sessions, UidsOf, TypeOK, QueuesMatchSessions, QueuesMatch
  <2>3. \A j \in Key, u \in Uid :
            j \in DOMAIN sessionMap' /\ u \in sessionMap'[j].allClientUids <=>
                j \in Sessions /\ u \in UidsOf(j) /\ ~(j = k /\ u \in UidsOf(k))
      BY <1>2, <1>3 DEF Sessions, UidsOf
  <2>4. DOMAIN sessionMap' \subseteq Key
      BY <1>4 DEF Sessions
  <2> QED BY <1>0, <2>1, <2>2, <2>3, <2>4, RemoveFromQueuesLemma
<1>6. currentSession' = CurrentAfterRemoval(k) /\ watched' = LeaveState(w, k)
    BY DEF RemoveSession
<1>7. currentSession' \in Key \cup {NoSession} /\ watched' \in Key \cup {NoSession}
    BY <1>0, <1>6 DEF TypeOK, CurrentAfterRemoval, LeaveState, Consistent
<1>8. uidHistory' \in [Uid -> HistoryEntry]
  <2>1. ASSUME NEW u \in Uid
        PROVE  (IF u \in UidsOf(k) THEN OnSessionCompleted(uidHistory[u], u \in reached)
                                   ELSE uidHistory[u]) \in HistoryEntry
    <3>1. uidHistory[u] \in HistoryEntry /\ (u \in reached) \in BOOLEAN
        BY <1>0 DEF TypeOK
    <3> QED BY <3>1, PacerLemma
  <2> QED BY <2>1 DEF RemoveSession
<1>9. \A j \in Sessions : StateOf(j) = "RUNNING" => j = currentSession
    BY DEF ControllerInv, OneRunner
<1>10. OneRunner'
    BY <1>2, <1>6, <1>9 DEF OneRunner, Consistent, CurrentAfterRemoval, StateOf
<1>11. CurrentIsLive'
    BY <1>2, <1>6 DEF ControllerInv, CurrentIsLive, Heeded, Consistent, CurrentAfterRemoval, StateOf
<1>12. WatchdogCoversRunner'
  <2> SUFFICES ASSUME NEW j \in Sessions', StateOf(j)' = "RUNNING"
               PROVE  watched' = j \/ timedOut' = j
      BY DEF WatchdogCoversRunner
  <2>1. j \in Sessions /\ j # k /\ map[j].state = "RUNNING" /\ StateOf(j) = "RUNNING"
      BY <1>2 DEF Consistent, StateOf
  <2>2. StateOf(k) # "RUNNING"
      BY <1>9, <2>1
  <2> QED BY <1>6, <2>1, <2>2 DEF Consistent, LeaveState
<1>13. WatchedIsRunning'
    BY <1>2, <1>6 DEF WatchedIsRunning, IsRunning, Consistent, LeaveState, StateOf
<1> QED BY <1>2, <1>3, <1>4, <1>5, <1>7, <1>8, <1>10, <1>11, <1>12, <1>13
        DEF QueuesMatchSessions, OfflineIsLast

-----------------------------------------------------------------------------
(* The steps of the holder of mLock.                                        *)

(* The top session, if there is one, has a queue of the first uid, or runs  *)
(* for it.                                                                  *)
LEMMA TopSessionLemma ==
    ASSUME ControllerInv, NEW top, IsTopSession(top)
    PROVE  /\ top = NoSession <=> Sessions = {} \/ GloballyPaused
           /\ top # NoSession => /\ top \in Sessions
                                 /\ \E u \in Uid : IsFront(uidSortedList, u) /\ u \in UidsOf(top)
<1>0. NoSession \notin Key /\ Sessions \subseteq Key
    BY NoSessionAssumption DEF ControllerInv, TypeOK
<1>1. CASE Sessions = {} \/ GloballyPaused
    BY <1>1 DEF IsTopSession
<1>2. CASE ~(Sessions = {} \/ GloballyPaused)
  <2>1. PICK u \in Uid :
            /\ IsFront(uidSortedList, u)
            /\ top = IF IsRunning(currentSession) /\ u \in UidsOf(currentSession)
                     THEN currentSession ELSE sessionQueues[u][1]
      BY <1>2 DEF IsTopSession
  <2>2. CASE IsRunning(currentSession) /\ u \in UidsOf(currentSession)
      BY <1>0, <1>2, <2>1, <2>2 DEF IsRunning
  <2>3. CASE ~(IsRunning(currentSession) /\ u \in UidsOf(currentSession))
    <3>1. u \in DOMAIN sessionQueues /\ sessionQueues[u] \in Seq(Key)
        BY <2>1 DEF ControllerInv, TypeOK, QueuesMatchSessions, QueuesMatch, IsFront
    <3>2. sessionQueues[u] # <<>>
      <4>1. CASE u # OfflineUid
          BY <3>1, <4>1 DEF ControllerInv, QueuesMatchSessions, QueuesMatch
      <4>2. CASE u = OfflineUid
        <5>1. PICK j \in Sessions : TRUE
            BY <1>2
        <5>2. PICK v \in UidsOf(j) : v \in DOMAIN sessionQueues
            BY DEF ControllerInv, QueuesMatchSessions, QueuesMatch, Sessions, UidsOf
        <5>3. v = OfflineUid
          <6>1. v \in Elems(uidSortedList) /\ IsUidList(uidSortedList)
              BY <5>2 DEF ControllerInv, QueuesMatchSessions, QueuesMatch, OfflineIsLast
          <6>2. <<OfflineUid, v>> \in uidSortedList /\ <<v, OfflineUid>> \in uidSortedList
              BY <2>1, <4>2, <6>1 DEF IsFront, IsUidList
          <6> QED BY <6>1, <6>2 DEF IsUidList
        <5>4. Holds(sessionQueues[u], j)
            BY <1>0, <3>1, <4>2, <5>2, <5>3
               DEF ControllerInv, QueuesMatchSessions, QueuesMatch, Sessions, UidsOf
        <5> QED BY <5>4 DEF Holds
      <4> QED BY <4>1, <4>2
    <3>3. 1 \in 1..Len(sessionQueues[u]) /\ sessionQueues[u][1] \in Key
        BY <3>1, <3>2
    <3>4. top = sessionQueues[u][1]
        BY <2>1, <2>3
    <3>5. Holds(sessionQueues[u], top)
        BY <3>3, <3>4 DEF Holds
    <3>6. top \in Sessions /\ u \in UidsOf(top)
        BY <3>1, <3>3, <3>4, <3>5
           DEF ControllerInv, QueuesMatchSessions, QueuesMatch, Sessions, UidsOf
    <3> QED BY <1>0, <1>2, <2>1, <3>6
  <2> QED BY <2>2, <2>3
<1> QED BY <1>1, <1>2

(* What the start or resumption of top leaves behind. *)
LEMMA RunTopLemma ==
    ASSUME ControllerInv, NEW top \in Sessions, IsTopSession(top),
           phase = "update",
           sessionMap' = [PausedMap EXCEPT ![top].state = "RUNNING"],
           watched' = WatchdogStart(WatchdogAfterPause, top),
           currentSession' = top,
           Releases,
           uidHistory' \in [Uid -> HistoryEntry],
           transcoderReady' = TRUE,
           UNCHANGED <<sessionQueues, uidSortedList, policyVars, timedOut>>
    PROVE  ControllerInv'
<1>0. TypeOK /\ QueuesMatchSessions /\ OfflineIsLast
    BY DEF ControllerInv
<1>1. /\ Consistent(PausedMap, WatchdogAfterPause)
      /\ WatchdogAfterPause = NoSession
      /\ \A j \in Sessions : PausedMap[j].state # "RUNNING"
    BY AfterPauseLemma
<1>2. /\ Sessions' = Sessions
      /\ sessionMap' \in [Sessions -> Session]
      /\ \A j \in Sessions : /\ UidsOf(j)' = UidsOf(j)
                             /\ StateOf(j)' = "RUNNING" <=> j = top
  <2> DEFINE m == PausedMap
  <2>1. m \in [Sessions -> Session]
      BY <1>1 DEF Consistent
  <2> HIDE DEF m
  <2>2. sessionMap' = [m EXCEPT ![top].state = "RUNNING"]
      BY DEF m
  <2>3. m[top] \in Session
      BY <2>1
  <2>4. /\ [m[top] EXCEPT !.state = "RUNNING"] \in Session
        /\ [m[top] EXCEPT !.state = "RUNNING"].state = "RUNNING"
        /\ [m[top] EXCEPT !.state = "RUNNING"].allClientUids = m[top].allClientUids
      BY <2>3 DEF Session, SessionState
  <2>5. /\ sessionMap'[top] = [m[top] EXCEPT !.state = "RUNNING"]
        /\ \A j \in Sessions : j # top => sessionMap'[j] = m[j]
        /\ DOMAIN sessionMap' = Sessions
      BY <2>1, <2>2
  <2>6. sessionMap' \in [Sessions -> Session]
      BY <2>1, <2>2, <2>4
  <2> QED BY <1>1, <2>4, <2>5, <2>6 DEF Sessions, UidsOf, StateOf, Consistent, m
<1>3. watched' = top /\ top \in Key
    BY <1>0, <1>1 DEF WatchdogStart, TypeOK
<1>4. TypeOK'
    BY <1>0, <1>2, <1>3 DEF TypeOK, Releases, policyVars
<1>5. QueuesMatchSessions'
    BY <1>0, <1>2 DEF QueuesMatchSessions, QueuesMatch, Sessions, UidsOf
<1>6. OfflineIsLast'
    BY <1>0 DEF OfflineIsLast
<1>7. OneRunner' /\ WatchdogCoversRunner'
    BY <1>2, <1>3 DEF OneRunner, WatchdogCoversRunner
<1>8. CurrentIsLive' /\ WatchedIsRunning'
    BY <1>2, <1>3 DEF CurrentIsLive, Heeded, WatchedIsRunning, IsRunning
<1>9. PendingAreLive'
    BY <1>2 DEF ControllerInv, PendingAreLive, Releases
<1>10. RightSessionRuns'
  <2>1. ~GloballyPaused'
      BY NoSessionAssumption, <1>3, TopSessionLemma DEF GloballyPaused, policyVars
  <2>2. PICK u \in Uid : IsFront(uidSortedList, u) /\ u \in UidsOf(top)
      BY NoSessionAssumption, <1>3, TopSessionLemma
  <2>3. IsFront(uidSortedList, u)' /\ u \in UidsOf(top)' /\ IsRunning(currentSession)'
      BY <1>2, <2>2 DEF IsRunning
  <2> QED BY <2>1, <2>3 DEF RightSessionRuns
<1> QED BY <1>4, <1>5, <1>6, <1>7, <1>8, <1>9, <1>10 DEF ControllerInv

(* One iteration of updateCurrentSession_l. *)
LEMMA UpdateLemma ==
    ASSUME ControllerInv, UpdateCurrentSession
    PROVE  ControllerInv'
<1>0. TypeOK /\ QueuesMatchSessions /\ OfflineIsLast /\ OneRunner /\ PendingAreLive
    BY DEF ControllerInv
<1>1. PICK top \in Key \cup {NoSession} :
        /\ IsTopSession(top)
        /\ \/ NothingToChange(top) \/ GoIdle(top) \/ StartTop(top) \/ ResumeTop(top) \/ DropTop(top)
    BY DEF UpdateCurrentSession
<1>2. phase = "update" /\ transcoderReady' = TRUE /\ UNCHANGED <<policyVars, timedOut>>
    BY DEF UpdateCurrentSession
<1>3. /\ top = NoSession <=> Sessions = {} \/ GloballyPaused
      /\ top # NoSession => /\ top \in Sessions
                            /\ \E u \in Uid : IsFront(uidSortedList, u) /\ u \in UidsOf(top)
    BY <1>1, TopSessionLemma
<1>4. toRemove = {} /\ toTrim = {}
    BY <1>0, <1>2 DEF PendingAreLive
<1>5. CASE NothingToChange(top)
  <2>1. /\ UNCHANGED <<sessionMap, sessionQueues, uidSortedList, currentSession, uidHistory, watched>>
        /\ phase' = "idle" /\ UNCHANGED <<toRemove, toTrim, keepUids>>
        /\ top = currentSession /\ (top # NoSession => IsRunning(top))
      BY <1>5 DEF NothingToChange, Releases, schedVars
  <2>2. TypeOK'
      BY <1>0, <1>2, <2>1 DEF TypeOK, policyVars, Sessions
  <2>3. QueuesMatchSessions' /\ OfflineIsLast' /\ OneRunner' /\ CurrentIsLive'
      BY <2>1 DEF ControllerInv, QueuesMatchSessions, OfflineIsLast, OneRunner, CurrentIsLive,
                  Heeded, Sessions, StateOf
  <2>4. WatchdogCoversRunner' /\ WatchedIsRunning' /\ PendingAreLive'
      BY <1>2, <1>4, <2>1 DEF ControllerInv, WatchdogCoversRunner, WatchedIsRunning,
                              IsRunning, PendingAreLive, Sessions, StateOf
  <2>5. RightSessionRuns'
    <3>1. CASE GloballyPaused
      <4>1. currentSession = NoSession
          BY <1>3, <2>1, <3>1
      <4>2. \A k \in Sessions : StateOf(k) # "RUNNING"
          BY <1>0, <4>1, NoSessionAssumption DEF OneRunner, TypeOK
      <4> QED BY <1>2, <2>1, <3>1, <4>2
              DEF RightSessionRuns, GloballyPaused, policyVars, Sessions, StateOf
    <3>2. CASE ~GloballyPaused
        BY <1>2, <1>3, <2>1, <3>2
           DEF RightSessionRuns, GloballyPaused, policyVars, Sessions, UidsOf, IsRunning, StateOf
    <3> QED BY <3>1, <3>2
  <2> QED BY <2>2, <2>3, <2>4, <2>5 DEF ControllerInv
<1>6. CASE GoIdle(top)
  <2>1. /\ Consistent(PausedMap, NoSession)
        /\ WatchdogAfterPause = NoSession
        /\ \A j \in Sessions : PausedMap[j].state # "RUNNING"
      BY AfterPauseLemma
  <2>2. /\ sessionMap' = PausedMap /\ watched' = NoSession /\ currentSession' = NoSession
        /\ phase' = "idle" /\ UNCHANGED <<toRemove, toTrim, keepUids>>
        /\ UNCHANGED <<sessionQueues, uidSortedList, uidHistory>>
        /\ top = NoSession
      BY <1>6, <2>1 DEF GoIdle, Releases
  <2>3. /\ Sessions' = Sessions
        /\ sessionMap' \in [Sessions -> Session]
        /\ \A j \in Sessions : UidsOf(j)' = UidsOf(j) /\ StateOf(j)' # "RUNNING"
      BY <2>1, <2>2 DEF Sessions, UidsOf, StateOf, Consistent
  <2>4. TypeOK'
      BY <1>0, <1>2, <2>2, <2>3 DEF TypeOK, policyVars
  <2>5. QueuesMatchSessions' /\ OfflineIsLast'
      BY <1>0, <2>2, <2>3 DEF QueuesMatchSessions, QueuesMatch, OfflineIsLast, Sessions, UidsOf
  <2>6. OneRunner' /\ CurrentIsLive' /\ WatchdogCoversRunner' /\ WatchedIsRunning'
      BY <2>2, <2>3 DEF OneRunner, CurrentIsLive, WatchdogCoversRunner, WatchedIsRunning
  <2>7. PendingAreLive'
      BY <1>4, <2>2 DEF PendingAreLive
  <2>8. RightSessionRuns'
      BY <1>2, <1>3, <2>2, <2>3 DEF RightSessionRuns, GloballyPaused, policyVars
  <2> QED BY <2>4, <2>5, <2>6, <2>7, <2>8 DEF ControllerInv
<1>7. CASE StartTop(top)
  <2>1. PICK late \in SUBSET UidsOf(top) : uidHistory' = HistoryAfterStart(top, late)
      BY <1>7 DEF StartTop
  <2>2. ASSUME NEW u \in Uid
        PROVE  (IF u \in UidsOf(top)
                THEN OnSessionStarted(uidHistory[u], u, sessionMap[top].callingUid, u \in late)
                ELSE uidHistory[u]) \in HistoryEntry
    <3>1. uidHistory[u] \in HistoryEntry /\ (u \in late) \in BOOLEAN
        BY <1>0 DEF TypeOK
    <3> QED BY <3>1, PacerLemma
  <2>3. uidHistory' \in [Uid -> HistoryEntry]
      BY <2>1, <2>2 DEF HistoryAfterStart
  <2>4. top \in Sessions /\ UNCHANGED <<sessionQueues, uidSortedList>> /\ Releases
      BY <1>7 DEF StartTop
  <2> QED BY <1>1, <1>2, <1>7, <2>3, <2>4, RunTopLemma DEF StartTop
<1>8. CASE ResumeTop(top)
  <2>1. uidHistory' \in [Uid -> HistoryEntry]
      BY <1>0, <1>8 DEF ResumeTop, TypeOK
  <2>2. top \in Sessions /\ UNCHANGED <<sessionQueues, uidSortedList>> /\ Releases
      BY <1>8 DEF ResumeTop
  <2> QED BY <1>1, <1>2, <1>8, <2>1, <2>2, RunTopLemma DEF ResumeTop
<1>9. CASE DropTop(top)
  <2>1. PICK topUids \in SUBSET RealTimeUid :
            RemoveSession(top, PausedMap, WatchdogAfterPause, topUids, {})
      BY <1>9 DEF DropTop
  <2>2. top \in Sessions /\ UNCHANGED lockVars
      BY <1>9 DEF DropTop
  <2>3. Consistent(PausedMap, WatchdogAfterPause)
      BY AfterPauseLemma
  <2>4. /\ Sessions' \subseteq Key
        /\ sessionMap' \in [Sessions' -> Session]
        /\ DOMAIN sessionQueues' \subseteq Uid
        /\ sessionQueues' \in [DOMAIN sessionQueues' -> Seq(Key)]
        /\ currentSession' \in Key \cup {NoSession}
        /\ watched' \in Key \cup {NoSession}
        /\ uidHistory' \in [Uid -> HistoryEntry]
        /\ QueuesMatchSessions' /\ OfflineIsLast' /\ OneRunner' /\ CurrentIsLive'
        /\ WatchdogCoversRunner' /\ WatchedIsRunning'
      BY <1>2, <2>1, <2>2, <2>3, RemoveSessionLemma
  <2>5. uidSortedList' \subseteq Uid \X Uid
      BY <2>4 DEF OfflineIsLast, IsUidList, Elems
  <2>6. TypeOK'
      BY <1>0, <1>2, <2>2, <2>4, <2>5 DEF TypeOK, policyVars, lockVars
  <2>7. PendingAreLive' /\ RightSessionRuns'
      BY <1>2, <1>4, <2>2 DEF PendingAreLive, RightSessionRuns, lockVars
  <2> QED BY <2>4, <2>6, <2>7 DEF ControllerInv
<1> QED BY <1>1, <1>5, <1>6, <1>7, <1>8, <1>9

(* An iteration of the first loop of cancel or onUidGone. *)
LEMMA RemoveNextLemma ==
    ASSUME ControllerInv, RemoveNext
    PROVE  ControllerInv'
<1>0. TypeOK /\ PendingAreLive
    BY DEF ControllerInv
<1>1. PICK k \in toRemove, topUids \in SUBSET RealTimeUid :
        /\ \E reached \in SUBSET UidsOf(k) : RemoveSession(k, sessionMap, watched, topUids, reached)
        /\ toRemove' = toRemove \ {k}
    BY DEF RemoveNext
<1>2. PICK reached \in SUBSET UidsOf(k) : RemoveSession(k, sessionMap, watched, topUids, reached)
    BY <1>1
<1>3. phase = "remove" /\ UNCHANGED <<policyVars, transcoderReady, timedOut, phase, toTrim, keepUids>>
    BY DEF RemoveNext
<1>4. k \in Sessions /\ k \notin toTrim
    BY <1>0 DEF PendingAreLive
<1>5. Consistent(sessionMap, watched)
    BY AsFoundLemma
<1>6. /\ Sessions' = Sessions \ {k}
      /\ \A j \in Sessions' : UidsOf(j)' = UidsOf(j)
      /\ Sessions' \subseteq Key
      /\ sessionMap' \in [Sessions' -> Session]
      /\ DOMAIN sessionQueues' \subseteq Uid
      /\ sessionQueues' \in [DOMAIN sessionQueues' -> Seq(Key)]
      /\ currentSession' \in Key \cup {NoSession}
      /\ watched' \in Key \cup {NoSession}
      /\ uidHistory' \in [Uid -> HistoryEntry]
      /\ QueuesMatchSessions' /\ OfflineIsLast' /\ OneRunner' /\ CurrentIsLive'
      /\ WatchdogCoversRunner' /\ WatchedIsRunning'
    BY <1>2, <1>3, <1>4, <1>5, RemoveSessionLemma
<1>7. uidSortedList' \subseteq Uid \X Uid
    BY <1>6 DEF OfflineIsLast, IsUidList, Elems
<1>8. TypeOK'
    BY <1>0, <1>1, <1>3, <1>6, <1>7 DEF TypeOK, policyVars
<1>9. PendingAreLive'
    BY <1>0, <1>1, <1>3, <1>4, <1>6 DEF PendingAreLive
<1>10. RightSessionRuns'
    BY <1>3 DEF RightSessionRuns
<1> QED BY <1>6, <1>8, <1>9, <1>10 DEF ControllerInv

(* An iteration of the second one. *)
LEMMA TrimNextLemma ==
    ASSUME ControllerInv, TrimNext
    PROVE  ControllerInv'
<1>0. TypeOK /\ PendingAreLive /\ QueuesMatchSessions /\ OfflineIsLast
    BY DEF ControllerInv
<1>1. PICK k \in toTrim, topUids \in SUBSET RealTimeUid :
        TrimSession(k, keepUids, topUids) /\ toTrim' = toTrim \ {k}
    BY DEF TrimNext
<1>2. phase = "remove" /\ UNCHANGED <<policyVars, transcoderReady, timedOut, phase, toRemove, keepUids>>
    BY DEF TrimNext
<1>3. k \in Sessions /\ k \in Key /\ UidsOf(k) \cap keepUids # {}
    BY <1>0 DEF PendingAreLive, TypeOK
<1>4. /\ sessionMap' = [sessionMap EXCEPT ![k].allClientUids = @ \cap keepUids]
      /\ RemoveFromQueues(k, UidsOf(k) \ keepUids, topUids)
      /\ UNCHANGED <<currentSession, watched>>
    BY <1>1 DEF TrimSession
<1>5. /\ Sessions' = Sessions
      /\ sessionMap' \in [Sessions -> Session]
      /\ \A j \in Sessions : StateOf(j)' = StateOf(j)
      /\ \A j \in Sessions : UidsOf(j)' = IF j = k THEN UidsOf(j) \cap keepUids ELSE UidsOf(j)
  <2>1. sessionMap \in [Sessions -> Session] /\ sessionMap[k] \in Session
      BY <1>0, <1>3 DEF TypeOK
  <2> DEFINE s == [sessionMap[k] EXCEPT !.allClientUids = @ \cap keepUids]
  <2>2. s \in Session /\ s.state = StateOf(k) /\ s.allClientUids = UidsOf(k) \cap keepUids
      BY <2>1 DEF Session, StateOf, UidsOf
  <2>3. sessionMap' = [sessionMap EXCEPT ![k] = s]
      BY <1>4
  <2> HIDE DEF s
  <2> QED BY <1>3, <2>1, <2>2, <2>3 DEF Sessions, StateOf, UidsOf
<1>6. /\ QueuesMatch(sessionMap', sessionQueues', uidSortedList')
      /\ IsUidList(uidSortedList')
      /\ DOMAIN sessionQueues' \subseteq Uid
      /\ sessionQueues' \in [DOMAIN sessionQueues' -> Seq(Key)]
  <2>1. \A j \in Sessions : UidsOf(j) # {} /\ UidsOf(j) \subseteq Uid
      BY <1>0 DEF QueuesMatchSessions, QueuesMatch, TypeOK, Sessions, UidsOf
  <2>2. \A j \in DOMAIN sessionMap' : /\ sessionMap'[j].allClientUids # {}
                                      /\ sessionMap'[j].allClientUids \subseteq Uid
    <3> SUFFICES ASSUME NEW j \in Sessions PROVE UidsOf(j)' # {} /\ UidsOf(j)' \subseteq Uid
        BY <1>5 DEF Sessions, UidsOf
    <3> QED BY <1>3, <1>5, <2>1
  <2>3. \A j \in Key, u \in Uid :
            j \in DOMAIN sessionMap' /\ u \in sessionMap'[j].allClientUids <=>
                j \in Sessions /\ u \in UidsOf(j) /\ ~(j = k /\ u \in UidsOf(k) \ keepUids)
    <3> SUFFICES ASSUME NEW j \in Key, NEW u \in Uid
                 PROVE  j \in Sessions' /\ u \in UidsOf(j)' <=>
                            j \in Sessions /\ u \in UidsOf(j) /\ ~(j = k /\ u \in UidsOf(k) \ keepUids)
        BY DEF Sessions, UidsOf
    <3> QED BY <1>5
  <2>4. DOMAIN sessionMap' \subseteq Key
      BY <1>0, <1>5 DEF Sessions, TypeOK
  <2> DEFINE gone == UidsOf(k) \ keepUids
  <2>5. gone \in SUBSET UidsOf(k) /\ RemoveFromQueues(k, gone, topUids)
      BY <1>4
  <2>6. \A j \in Key, u \in Uid :
            j \in DOMAIN sessionMap' /\ u \in sessionMap'[j].allClientUids <=>
                j \in Sessions /\ u \in UidsOf(j) /\ ~(j = k /\ u \in gone)
      BY <2>3
  <2> HIDE DEF gone
  <2> QED BY <1>0, <1>3, <2>2, <2>4, <2>5, <2>6, RemoveFromQueuesLemma
<1>7. uidHistory' \in [Uid -> HistoryEntry]
  <2>1. ASSUME NEW u \in Uid
        PROVE  (IF u \in UidsOf(k) \ keepUids THEN OnSessionCancelled(uidHistory[u])
                                              ELSE uidHistory[u]) \in HistoryEntry
    <3>1. uidHistory[u] \in HistoryEntry
        BY <1>0 DEF TypeOK
    <3> QED BY <3>1, PacerLemma
  <2> QED BY <1>1, <2>1 DEF TrimSession
<1>8. QueuesMatchSessions' /\ OfflineIsLast'
    BY <1>6 DEF QueuesMatchSessions, OfflineIsLast
<1>9. uidSortedList' \subseteq Uid \X Uid
    BY <1>6 DEF IsUidList, Elems
<1>10. TypeOK'
    BY <1>0, <1>1, <1>2, <1>4, <1>5, <1>6, <1>7, <1>9 DEF TypeOK, policyVars
<1>11. OneRunner' /\ CurrentIsLive' /\ WatchdogCoversRunner' /\ WatchedIsRunning'
    BY <1>2, <1>4, <1>5 DEF ControllerInv, OneRunner, CurrentIsLive, Heeded,
                            WatchdogCoversRunner, WatchedIsRunning, IsRunning
<1>12. PendingAreLive'
    BY <1>0, <1>1, <1>2, <1>5 DEF PendingAreLive
<1>13. RightSessionRuns'
    BY <1>2 DEF RightSessionRuns
<1> QED BY <1>8, <1>10, <1>11, <1>12, <1>13 DEF ControllerInv

-----------------------------------------------------------------------------
(* Steps that leave the sessions, their queues and the list alone.          *)

LEMMA SchedUnchangedLemma ==
    ASSUME ControllerInv, UNCHANGED <<schedVars, uidHistory, watched>>,
           timedOut' = timedOut,
           resourceLost' \in BOOLEAN, thermalThrottling' \in BOOLEAN,
           transcoderReady' \in BOOLEAN,
           phase' \in {"remove", "update"},
           toRemove' \subseteq Key, toTrim' \subseteq Key, keepUids' \subseteq Uid,
           PendingAreLive'
    PROVE  ControllerInv'
<1>0. TypeOK
    BY DEF ControllerInv
<1>1. UNCHANGED <<sessionMap, sessionQueues, uidSortedList, currentSession, uidHistory, watched>>
    BY DEF schedVars
<1>2. TypeOK'
    BY <1>0, <1>1 DEF TypeOK, Sessions
<1>3. QueuesMatchSessions' /\ OfflineIsLast' /\ OneRunner' /\ CurrentIsLive'
    BY <1>1 DEF ControllerInv, QueuesMatchSessions, OfflineIsLast, OneRunner, CurrentIsLive,
                Heeded, Sessions, StateOf
<1>4. WatchdogCoversRunner' /\ WatchedIsRunning'
    BY <1>1 DEF ControllerInv, WatchdogCoversRunner, WatchedIsRunning, IsRunning, Sessions, StateOf
<1>5. RightSessionRuns'
    BY DEF RightSessionRuns
<1> QED BY <1>2, <1>3, <1>4, <1>5 DEF ControllerInv

LEMMA RemovalDoneLemma ==
    ASSUME ControllerInv, RemovalDone
    PROVE  ControllerInv'
<1>1. /\ UNCHANGED <<schedVars, uidHistory, watched>>
      /\ timedOut' = timedOut
      /\ UNCHANGED <<resourceLost, thermalThrottling, transcoderReady, toRemove, toTrim>>
      /\ phase' = "update" /\ keepUids' = {} /\ toRemove = {} /\ toTrim = {}
    BY DEF RemovalDone, policyVars, watchdogVars
<1>2. PendingAreLive'
    BY <1>1 DEF PendingAreLive
<1>3. resourceLost' \in BOOLEAN /\ thermalThrottling' \in BOOLEAN /\ transcoderReady' \in BOOLEAN
    BY <1>1 DEF ControllerInv, TypeOK
<1> QED BY <1>1, <1>2, <1>3, SchedUnchangedLemma

(* Making the lists of sessions to remove and to trim: cancel, onUidGone. *)
LEMMA ThenRemoveLemma ==
    ASSUME ControllerInv, NEW remove, NEW trim, NEW keep, ThenRemove(remove, trim, keep),
           remove \cup trim \subseteq Sessions, remove \cap trim = {}, keep \subseteq Uid,
           \A k \in trim : UidsOf(k) \cap keep # {}
    PROVE  ControllerInv'
<1>1. /\ UNCHANGED <<schedVars, uidHistory, watched>>
      /\ timedOut' = timedOut
      /\ UNCHANGED <<resourceLost, thermalThrottling, transcoderReady>>
      /\ phase' = "remove" /\ toRemove' = remove /\ toTrim' = trim /\ keepUids' = keep
    BY DEF ThenRemove, policyVars, watchdogVars
<1>2. PendingAreLive'
    BY <1>1 DEF PendingAreLive, Sessions, UidsOf, schedVars
<1>3. /\ resourceLost' \in BOOLEAN /\ thermalThrottling' \in BOOLEAN /\ transcoderReady' \in BOOLEAN
      /\ toRemove' \subseteq Key /\ toTrim' \subseteq Key
    BY <1>1 DEF ControllerInv, TypeOK
<1> QED BY <1>1, <1>2, <1>3, SchedUnchangedLemma

LEMMA CancelLemma ==
    ASSUME ControllerInv,
           \/ \E k \in Key : Cancel(k)
           \/ \E c \in Client : CancelAll(c)
           \/ \E u \in RealTimeUid : OnUidGone(u)
    PROVE  ControllerInv'
<1>0. \A k \in Sessions : UidsOf(k) # {} /\ UidsOf(k) \subseteq Uid
    BY DEF ControllerInv, TypeOK, QueuesMatchSessions, QueuesMatch, Sessions, UidsOf
<1>1. CASE \E k \in Key : Cancel(k)
  <2>1. PICK k \in Key : k \in Sessions /\ ThenRemove({k}, {}, {})
      BY <1>1 DEF Cancel
  <2> QED BY <2>1, ThenRemoveLemma
<1>2. CASE \E c \in Client : CancelAll(c)
  <2>1. PICK c \in Client : CancelAll(c)
      BY <1>2
  <2> DEFINE mine == {k \in Sessions : k[1] = c}
             offline == {k \in mine : OfflineUid \in UidsOf(k)}
  <2>2. ThenRemove(mine \ offline, offline, {OfflineUid})
      BY <2>1 DEF CancelAll
  <2>3. /\ (mine \ offline) \cup offline \subseteq Sessions
        /\ (mine \ offline) \cap offline = {}
        /\ {OfflineUid} \subseteq Uid
        /\ \A k \in offline : UidsOf(k) \cap {OfflineUid} # {}
      BY OfflineAssumption
  <2> HIDE DEF mine, offline
  <2> QED BY <2>2, <2>3, ThenRemoveLemma
<1>3. CASE \E u \in RealTimeUid : OnUidGone(u)
  <2>1. PICK gone \in RealTimeUid : OnUidGone(gone)
      BY <1>3
  <2> DEFINE used == {k \in Sessions : gone \in UidsOf(k)}
             shared == {k \in used : UidsOf(k) # {gone}}
  <2>2. ThenRemove(used \ shared, shared, Uid \ {gone})
      BY <2>1 DEF OnUidGone
  <2>3. /\ (used \ shared) \cup shared \subseteq Sessions
        /\ (used \ shared) \cap shared = {}
        /\ Uid \ {gone} \subseteq Uid
        /\ \A k \in shared : UidsOf(k) \cap (Uid \ {gone}) # {}
      BY <1>0
  <2> HIDE DEF used, shared
  <2> QED BY <2>2, <2>3, ThenRemoveLemma
<1> QED BY <1>1, <1>2, <1>3

-----------------------------------------------------------------------------
(* The other entry points.                                                  *)

LEMMA SubmitLemma ==
    ASSUME ControllerInv, NEW k \in Key, NEW c \in CallingUid, NEW uid \in Uid,
           NEW onTop \in BOOLEAN, Submit(k, c, uid, onTop)
    PROVE  ControllerInv'
<1>0. TypeOK /\ QueuesMatchSessions /\ OfflineIsLast /\ PendingAreLive
    BY DEF ControllerInv
<1> DEFINE s == [state |-> "NOT_STARTED", allClientUids |-> {uid}, callingUid |-> c]
<1>1. /\ k \notin Sessions
      /\ sessionMap' = [j \in Sessions \cup {k} |-> IF j = k THEN s ELSE sessionMap[j]]
      /\ AddUidToSession(uid, k, onTop)
      /\ phase = "idle" /\ phase' = "update"
      /\ UNCHANGED <<toRemove, toTrim, keepUids, currentSession, resourceLost,
                     thermalThrottling, uidHistory, transcoderReady, watched, timedOut>>
    BY DEF Submit, IsNew, ThenUpdate, policyVars, watchdogVars
<1>2. s \in Session /\ s.allClientUids = {uid} /\ s.state = "NOT_STARTED"
    BY DEF Session, SessionState
<1> HIDE DEF s
<1>3. /\ Sessions' = Sessions \cup {k}
      /\ \A j \in Sessions : j # k /\ UidsOf(j)' = UidsOf(j) /\ StateOf(j)' = StateOf(j)
      /\ UidsOf(k)' = {uid} /\ StateOf(k)' = "NOT_STARTED"
    BY <1>1, <1>2 DEF Sessions, UidsOf, StateOf
<1>4. Sessions' \subseteq Key /\ sessionMap' \in [Sessions' -> Session]
    BY <1>0, <1>1, <1>2, <1>3 DEF TypeOK
<1>5. /\ QueuesMatch(sessionMap', sessionQueues', uidSortedList')
      /\ IsUidList(uidSortedList')
      /\ DOMAIN sessionQueues' \subseteq Uid
      /\ sessionQueues' \in [DOMAIN sessionQueues' -> Seq(Key)]
  <2>1. \A j \in DOMAIN sessionMap' : /\ sessionMap'[j].allClientUids # {}
                                      /\ sessionMap'[j].allClientUids \subseteq Uid
    <3> SUFFICES ASSUME NEW j \in Sessions' PROVE UidsOf(j)' # {} /\ UidsOf(j)' \subseteq Uid
        BY DEF Sessions, UidsOf
    <3>1. \A i \in Sessions : UidsOf(i) # {} /\ UidsOf(i) \subseteq Uid
        BY <1>0 DEF QueuesMatchSessions, QueuesMatch, TypeOK, Sessions, UidsOf
    <3> QED BY <1>3, <3>1
  <2>2. \A j \in Key, u \in Uid :
            j \in DOMAIN sessionMap' /\ u \in sessionMap'[j].allClientUids <=>
                (j \in Sessions /\ u \in UidsOf(j)) \/ (j = k /\ u = uid)
    <3> SUFFICES ASSUME NEW j \in Key, NEW u \in Uid
                 PROVE  j \in Sessions' /\ u \in UidsOf(j)' <=>
                            (j \in Sessions /\ u \in UidsOf(j)) \/ (j = k /\ u = uid)
        BY DEF Sessions, UidsOf
    <3> QED BY <1>1, <1>3
  <2>3. DOMAIN sessionMap' \subseteq Key
      BY <1>4 DEF Sessions
  <2>4. ~(k \in Sessions /\ uid \in UidsOf(k)) /\ AddUidToSession(uid, k, onTop)
      BY <1>1
  <2>5. TypeOK /\ QueuesMatchSessions /\ OfflineIsLast /\ uid \in Uid
      BY <1>0
  <2> QED BY <2>1, <2>2, <2>3, <2>4, <2>5, AddUidLemma
<1>6. uidSortedList' \subseteq Uid \X Uid
    BY <1>5 DEF IsUidList, Elems
<1>7. TypeOK'
    BY <1>0, <1>1, <1>4, <1>5, <1>6 DEF TypeOK
<1>8. QueuesMatchSessions' /\ OfflineIsLast'
    BY <1>5 DEF QueuesMatchSessions, OfflineIsLast
<1>9. OneRunner' /\ CurrentIsLive' /\ WatchdogCoversRunner' /\ WatchedIsRunning'
    BY <1>1, <1>3 DEF ControllerInv, OneRunner, CurrentIsLive, Heeded,
                      WatchdogCoversRunner, WatchedIsRunning, IsRunning
<1>10. PendingAreLive' /\ RightSessionRuns'
    BY <1>0, <1>1 DEF PendingAreLive, RightSessionRuns
<1> QED BY <1>7, <1>8, <1>9, <1>10 DEF ControllerInv

LEMMA AddClientUidLemma ==
    ASSUME ControllerInv, NEW k \in Key, NEW uid \in RealTimeUid,
           NEW onTop \in BOOLEAN, AddClientUid(k, uid, onTop)
    PROVE  ControllerInv'
<1>0. TypeOK /\ QueuesMatchSessions /\ OfflineIsLast /\ PendingAreLive /\ uid \in Uid
    BY DEF ControllerInv, RealTimeUid
<1>1. /\ k \in Sessions /\ uid \notin UidsOf(k)
      /\ sessionMap' = [sessionMap EXCEPT ![k].allClientUids = @ \cup {uid}]
      /\ AddUidToSession(uid, k, onTop)
      /\ phase = "idle" /\ phase' = "update"
      /\ UNCHANGED <<toRemove, toTrim, keepUids, currentSession, resourceLost,
                     thermalThrottling, uidHistory, transcoderReady, watched, timedOut>>
    BY DEF AddClientUid, ThenUpdate, policyVars, watchdogVars
<1>2. /\ Sessions' = Sessions
      /\ sessionMap' \in [Sessions -> Session]
      /\ \A j \in Sessions : StateOf(j)' = StateOf(j)
      /\ \A j \in Sessions : UidsOf(j)' = IF j = k THEN UidsOf(j) \cup {uid} ELSE UidsOf(j)
  <2>1. sessionMap \in [Sessions -> Session] /\ sessionMap[k] \in Session
      BY <1>0, <1>1 DEF TypeOK
  <2> DEFINE s == [sessionMap[k] EXCEPT !.allClientUids = @ \cup {uid}]
  <2>2. s \in Session /\ s.state = StateOf(k) /\ s.allClientUids = UidsOf(k) \cup {uid}
      BY <1>0, <2>1 DEF Session, StateOf, UidsOf
  <2>3. sessionMap' = [sessionMap EXCEPT ![k] = s]
      BY <1>1
  <2> HIDE DEF s
  <2> QED BY <1>1, <2>1, <2>2, <2>3 DEF Sessions, StateOf, UidsOf
<1>3. /\ QueuesMatch(sessionMap', sessionQueues', uidSortedList')
      /\ IsUidList(uidSortedList')
      /\ DOMAIN sessionQueues' \subseteq Uid
      /\ sessionQueues' \in [DOMAIN sessionQueues' -> Seq(Key)]
  <2>1. \A j \in DOMAIN sessionMap' : /\ sessionMap'[j].allClientUids # {}
                                      /\ sessionMap'[j].allClientUids \subseteq Uid
    <3> SUFFICES ASSUME NEW j \in Sessions PROVE UidsOf(j)' # {} /\ UidsOf(j)' \subseteq Uid
        BY <1>2 DEF Sessions, UidsOf
    <3>1. UidsOf(j) # {} /\ UidsOf(j) \subseteq Uid
        BY <1>0 DEF QueuesMatchSessions, QueuesMatch, TypeOK, Sessions, UidsOf
    <3> QED BY <1>0, <1>2, <3>1
  <2>2. \A j \in Key, u \in Uid :
            j \in DOMAIN sessionMap' /\ u \in sessionMap'[j].allClientUids <=>
                (j \in Sessions /\ u \in UidsOf(j)) \/ (j = k /\ u = uid)
    <3> SUFFICES ASSUME NEW j \in Key, NEW u \in Uid
                 PROVE  j \in Sessions' /\ u \in UidsOf(j)' <=>
                            (j \in Sessions /\ u \in UidsOf(j)) \/ (j = k /\ u = uid)
        BY DEF Sessions, UidsOf
    <3> QED BY <1>1, <1>2
  <2>3. DOMAIN sessionMap' \subseteq Key
      BY <1>0, <1>2 DEF Sessions, TypeOK
  <2>4. ~(k \in Sessions /\ uid \in UidsOf(k)) /\ AddUidToSession(uid, k, onTop)
      BY <1>1
  <2>5. TypeOK /\ QueuesMatchSessions /\ OfflineIsLast /\ uid \in Uid
      BY <1>0
  <2> QED BY <2>1, <2>2, <2>3, <2>4, <2>5, AddUidLemma
<1>4. uidSortedList' \subseteq Uid \X Uid
    BY <1>3 DEF IsUidList, Elems
<1>5. TypeOK'
    BY <1>0, <1>1, <1>2, <1>3, <1>4 DEF TypeOK
<1>6. QueuesMatchSessions' /\ OfflineIsLast'
    BY <1>3 DEF QueuesMatchSessions, OfflineIsLast
<1>7. OneRunner' /\ CurrentIsLive' /\ WatchdogCoversRunner' /\ WatchedIsRunning'
    BY <1>1, <1>2 DEF ControllerInv, OneRunner, CurrentIsLive, Heeded,
                      WatchdogCoversRunner, WatchedIsRunning, IsRunning
<1>8. PendingAreLive' /\ RightSessionRuns'
    BY <1>0, <1>1 DEF PendingAreLive, RightSessionRuns
<1> QED BY <1>5, <1>6, <1>7, <1>8 DEF ControllerInv

(* onFinish, onError and the report of a timeout end a session. *)
LEMMA EndSessionLemma ==
    ASSUME ControllerInv, NEW k, Heeded(k), phase = "idle", ThenUpdate,
           NEW topUids, NEW reached,
           RemoveSession(k, sessionMap, watched, topUids, reached),
           timedOut' = timedOut \/ (timedOut = k /\ timedOut' = NoSession),
           UNCHANGED <<policyVars, transcoderReady>>
    PROVE  ControllerInv'
<1>0. TypeOK /\ PendingAreLive /\ k \in Sessions
    BY DEF ControllerInv, Heeded
<1>1. Consistent(sessionMap, watched)
    BY AsFoundLemma
<1>2. /\ Sessions' \subseteq Key
      /\ sessionMap' \in [Sessions' -> Session]
      /\ DOMAIN sessionQueues' \subseteq Uid
      /\ sessionQueues' \in [DOMAIN sessionQueues' -> Seq(Key)]
      /\ currentSession' \in Key \cup {NoSession}
      /\ watched' \in Key \cup {NoSession}
      /\ uidHistory' \in [Uid -> HistoryEntry]
      /\ QueuesMatchSessions' /\ OfflineIsLast' /\ OneRunner' /\ CurrentIsLive'
      /\ WatchdogCoversRunner' /\ WatchedIsRunning'
    BY <1>0, <1>1, RemoveSessionLemma
<1>3. uidSortedList' \subseteq Uid \X Uid
    BY <1>2 DEF OfflineIsLast, IsUidList, Elems
<1>4. TypeOK'
    BY <1>0, <1>2, <1>3 DEF TypeOK, policyVars, ThenUpdate
<1>5. PendingAreLive' /\ RightSessionRuns'
    BY <1>0 DEF PendingAreLive, RightSessionRuns, ThenUpdate
<1> QED BY <1>2, <1>4, <1>5 DEF ControllerInv

LEMMA FinishLemma ==
    ASSUME ControllerInv, NEW k \in Key, OnFinishOrError(k)
    PROVE  ControllerInv'
<1>1. PICK topUids \in SUBSET RealTimeUid, reached \in SUBSET UidsOf(k) :
        RemoveSession(k, sessionMap, watched, topUids, reached)
    BY DEF OnFinishOrError
<1>2. /\ phase = "idle" /\ Heeded(k) /\ ThenUpdate
      /\ timedOut' = timedOut /\ UNCHANGED <<policyVars, transcoderReady>>
    BY DEF OnFinishOrError
<1> QED BY <1>1, <1>2, EndSessionLemma

LEMMA WatchdogErrorLemma ==
    ASSUME ControllerInv, OnWatchdogError
    PROVE  ControllerInv'
<1>0. TypeOK
    BY DEF ControllerInv
<1>1. phase = "idle" /\ timedOut' = NoSession /\ UNCHANGED <<policyVars, transcoderReady>>
    BY DEF OnWatchdogError
<1>2. CASE Heeded(timedOut)
  <2>1. PICK topUids \in SUBSET RealTimeUid, reached \in SUBSET UidsOf(timedOut) :
            RemoveSession(timedOut, sessionMap, watched, topUids, reached)
      BY <1>2 DEF OnWatchdogError
  <2>2. ThenUpdate
      BY <1>2 DEF OnWatchdogError
  <2> QED BY <1>1, <1>2, <2>1, <2>2, EndSessionLemma
<1>3. CASE ~Heeded(timedOut)
  <2>1. /\ UNCHANGED <<sessionMap, sessionQueues, uidSortedList, currentSession>>
        /\ UNCHANGED <<uidHistory, watched, phase, toRemove, toTrim, keepUids>>
      BY <1>3 DEF OnWatchdogError, schedVars, lockVars
  <2>2. TypeOK'
      BY <1>0, <1>1, <2>1 DEF TypeOK, policyVars, Sessions
  <2>3. QueuesMatchSessions' /\ OfflineIsLast' /\ OneRunner' /\ CurrentIsLive'
      BY <2>1 DEF ControllerInv, QueuesMatchSessions, OfflineIsLast, OneRunner, CurrentIsLive,
                  Heeded, Sessions, StateOf
  <2>4. WatchdogCoversRunner' /\ WatchedIsRunning' /\ PendingAreLive'
      BY <1>3, <2>1 DEF ControllerInv, WatchdogCoversRunner, WatchedIsRunning, IsRunning,
                        PendingAreLive, Heeded, Sessions, StateOf, UidsOf
  <2>5. RightSessionRuns'
      BY <1>1, <2>1 DEF ControllerInv, RightSessionRuns, GloballyPaused, policyVars, IsRunning,
                        Sessions, StateOf, UidsOf
  <2> QED BY <2>2, <2>3, <2>4, <2>5 DEF ControllerInv
<1> QED BY <1>2, <1>3

LEMMA ResourceLostLemma ==
    ASSUME ControllerInv, NEW k \in Key, OnResourceLost(k)
    PROVE  ControllerInv'
<1>0. TypeOK /\ QueuesMatchSessions /\ OfflineIsLast /\ PendingAreLive
    BY DEF ControllerInv
<1>1. /\ k \in Sessions /\ StateOf(k) = "RUNNING" /\ phase = "idle"
      /\ sessionMap' = [sessionMap EXCEPT ![k].state = "PAUSED"]
      /\ watched' = NoSession /\ resourceLost' = TRUE
      /\ UNCHANGED <<sessionQueues, uidSortedList, currentSession, thermalThrottling,
                     uidHistory, transcoderReady, timedOut, phase, toRemove, toTrim, keepUids>>
    BY DEF OnResourceLost, Heeded, lockVars
<1>2. /\ Sessions' = Sessions
      /\ sessionMap' \in [Sessions -> Session]
      /\ \A j \in Sessions : UidsOf(j)' = UidsOf(j)
      /\ \A j \in Sessions : StateOf(j)' = IF j = k THEN "PAUSED" ELSE StateOf(j)
  <2>1. sessionMap \in [Sessions -> Session] /\ sessionMap[k] \in Session
      BY <1>0, <1>1 DEF TypeOK
  <2> DEFINE s == [sessionMap[k] EXCEPT !.state = "PAUSED"]
  <2>2. s \in Session /\ s.state = "PAUSED" /\ s.allClientUids = UidsOf(k)
      BY <2>1 DEF Session, SessionState, UidsOf
  <2>3. sessionMap' = [sessionMap EXCEPT ![k] = s]
      BY <1>1
  <2> HIDE DEF s
  <2> QED BY <1>1, <2>1, <2>2, <2>3 DEF Sessions, StateOf, UidsOf
<1>3. \A j \in Sessions : StateOf(j)' # "RUNNING"
    BY <1>1, <1>2 DEF ControllerInv, OneRunner
<1>4. TypeOK'
    BY <1>0, <1>1, <1>2 DEF TypeOK
<1>5. QueuesMatchSessions' /\ OfflineIsLast'
    BY <1>0, <1>1, <1>2 DEF QueuesMatchSessions, QueuesMatch, OfflineIsLast, Sessions, UidsOf
<1>6. OneRunner' /\ WatchdogCoversRunner' /\ WatchedIsRunning'
    BY <1>1, <1>2, <1>3 DEF OneRunner, WatchdogCoversRunner, WatchedIsRunning
<1>7. CurrentIsLive'
    BY <1>1, <1>2 DEF ControllerInv, CurrentIsLive, Heeded
<1>8. PendingAreLive' /\ RightSessionRuns'
    BY <1>0, <1>1, <1>2, <1>3 DEF PendingAreLive, RightSessionRuns, GloballyPaused
<1> QED BY <1>4, <1>5, <1>6, <1>7, <1>8 DEF ControllerInv

LEMMA PolicyFlagLemma ==
    ASSUME ControllerInv,
           OnResourceAvailable \/ \E throttling \in BOOLEAN : OnThrottling(throttling)
    PROVE  ControllerInv'
<1>0. TypeOK /\ PendingAreLive
    BY DEF ControllerInv
<1>1. /\ UNCHANGED <<schedVars, uidHistory, watched>> /\ timedOut' = timedOut
      /\ UNCHANGED <<transcoderReady, toRemove, toTrim, keepUids>>
      /\ phase = "idle" /\ phase' = "update"
    BY DEF OnResourceAvailable, OnThrottling, ThenUpdate, watchdogVars
<1>2. resourceLost' \in BOOLEAN /\ thermalThrottling' \in BOOLEAN
    BY <1>0 DEF OnResourceAvailable, OnThrottling, TypeOK
<1>3. transcoderReady' \in BOOLEAN /\ toRemove' \subseteq Key /\ toTrim' \subseteq Key /\ keepUids' \subseteq Uid
    BY <1>0, <1>1 DEF TypeOK
<1>4. PendingAreLive'
    BY <1>0, <1>1 DEF PendingAreLive
<1>5. phase' \in {"remove", "update"}
    BY <1>1
<1> QED BY <1>1, <1>2, <1>3, <1>4, <1>5, SchedUnchangedLemma

LEMMA TopUidsLemma ==
    ASSUME ControllerInv, NEW uids, OnTopUidsChanged(uids)
    PROVE  ControllerInv'
<1>0. TypeOK /\ QueuesMatchSessions /\ OfflineIsLast /\ PendingAreLive
    BY DEF ControllerInv
<1>1. /\ uidSortedList' = MoveUidsToTop(uidSortedList, uids, TRUE)
      /\ phase = "idle" /\ phase' = "update"
      /\ UNCHANGED <<sessionMap, sessionQueues, currentSession, resourceLost, thermalThrottling,
                     uidHistory, transcoderReady, watched, timedOut, toRemove, toTrim, keepUids>>
    BY DEF OnTopUidsChanged, ThenUpdate, policyVars, watchdogVars
<1>2. IsUidList(uidSortedList') /\ Elems(uidSortedList') = Elems(uidSortedList)
    BY <1>0, <1>1, MoveLemma DEF OfflineIsLast
<1>3. uidSortedList' \subseteq Uid \X Uid
    BY <1>2 DEF IsUidList, Elems
<1>4. TypeOK'
    BY <1>0, <1>1, <1>3 DEF TypeOK, Sessions
<1>5. QueuesMatchSessions' /\ OfflineIsLast'
    BY <1>0, <1>1, <1>2 DEF QueuesMatchSessions, QueuesMatch, OfflineIsLast
<1>6. OneRunner' /\ CurrentIsLive' /\ WatchdogCoversRunner' /\ WatchedIsRunning'
    BY <1>1 DEF ControllerInv, OneRunner, CurrentIsLive, Heeded, WatchdogCoversRunner,
                WatchedIsRunning, IsRunning, Sessions, StateOf
<1>7. PendingAreLive' /\ RightSessionRuns'
    BY <1>0, <1>1 DEF PendingAreLive, RightSessionRuns
<1> QED BY <1>4, <1>5, <1>6, <1>7 DEF ControllerInv

LEMMA TimeoutLemma ==
    ASSUME ControllerInv, WatchdogTimeout
    PROVE  ControllerInv'
<1>0. TypeOK
    BY DEF ControllerInv
<1>1. /\ watched' = NoSession /\ timedOut' = watched
      /\ UNCHANGED <<sessionMap, sessionQueues, uidSortedList, currentSession, resourceLost,
                     thermalThrottling, uidHistory, transcoderReady, phase, toRemove, toTrim, keepUids>>
      /\ timedOut = NoSession
    BY DEF WatchdogTimeout, schedVars, policyVars, lockVars
<1>2. TypeOK'
    BY <1>0, <1>1 DEF TypeOK, Sessions
<1>3. QueuesMatchSessions' /\ OfflineIsLast' /\ OneRunner' /\ CurrentIsLive'
    BY <1>1 DEF ControllerInv, QueuesMatchSessions, OfflineIsLast, OneRunner, CurrentIsLive,
                Heeded, Sessions, StateOf
<1>4. WatchdogCoversRunner' /\ WatchedIsRunning'
    BY <1>0, <1>1, NoSessionAssumption
       DEF ControllerInv, TypeOK, WatchdogCoversRunner, WatchedIsRunning, Sessions, StateOf
<1>5. PendingAreLive'
    BY <1>1 DEF ControllerInv, PendingAreLive, Sessions, UidsOf
<1>6. RightSessionRuns'
    BY <1>1 DEF ControllerInv, RightSessionRuns, GloballyPaused, IsRunning, Sessions, StateOf, UidsOf
<1> QED BY <1>2, <1>3, <1>4, <1>5, <1>6 DEF ControllerInv

-----------------------------------------------------------------------------
LEMMA InitLemma ==
    ASSUME Init
    PROVE  ControllerInv
<1>1. Sessions = {} /\ DOMAIN sessionQueues = {OfflineUid} /\ sessionQueues[OfflineUid] = <<>>
    BY DEF Init, Sessions
<1>2. NoHistory \in HistoryEntry
    BY QuotaAssumption DEF NoHistory, HistoryEntry
<1>3. TypeOK
  <2>1. sessionMap \in [Sessions -> Session]
      BY <1>1 DEF Init
  <2>2. sessionQueues \in [DOMAIN sessionQueues -> Seq(Key)]
      BY DEF Init
  <2>3. uidSortedList \subseteq Uid \X Uid
      BY OfflineAssumption DEF Init
  <2>4. uidHistory \in [Uid -> HistoryEntry]
      BY <1>2 DEF Init
  <2> QED BY <1>1, <2>1, <2>2, <2>3, <2>4, OfflineAssumption DEF Init, TypeOK
<1>4. Elems(uidSortedList) = {OfflineUid}
    BY OfflineAssumption DEF Init, Elems
<1>5. OfflineIsLast
  <2>1. uidSortedList = {<<OfflineUid, OfflineUid>>}
      BY DEF Init
  <2>2. uidSortedList \subseteq Elems(uidSortedList) \X Elems(uidSortedList)
      BY <1>4, <2>1
  <2>3. \A u \in Elems(uidSortedList) : u = OfflineUid
      BY <1>4
  <2> QED BY <1>4, <2>1, <2>2, <2>3 DEF OfflineIsLast, IsUidList
<1>6. QueuesMatchSessions
    BY <1>1, <1>4 DEF QueuesMatchSessions, QueuesMatch, Holds, Sessions
<1>7. OneRunner /\ CurrentIsLive /\ WatchdogCoversRunner /\ WatchedIsRunning
    BY <1>1 DEF Init, OneRunner, CurrentIsLive, WatchdogCoversRunner, WatchedIsRunning
<1>8. PendingAreLive /\ RightSessionRuns
    BY <1>1 DEF Init, PendingAreLive, RightSessionRuns
<1> QED BY <1>3, <1>5, <1>6, <1>7, <1>8 DEF ControllerInv

LEMMA StutterLemma ==
    ASSUME ControllerInv, UNCHANGED vars
    PROVE  ControllerInv'
<1>1. /\ UNCHANGED <<sessionMap, sessionQueues, uidSortedList, currentSession, resourceLost>>
      /\ UNCHANGED <<thermalThrottling, uidHistory, transcoderReady, watched, timedOut>>
      /\ UNCHANGED <<phase, toRemove, toTrim, keepUids>>
    BY DEF vars, schedVars, policyVars, watchdogVars, lockVars
<1>2. TypeOK'
    BY <1>1 DEF ControllerInv, TypeOK, Sessions
<1>3. QueuesMatchSessions' /\ OfflineIsLast' /\ OneRunner' /\ CurrentIsLive'
    BY <1>1 DEF ControllerInv, QueuesMatchSessions, OfflineIsLast, OneRunner, CurrentIsLive,
                Heeded, Sessions, StateOf
<1>4. WatchdogCoversRunner' /\ WatchedIsRunning' /\ PendingAreLive'
    BY <1>1 DEF ControllerInv, WatchdogCoversRunner, WatchedIsRunning, IsRunning, PendingAreLive,
                Sessions, StateOf, UidsOf
<1>5. RightSessionRuns'
    BY <1>1 DEF ControllerInv, RightSessionRuns, GloballyPaused, IsRunning, Sessions, StateOf, UidsOf
<1> QED BY <1>2, <1>3, <1>4, <1>5 DEF ControllerInv

(* No step of the controller breaks the invariant. *)
LEMMA NextLemma ==
    ASSUME ControllerInv, [Next]_vars
    PROVE  ControllerInv'
<1>1. CASE UpdateCurrentSession
    BY <1>1, UpdateLemma
<1>2. CASE RemoveNext
    BY <1>2, RemoveNextLemma
<1>3. CASE TrimNext
    BY <1>3, TrimNextLemma
<1>4. CASE RemovalDone
    BY <1>4, RemovalDoneLemma
<1>5. ASSUME NEW k \in Key, NEW c \in CallingUid, NEW u \in Uid, NEW onTop \in BOOLEAN,
             Submit(k, c, u, onTop)
      PROVE  ControllerInv'
    BY <1>5, SubmitLemma
<1>6. ASSUME NEW k \in Key, NEW u \in RealTimeUid, NEW onTop \in BOOLEAN, AddClientUid(k, u, onTop)
      PROVE  ControllerInv'
    BY <1>6, AddClientUidLemma
<1>7. ASSUME \/ \E k \in Key : Cancel(k)
             \/ \E c \in Client : CancelAll(c)
             \/ \E u \in RealTimeUid : OnUidGone(u)
      PROVE  ControllerInv'
    BY <1>7, CancelLemma
<1>8. ASSUME NEW k \in Key, OnFinishOrError(k)
      PROVE  ControllerInv'
    BY <1>8, FinishLemma
<1>9. ASSUME NEW k \in Key, OnResourceLost(k)
      PROVE  ControllerInv'
    BY <1>9, ResourceLostLemma
<1>10. ASSUME NEW uids \in SUBSET RealTimeUid, OnTopUidsChanged(uids)
       PROVE  ControllerInv'
    BY <1>10, TopUidsLemma
<1>11. ASSUME OnResourceAvailable \/ \E throttling \in BOOLEAN : OnThrottling(throttling)
       PROVE  ControllerInv'
    BY <1>11, PolicyFlagLemma
<1>12. CASE WatchdogTimeout
    BY <1>12, TimeoutLemma
<1>13. CASE OnWatchdogError
    BY <1>13, WatchdogErrorLemma
<1>14. CASE UNCHANGED vars
    BY <1>14, StutterLemma
<1>15. CASE ClientStep
    BY <1>15, <1>5, <1>6, <1>7 DEF ClientStep
<1>16. CASE TranscoderStep
    BY <1>16, <1>8, <1>9 DEF TranscoderStep
<1>17. CASE PolicyStep
    BY <1>17, <1>7, <1>10, <1>11 DEF PolicyStep
<1> QED BY <1>1, <1>2, <1>3, <1>4, <1>12, <1>13, <1>14, <1>15, <1>16, <1>17
        DEF Next, LockHolderStep, WatchdogStep

(* Every state of the controller satisfies the invariant: types, agreement  *)
(* of sessions, queues and list, at most one runner, which is watched and   *)
(* is the right one whenever mLock is free.                                 *)
THEOREM ControllerSafe == Spec => []ControllerInv
<1>1. Init => ControllerInv
    BY InitLemma
<1>2. ControllerInv /\ [Next]_vars => ControllerInv'
    BY NextLemma
<1> QED BY <1>1, <1>2, PTL DEF Spec

----------------------------------------------------------------------------
(* What follows from the invariant.                                         *)

(* Every variable keeps its type, whatever the order of the calls. *)
THEOREM TypesAreKept == Spec => []TypeOK
<1>1. ControllerInv => TypeOK
    BY DEF ControllerInv
<1> QED BY <1>1, ControllerSafe, PTL

(* validateState_l never fails, nor would it between two removals: sessions *)
(* and queues agree, and the list orders exactly the queued uids.           *)
THEOREM QueuesAgree == Spec => []QueuesMatchSessions
<1>1. ControllerInv => QueuesMatchSessions
    BY DEF ControllerInv
<1> QED BY <1>1, ControllerSafe, PTL

(* mOfflineUidIterator stays valid: however the list is reordered, the      *)
(* offline uid is its last element.                                         *)
THEOREM OfflineStaysLast == Spec => []OfflineIsLast
<1>1. ControllerInv => OfflineIsLast
    BY DEF ControllerInv
<1> QED BY <1>1, ControllerSafe, PTL

(* updateCurrentSession_l, which pauses, drops and retries in a loop, never *)
(* leaves two sessions RUNNING.                                             *)
THEOREM OneSessionRuns == Spec => []OneRunner
<1>1. ControllerInv => OneRunner
    BY DEF ControllerInv
<1> QED BY <1>1, ControllerSafe, PTL

(* mCurrentSession, a pointer into mSessionMap, never dangles: each way to  *)
(* erase a session clears it.                                               *)
THEOREM CurrentNeverDangles == Spec => []CurrentIsLive
<1>1. ControllerInv => CurrentIsLive
    BY DEF ControllerInv
<1> QED BY <1>1, ControllerSafe, PTL

(* The session that runs is watched by the watchdog, or its timeout is      *)
(* being reported.                                                          *)
THEOREM RunnerIsWatched == Spec => []WatchdogCoversRunner
<1>1. ControllerInv => WatchdogCoversRunner
    BY DEF ControllerInv
<1> QED BY <1>1, ControllerSafe, PTL

(* The watchdog is never left on a session that does not run: start(), which *)
(* it ignores while it is active, always finds it idle.                      *)
THEOREM OnlyRunnerIsWatched == Spec => []WatchedIsRunning
<1>1. ControllerInv => WatchedIsRunning
    BY DEF ControllerInv
<1> QED BY <1>1, ControllerSafe, PTL

(* updateCurrentSession_l decides right: whenever mLock is free, nothing    *)
(* runs while everything is paused, and otherwise a session of the first    *)
(* uid runs if there is any session at all.                                 *)
THEOREM DecisionIsRight == Spec => []RightSessionRuns
<1>1. ControllerInv => RightSessionRuns
    BY DEF ControllerInv
<1> QED BY <1>1, ControllerSafe, PTL

-----------------------------------------------------------------------------
(* The pacer.  An active mark belongs to an entry of the map, and to a      *)
(* session of the uid that was started.                                     *)
MarksInv ==
    \A u \in Uid : uidHistory[u].sessionActive =>
        /\ uidHistory[u].known
        /\ \E k \in Sessions : u \in UidsOf(k) /\ StateOf(k) # "NOT_STARTED"

(* A step that keeps the history, the sessions with their uids, and that no *)
(* session takes back its start, keeps the marks.                           *)
LEMMA MarksStayLemma ==
    ASSUME MarksInv, UNCHANGED uidHistory, Sessions \subseteq Sessions',
           \A k \in Sessions : /\ UidsOf(k) \subseteq UidsOf(k)'
                               /\ StateOf(k) # "NOT_STARTED" => StateOf(k)' # "NOT_STARTED"
    PROVE  MarksInv'
<1> SUFFICES ASSUME NEW u \in Uid, uidHistory'[u].sessionActive
             PROVE  /\ uidHistory'[u].known
                    /\ \E k \in Sessions' : u \in UidsOf(k)' /\ StateOf(k)' # "NOT_STARTED"
    BY DEF MarksInv
<1>1. PICK k \in Sessions : u \in UidsOf(k) /\ StateOf(k) # "NOT_STARTED"
    BY DEF MarksInv
<1>2. uidHistory'[u].known
    BY DEF MarksInv
<1>3. k \in Sessions' /\ u \in UidsOf(k)' /\ StateOf(k)' # "NOT_STARTED"
    BY <1>1
<1> QED BY <1>2, <1>3

LEMMA MarksRemoveLemma ==
    ASSUME ControllerInv, MarksInv, NEW k \in Sessions, NEW map, NEW w, NEW topUids, NEW reached,
           Consistent(map, w), RemoveSession(k, map, w, topUids, reached)
    PROVE  MarksInv'
<1>1. /\ Sessions' = Sessions \ {k}
      /\ \A j \in Sessions' : UidsOf(j)' = UidsOf(j)
      /\ \A j \in Sessions' : StateOf(j)' = "NOT_STARTED" <=> StateOf(j) = "NOT_STARTED"
    BY DEF RemoveSession, Consistent, Sessions, UidsOf, StateOf
<1> SUFFICES ASSUME NEW u \in Uid, uidHistory'[u].sessionActive
             PROVE  /\ uidHistory'[u].known
                    /\ \E j \in Sessions' : u \in UidsOf(j)' /\ StateOf(j)' # "NOT_STARTED"
    BY DEF MarksInv
<1>2. CASE u \in UidsOf(k)
  <2>1. uidHistory'[u] = OnSessionCompleted(uidHistory[u], u \in reached)
      BY <1>2 DEF RemoveSession
  <2>2. uidHistory[u].sessionActive => uidHistory[u].known
      BY DEF MarksInv
  <2>3. ~uidHistory'[u].sessionActive
    <3>1. CASE uidHistory[u].known /\ uidHistory[u].sessionActive
        BY <2>1, <3>1 DEF OnSessionCompleted
    <3>2. CASE ~(uidHistory[u].known /\ uidHistory[u].sessionActive)
        BY <2>1, <2>2, <3>2 DEF OnSessionCompleted
    <3> QED BY <3>1, <3>2
  <2> QED BY <2>3
<1>3. CASE u \notin UidsOf(k)
  <2>1. uidHistory'[u] = uidHistory[u]
      BY <1>3 DEF RemoveSession
  <2>2. PICK j \in Sessions : u \in UidsOf(j) /\ StateOf(j) # "NOT_STARTED"
      BY <2>1 DEF MarksInv
  <2>3. j # k
      BY <1>3, <2>2
  <2>4. j \in Sessions' /\ u \in UidsOf(j)' /\ StateOf(j)' # "NOT_STARTED"
      BY <1>1, <2>2, <2>3
  <2>5. uidHistory'[u].known
      BY <2>1 DEF MarksInv
  <2> QED BY <2>4, <2>5
<1> QED BY <1>2, <1>3

LEMMA MarksTrimLemma ==
    ASSUME ControllerInv, MarksInv, TrimNext
    PROVE  MarksInv'
<1>1. PICK k \in toTrim, topUids \in SUBSET RealTimeUid : TrimSession(k, keepUids, topUids)
    BY DEF TrimNext
<1>2. k \in Sessions /\ sessionMap \in [Sessions -> Session]
    BY DEF ControllerInv, PendingAreLive, TypeOK
<1>3. /\ Sessions' = Sessions
      /\ \A j \in Sessions : StateOf(j)' = StateOf(j)
      /\ \A j \in Sessions : UidsOf(j)' = IF j = k THEN UidsOf(j) \cap keepUids ELSE UidsOf(j)
  <2> DEFINE s == [sessionMap[k] EXCEPT !.allClientUids = @ \cap keepUids]
  <2>1. s.state = StateOf(k) /\ s.allClientUids = UidsOf(k) \cap keepUids
      BY <1>2 DEF Session, StateOf, UidsOf
  <2>2. sessionMap' = [sessionMap EXCEPT ![k] = s]
      BY <1>1 DEF TrimSession
  <2> HIDE DEF s
  <2> QED BY <1>2, <2>1, <2>2 DEF Sessions, StateOf, UidsOf
<1> SUFFICES ASSUME NEW u \in Uid, uidHistory'[u].sessionActive
             PROVE  /\ uidHistory'[u].known
                    /\ \E j \in Sessions' : u \in UidsOf(j)' /\ StateOf(j)' # "NOT_STARTED"
    BY DEF MarksInv
<1>4. CASE u \in UidsOf(k) \ keepUids
  <2>1. uidHistory'[u] = OnSessionCancelled(uidHistory[u])
      BY <1>1, <1>4 DEF TrimSession
  <2>2. uidHistory[u] \in HistoryEntry
      BY DEF ControllerInv, TypeOK
  <2>3. ~uidHistory'[u].sessionActive
      BY <2>1, <2>2 DEF OnSessionCancelled, HistoryEntry
  <2> QED BY <2>3
<1>5. CASE u \notin UidsOf(k) \ keepUids
  <2>1. uidHistory'[u] = uidHistory[u]
      BY <1>1, <1>5 DEF TrimSession
  <2>2. PICK j \in Sessions : u \in UidsOf(j) /\ StateOf(j) # "NOT_STARTED"
      BY <2>1 DEF MarksInv
  <2>3. j \in Sessions' /\ u \in UidsOf(j)' /\ StateOf(j)' # "NOT_STARTED"
      BY <1>3, <1>5, <2>2
  <2>4. uidHistory'[u].known
      BY <2>1 DEF MarksInv
  <2> QED BY <2>3, <2>4
<1> QED BY <1>4, <1>5

LEMMA MarksUpdateLemma ==
    ASSUME ControllerInv, MarksInv, UpdateCurrentSession
    PROVE  MarksInv'
<1>1. PICK top \in Key \cup {NoSession} :
        NothingToChange(top) \/ GoIdle(top) \/ StartTop(top) \/ ResumeTop(top) \/ DropTop(top)
    BY DEF UpdateCurrentSession
<1> DEFINE m == PausedMap
<1>2. /\ m \in [Sessions -> Session]
      /\ \A j \in Sessions : /\ m[j].allClientUids = UidsOf(j)
                             /\ m[j].state = "NOT_STARTED" <=> StateOf(j) = "NOT_STARTED"
    BY AfterPauseLemma DEF Consistent
<1>3. CASE NothingToChange(top)
    BY <1>3, MarksStayLemma DEF NothingToChange, schedVars, Sessions, UidsOf, StateOf
<1>4. CASE GoIdle(top)
  <2>1. sessionMap' = m /\ UNCHANGED uidHistory
      BY <1>4 DEF GoIdle
  <2> HIDE DEF m
  <2> QED BY <1>2, <2>1, MarksStayLemma DEF Sessions, UidsOf, StateOf
<1>5. ASSUME top \in Sessions, sessionMap' = [m EXCEPT ![top].state = "RUNNING"]
      PROVE  /\ Sessions' = Sessions
             /\ \A j \in Sessions : /\ UidsOf(j)' = UidsOf(j)
                                    /\ StateOf(j) # "NOT_STARTED" => StateOf(j)' # "NOT_STARTED"
             /\ StateOf(top)' = "RUNNING"
  <2> DEFINE s == [m[top] EXCEPT !.state = "RUNNING"]
  <2>1. s.state = "RUNNING" /\ s.allClientUids = m[top].allClientUids
      BY <1>2, <1>5 DEF Session
  <2>2. sessionMap' = [m EXCEPT ![top] = s]
      BY <1>5
  <2> HIDE DEF m, s
  <2> QED BY <1>2, <1>5, <2>1, <2>2 DEF Sessions, UidsOf, StateOf
<1>6. CASE ResumeTop(top)
    BY <1>5, <1>6, MarksStayLemma DEF ResumeTop
<1>7. CASE StartTop(top)
  <2>1. top \in Sessions /\ sessionMap' = [m EXCEPT ![top].state = "RUNNING"]
      BY <1>7 DEF StartTop
  <2>2. PICK late \in SUBSET UidsOf(top) : uidHistory' = HistoryAfterStart(top, late)
      BY <1>7 DEF StartTop
  <2> HIDE DEF m
  <2> SUFFICES ASSUME NEW u \in Uid, uidHistory'[u].sessionActive
               PROVE  /\ uidHistory'[u].known
                      /\ \E j \in Sessions' : u \in UidsOf(j)' /\ StateOf(j)' # "NOT_STARTED"
      BY DEF MarksInv
  <2>3. uidHistory[u] \in HistoryEntry
      BY DEF ControllerInv, TypeOK
  <2>4. CASE u \in UidsOf(top)
    <3>1. uidHistory'[u] = OnSessionStarted(uidHistory[u], u, sessionMap[top].callingUid, u \in late)
        BY <2>2, <2>4 DEF HistoryAfterStart
    <3>2. uidHistory[u].sessionActive => uidHistory[u].known
        BY DEF MarksInv
    <3>3. uidHistory'[u].known
        BY <2>3, <3>1, <3>2 DEF OnSessionStarted, HistoryEntry
    <3> QED BY <1>5, <2>1, <2>4, <3>3
  <2>5. CASE u \notin UidsOf(top)
    <3>1. uidHistory'[u] = uidHistory[u]
        BY <2>2, <2>5 DEF HistoryAfterStart
    <3>2. PICK j \in Sessions : u \in UidsOf(j) /\ StateOf(j) # "NOT_STARTED"
        BY <3>1 DEF MarksInv
    <3>3. uidHistory'[u].known
        BY <3>1 DEF MarksInv
    <3> QED BY <1>5, <2>1, <3>2, <3>3
  <2> QED BY <2>4, <2>5
<1>8. CASE DropTop(top)
    BY <1>8, AfterPauseLemma, MarksRemoveLemma DEF DropTop
<1> QED BY <1>1, <1>3, <1>4, <1>6, <1>7, <1>8

LEMMA MarksNextLemma ==
    ASSUME ControllerInv, MarksInv, [Next]_vars
    PROVE  MarksInv'
<1>0. sessionMap \in [Sessions -> Session] /\ Consistent(sessionMap, watched)
    BY AsFoundLemma DEF ControllerInv, TypeOK
<1>1. ASSUME UNCHANGED <<uidHistory, sessionMap>> PROVE MarksInv'
    BY <1>1, MarksStayLemma DEF Sessions, UidsOf, StateOf
<1>2. CASE UpdateCurrentSession
    BY <1>2, MarksUpdateLemma
<1>3. CASE RemoveNext
  <2>1. PICK k \in toRemove, topUids \in SUBSET RealTimeUid :
            \E reached \in SUBSET UidsOf(k) : RemoveSession(k, sessionMap, watched, topUids, reached)
      BY <1>3 DEF RemoveNext
  <2>2. k \in Sessions
      BY DEF ControllerInv, PendingAreLive
  <2> QED BY <1>0, <2>1, <2>2, MarksRemoveLemma
<1>4. CASE TrimNext
    BY <1>4, MarksTrimLemma
<1>5. ASSUME NEW k \in Key, NEW c \in CallingUid, NEW u \in Uid, NEW onTop \in BOOLEAN,
             Submit(k, c, u, onTop)
      PROVE  MarksInv'
  <2>1. /\ k \notin Sessions /\ UNCHANGED uidHistory
        /\ Sessions' = Sessions \cup {k}
        /\ \A j \in Sessions : sessionMap'[j] = sessionMap[j]
      BY <1>5 DEF Submit, IsNew, Sessions
  <2> QED BY <2>1, MarksStayLemma DEF UidsOf, StateOf
<1>6. ASSUME NEW k \in Key, NEW u \in RealTimeUid, NEW onTop \in BOOLEAN, AddClientUid(k, u, onTop)
      PROVE  MarksInv'
  <2> DEFINE s == [sessionMap[k] EXCEPT !.allClientUids = @ \cup {u}]
  <2>1. /\ k \in Sessions /\ UNCHANGED uidHistory
        /\ sessionMap' = [sessionMap EXCEPT ![k] = s]
      BY <1>6 DEF AddClientUid
  <2>2. s.state = StateOf(k) /\ UidsOf(k) \subseteq s.allClientUids
      BY <1>0, <2>1 DEF Session, StateOf, UidsOf
  <2> HIDE DEF s
  <2>3. /\ Sessions' = Sessions
        /\ \A j \in Sessions : UidsOf(j) \subseteq UidsOf(j)' /\ StateOf(j)' = StateOf(j)
      BY <1>0, <2>1, <2>2 DEF Sessions, UidsOf, StateOf
  <2> QED BY <2>1, <2>3, MarksStayLemma
<1>7. ASSUME NEW k \in Key, OnResourceLost(k) PROVE MarksInv'
  <2> DEFINE s == [sessionMap[k] EXCEPT !.state = "PAUSED"]
  <2>1. k \in Sessions /\ UNCHANGED uidHistory /\ sessionMap' = [sessionMap EXCEPT ![k] = s]
      BY <1>7 DEF OnResourceLost, Heeded
  <2>2. s.state = "PAUSED" /\ UidsOf(k) = s.allClientUids
      BY <1>0, <2>1 DEF Session, UidsOf
  <2> HIDE DEF s
  <2>3. /\ Sessions' = Sessions
        /\ \A j \in Sessions : /\ UidsOf(j) \subseteq UidsOf(j)'
                               /\ StateOf(j) # "NOT_STARTED" => StateOf(j)' # "NOT_STARTED"
      BY <1>0, <2>1, <2>2 DEF Sessions, UidsOf, StateOf
  <2> QED BY <2>1, <2>3, MarksStayLemma
<1>8. ASSUME NEW k \in Key, OnFinishOrError(k) PROVE MarksInv'
    BY <1>0, <1>8, MarksRemoveLemma DEF OnFinishOrError, Heeded
<1>9. CASE OnWatchdogError
  <2>1. CASE Heeded(timedOut)
      BY <1>0, <1>9, <2>1, MarksRemoveLemma DEF OnWatchdogError, Heeded
  <2>2. CASE ~Heeded(timedOut)
      BY <1>1, <1>9, <2>2 DEF OnWatchdogError, schedVars
  <2> QED BY <2>1, <2>2
<1>10. ASSUME \/ RemovalDone \/ WatchdogTimeout \/ OnResourceAvailable
              \/ \E throttling \in BOOLEAN : OnThrottling(throttling)
       PROVE  MarksInv'
    BY <1>1, <1>10 DEF RemovalDone, WatchdogTimeout, OnResourceAvailable, OnThrottling, schedVars
<1>11. ASSUME \/ \E uids \in SUBSET RealTimeUid : OnTopUidsChanged(uids)
              \/ \E k \in Key : Cancel(k)
              \/ \E c \in Client : CancelAll(c)
              \/ \E u \in RealTimeUid : OnUidGone(u)
       PROVE  MarksInv'
    BY <1>1, <1>11 DEF OnTopUidsChanged, Cancel, CancelAll, OnUidGone, ThenRemove, schedVars
<1>12. CASE UNCHANGED vars
    BY <1>1, <1>12 DEF vars, schedVars
<1>13. CASE ClientStep
    BY <1>13, <1>5, <1>6, <1>11 DEF ClientStep
<1>14. CASE TranscoderStep
    BY <1>14, <1>7, <1>8 DEF TranscoderStep
<1>15. CASE PolicyStep
    BY <1>15, <1>10, <1>11 DEF PolicyStep
<1> QED BY <1>2, <1>3, <1>4, <1>9, <1>10, <1>12, <1>13, <1>14, <1>15
        DEF Next, LockHolderStep, WatchdogStep

(* A uid is marked active by the pacer only while it has a session that was *)
(* started: no end or departure leaves a mark behind.                       *)
THEOREM MarksAreReal == Spec => []ActiveMarksAreReal
<1>1. Init => MarksInv
    BY DEF Init, MarksInv, NoHistory
<1>2. ControllerInv /\ MarksInv /\ [Next]_vars => MarksInv'
    BY MarksNextLemma
<1>3. MarksInv => ActiveMarksAreReal
    BY DEF MarksInv, ActiveMarksAreReal, Heeded
<1> QED BY <1>1, <1>2, <1>3, ControllerSafe, PTL DEF Spec

(* What a step may do to the entry of a uid in mUidHistoryMap. *)
EntryMoves(u) ==
    \/ uidHistory'[u] = uidHistory[u]
    \/ \E c \in CallingUid, late \in BOOLEAN :
            uidHistory'[u] = OnSessionStarted(uidHistory[u], u, c, late)
    \/ \E reached \in BOOLEAN : uidHistory'[u] = OnSessionCompleted(uidHistory[u], reached)
    \/ uidHistory'[u] = OnSessionCancelled(uidHistory[u])

LEMMA EntryRemoveLemma ==
    ASSUME NEW k, NEW map, NEW w, NEW topUids, NEW reached,
           RemoveSession(k, map, w, topUids, reached), NEW u \in Uid
    PROVE  EntryMoves(u)
<1>1. CASE u \in UidsOf(k)
  <2>1. uidHistory'[u] = OnSessionCompleted(uidHistory[u], u \in reached)
      BY <1>1 DEF RemoveSession
  <2>2. (u \in reached) \in BOOLEAN
      OBVIOUS
  <2> QED BY <2>1, <2>2 DEF EntryMoves
<1>2. CASE u \notin UidsOf(k)
    BY <1>2 DEF RemoveSession, EntryMoves
<1> QED BY <1>1, <1>2

LEMMA EntryUpdateLemma ==
    ASSUME ControllerInv, UpdateCurrentSession, NEW u \in Uid
    PROVE  EntryMoves(u)
<1>1. PICK top \in Key \cup {NoSession} :
        NothingToChange(top) \/ GoIdle(top) \/ StartTop(top) \/ ResumeTop(top) \/ DropTop(top)
    BY DEF UpdateCurrentSession
<1>2. CASE NothingToChange(top) \/ GoIdle(top) \/ ResumeTop(top)
    BY <1>2 DEF NothingToChange, GoIdle, ResumeTop, EntryMoves
<1>3. CASE StartTop(top)
  <2>1. PICK late \in SUBSET UidsOf(top) : uidHistory' = HistoryAfterStart(top, late)
      BY <1>3 DEF StartTop
  <2>2. sessionMap[top].callingUid \in CallingUid
      BY <1>3 DEF StartTop, ControllerInv, TypeOK, Session
  <2>3. CASE u \in UidsOf(top)
    <3>1. uidHistory'[u] = OnSessionStarted(uidHistory[u], u, sessionMap[top].callingUid, u \in late)
        BY <2>1, <2>3 DEF HistoryAfterStart
    <3>2. (u \in late) \in BOOLEAN
        OBVIOUS
    <3> QED BY <2>2, <3>1, <3>2 DEF EntryMoves
  <2>4. CASE u \notin UidsOf(top)
      BY <2>1, <2>4 DEF HistoryAfterStart, EntryMoves
  <2> QED BY <2>3, <2>4
<1>4. CASE DropTop(top)
    BY <1>4, EntryRemoveLemma DEF DropTop
<1> QED BY <1>1, <1>2, <1>3, <1>4

(* Only starts, ends and departures of sessions touch the entry of a uid. *)
LEMMA EntryNextLemma ==
    ASSUME ControllerInv, [Next]_vars, NEW u \in Uid
    PROVE  EntryMoves(u)
<1>1. ASSUME UNCHANGED uidHistory PROVE EntryMoves(u)
    BY <1>1 DEF EntryMoves
<1>2. CASE UpdateCurrentSession
    BY <1>2, EntryUpdateLemma
<1>3. CASE RemoveNext
    BY <1>3, EntryRemoveLemma DEF RemoveNext
<1>4. CASE TrimNext
    BY <1>4 DEF TrimNext, TrimSession, EntryMoves
<1>5. ASSUME NEW k \in Key, OnFinishOrError(k) PROVE EntryMoves(u)
    BY <1>5, EntryRemoveLemma DEF OnFinishOrError
<1>6. CASE OnWatchdogError
    BY <1>1, <1>6, EntryRemoveLemma DEF OnWatchdogError
<1>7. CASE ClientStep
    BY <1>1, <1>7 DEF ClientStep, Submit, AddClientUid, Cancel, CancelAll, ThenRemove
<1>8. CASE PolicyStep
    BY <1>1, <1>8 DEF PolicyStep, OnTopUidsChanged, OnUidGone, ThenRemove, OnResourceAvailable,
                      OnThrottling
<1>9. CASE TranscoderStep
    BY <1>1, <1>5, <1>9 DEF TranscoderStep, OnResourceLost
<1>10. CASE RemovalDone \/ WatchdogTimeout \/ UNCHANGED vars
    BY <1>1, <1>10 DEF RemovalDone, WatchdogTimeout, vars
<1> QED BY <1>2, <1>3, <1>4, <1>6, <1>7, <1>8, <1>9, <1>10
        DEF Next, LockHolderStep, WatchdogStep

(* An entry that is over quota is not marked active: the session that       *)
(* brought it there has cleared the mark.                                   *)
QuotaInv == \A u \in Uid : OverQuota(uidHistory[u]) => ~uidHistory[u].sessionActive

(* A uid that is over quota stays denied: no start, end or departure of a   *)
(* session, its own or one that it shares, touches its entry again.         *)
THEOREM QuotaIsNeverRegained == Spec => OverQuotaIsFinal
<1>1. Init => QuotaInv
    BY DEF Init, QuotaInv, NoHistory
<1>2. ASSUME ControllerInv, QuotaInv, [Next]_vars, NEW u \in Uid
      PROVE  /\ OverQuota(uidHistory[u]) => uidHistory'[u] = uidHistory[u]
             /\ OverQuota(uidHistory'[u]) => ~uidHistory'[u].sessionActive
  <2> DEFINE e == uidHistory[u]
             f == uidHistory'[u]
  <2>1. e \in HistoryEntry /\ BurstCountQuota \in Nat
      BY <1>2, QuotaAssumption DEF ControllerInv, TypeOK
  <2>2. OverQuota(e) => ~e.sessionActive
      BY <1>2 DEF QuotaInv
  <2>3. \/ f = e
        \/ \E c \in CallingUid, late \in BOOLEAN : f = OnSessionStarted(e, u, c, late)
        \/ \E reached \in BOOLEAN : f = OnSessionCompleted(e, reached)
        \/ f = OnSessionCancelled(e)
      BY <1>2, EntryNextLemma DEF EntryMoves
  <2> HIDE DEF e, f
  <2>4. ASSUME NEW c \in CallingUid, NEW late \in BOOLEAN, f = OnSessionStarted(e, u, c, late)
        PROVE  (OverQuota(e) => f = e) /\ (OverQuota(f) => ~f.sessionActive)
      BY <2>1, <2>2, <2>4 DEF OnSessionStarted, OverQuota, HistoryEntry
  <2>5. ASSUME NEW reached \in BOOLEAN, f = OnSessionCompleted(e, reached)
        PROVE  (OverQuota(e) => f = e) /\ (OverQuota(f) => ~f.sessionActive)
    <3>1. CASE e.known /\ e.sessionActive
        BY <2>2, <2>5, <3>1 DEF OnSessionCompleted
    <3>2. CASE ~(e.known /\ e.sessionActive)
        BY <2>2, <2>5, <3>2 DEF OnSessionCompleted
    <3> QED BY <3>1, <3>2
  <2>6. ASSUME f = OnSessionCancelled(e)
        PROVE  (OverQuota(e) => f = e) /\ (OverQuota(f) => ~f.sessionActive)
      BY <2>1, <2>2, <2>6 DEF OnSessionCancelled, HistoryEntry
  <2>7. (OverQuota(e) => f = e) /\ (OverQuota(f) => ~f.sessionActive)
      BY <2>2, <2>3, <2>4, <2>5, <2>6
  <2> QED BY <2>7 DEF e, f
<1>3. ControllerInv /\ QuotaInv /\ [Next]_vars => QuotaInv'
  <2> SUFFICES ASSUME ControllerInv, QuotaInv, [Next]_vars, NEW u \in Uid
               PROVE  OverQuota(uidHistory'[u]) => ~uidHistory'[u].sessionActive
      BY DEF QuotaInv, OverQuota
  <2> QED BY <1>2
<1> DEFINE Final == \A u \in Uid : OverQuota(uidHistory[u]) => uidHistory'[u] = uidHistory[u]
<1>4. ControllerInv /\ QuotaInv /\ [Next]_vars => [Final]_vars
    BY <1>2
<1> QED BY <1>1, <1>3, <1>4, ControllerSafe, PTL DEF Spec, OverQuotaIsFinal

----------------------------------------------------------------------------
(* SessionController implements SessionLifecycle: each of its steps changes  *)
(* the lives of the sessions as a step of SessionLifecycle does, or not at   *)
(* all.                                                                      *)

(* The refinement mapping. *)
Life == [k \in Key |-> IF k \in Sessions THEN StateOf(k) ELSE "ABSENT"]

LifeStep == Lifecycle!LifecycleNext \/ UNCHANGED Life

(* What a step of SessionLifecycle is, read through the mapping. *)
LEMMA LifeStepLemma ==
    ASSUME NEW k \in Key,
           \/ Life[k] = "ABSENT" /\ Life' = [Life EXCEPT ![k] = "NOT_STARTED"]
           \/ Life[k] # "ABSENT" /\ Life' = [Life EXCEPT ![k] = "ABSENT"]
           \/ Life[k] = "RUNNING" /\ Life' = [Life EXCEPT ![k] = "PAUSED"]
           \/ /\ Life[k] \in {"NOT_STARTED", "PAUSED"}
              /\ Life' = [j \in Key |-> IF j = k THEN "RUNNING"
                                        ELSE IF Life[j] = "RUNNING" THEN "PAUSED" ELSE Life[j]]
           \/ /\ Life[k] = "NOT_STARTED"
              /\ Life' = [j \in Key |-> IF j = k THEN "ABSENT"
                                        ELSE IF Life[j] = "RUNNING" THEN "PAUSED" ELSE Life[j]]
    PROVE  LifeStep
<1>1. Lifecycle!Arrive(k) \/ Lifecycle!Leave(k) \/ Lifecycle!Pause(k)
        \/ Lifecycle!Run(k) \/ Lifecycle!TurnAway(k)
    BY DEF Life, Lifecycle!Arrive, Lifecycle!Leave, Lifecycle!Pause, Lifecycle!Run,
           Lifecycle!TurnAway, Lifecycle!PauseOthers
<1> QED BY <1>1 DEF LifeStep, Lifecycle!LifecycleNext

(* A step that neither adds nor removes a session and keeps every state is  *)
(* a stutter.                                                               *)
LEMMA SameLifeLemma ==
    ASSUME Sessions' = Sessions, \A k \in Sessions : StateOf(k)' = StateOf(k)
    PROVE  LifeStep
BY DEF LifeStep, Life

(* A session that ends leaves, and nothing else changes. *)
LEMMA LeaveLemma ==
    ASSUME ControllerInv, NEW k \in Sessions, NEW w, NEW topUids, NEW reached,
           RemoveSession(k, sessionMap, w, topUids, reached)
    PROVE  LifeStep
<1>1. k \in Key /\ Life[k] # "ABSENT"
    BY DEF ControllerInv, TypeOK, Life, Session, SessionState, StateOf, Sessions
<1>2. /\ Sessions' = Sessions \ {k}
      /\ \A j \in Sessions' : StateOf(j)' = StateOf(j)
    BY DEF RemoveSession, Sessions, StateOf
<1>3. Life' = [Life EXCEPT ![k] = "ABSENT"]
    BY <1>1, <1>2 DEF Life
<1> QED BY <1>1, <1>3, LifeStepLemma

(* PausedMap holds what the lives become when the one that runs is paused. *)
LEMMA PausedLifeLemma ==
    ASSUME ControllerInv
    PROVE  /\ DOMAIN PausedMap = Sessions
           /\ \A j \in Sessions :
                PausedMap[j].state = IF StateOf(j) = "RUNNING" THEN "PAUSED" ELSE StateOf(j)
<1>1. DOMAIN PausedMap = Sessions
    BY DEF PausedMap
<1>2. ASSUME NEW j \in Sessions
      PROVE  PausedMap[j].state = IF StateOf(j) = "RUNNING" THEN "PAUSED" ELSE StateOf(j)
  <2>1. sessionMap[j] \in Session
      BY DEF ControllerInv, TypeOK, Sessions
  <2>2. CASE StateOf(j) = "RUNNING"
    <3>1. j = currentSession /\ IsRunning(j)
        BY <2>2 DEF ControllerInv, OneRunner, IsRunning
    <3>2. PausedMap[j] = [sessionMap[j] EXCEPT !.state = "PAUSED"]
        BY <3>1 DEF PausedMap
    <3> QED BY <2>1, <2>2, <3>2 DEF Session
  <2>3. CASE StateOf(j) # "RUNNING"
      BY <2>3 DEF PausedMap, IsRunning, StateOf
  <2> QED BY <2>2, <2>3
<1> QED BY <1>1, <1>2

(* Starting or resuming the top session runs it and pauses the other one. *)
LEMMA RunLifeLemma ==
    ASSUME ControllerInv, NEW top \in Sessions, StateOf(top) \in {"NOT_STARTED", "PAUSED"},
           sessionMap' = [PausedMap EXCEPT ![top].state = "RUNNING"]
    PROVE  LifeStep
<1>1. top \in Key /\ Sessions \subseteq Key
    BY DEF ControllerInv, TypeOK
<1>2. Sessions' = Sessions
    BY PausedLifeLemma DEF Sessions
<1>3. PausedMap[top] \in Session
  <2>1. sessionMap[top] \in Session
      BY DEF ControllerInv, TypeOK, Sessions
  <2> QED BY <2>1 DEF PausedMap, Session, SessionState
<1>4. StateOf(top)' = "RUNNING"
    BY <1>3, PausedLifeLemma DEF StateOf, Session
<1>5. \A j \in Sessions \ {top} : StateOf(j)' = PausedMap[j].state
    BY PausedLifeLemma DEF StateOf
<1>6. \A j \in Sessions \ {top} :
        StateOf(j)' = IF StateOf(j) = "RUNNING" THEN "PAUSED" ELSE StateOf(j)
    BY <1>5, PausedLifeLemma
<1>7. Life' = [j \in Key |-> IF j = top THEN "RUNNING"
                             ELSE IF Life[j] = "RUNNING" THEN "PAUSED" ELSE Life[j]]
    BY <1>1, <1>2, <1>4, <1>6 DEF Life
<1> QED BY <1>1, <1>7, LifeStepLemma DEF Life

LEMMA UpdateLifeLemma ==
    ASSUME ControllerInv, UpdateCurrentSession
    PROVE  LifeStep
<1>1. PICK top \in Key \cup {NoSession} :
        NothingToChange(top) \/ GoIdle(top) \/ StartTop(top) \/ ResumeTop(top) \/ DropTop(top)
    BY DEF UpdateCurrentSession
<1>2. CASE NothingToChange(top)
    BY <1>2, SameLifeLemma DEF NothingToChange, schedVars, Sessions, StateOf
<1>3. CASE GoIdle(top)
  <2>1. /\ Sessions' = Sessions
        /\ \A j \in Sessions : StateOf(j)' = IF StateOf(j) = "RUNNING" THEN "PAUSED" ELSE StateOf(j)
      BY <1>3, PausedLifeLemma DEF GoIdle, Sessions, StateOf
  <2>2. CASE IsRunning(currentSession)
    <3>1. currentSession \in Key /\ Life[currentSession] = "RUNNING"
        BY <2>2 DEF IsRunning, Life, ControllerInv, TypeOK
    <3>2. \A j \in Sessions : StateOf(j) = "RUNNING" <=> j = currentSession
        BY <2>2 DEF ControllerInv, OneRunner, IsRunning
    <3>3. Life' = [Life EXCEPT ![currentSession] = "PAUSED"]
        BY <2>1, <3>1, <3>2 DEF Life
    <3> QED BY <3>1, <3>3, LifeStepLemma
  <2>3. CASE ~IsRunning(currentSession)
    <3>1. \A j \in Sessions : StateOf(j) # "RUNNING"
        BY <2>3 DEF ControllerInv, OneRunner, IsRunning
    <3> QED BY <2>1, <3>1, SameLifeLemma
  <2> QED BY <2>2, <2>3
<1>4. CASE StartTop(top) \/ ResumeTop(top)
    BY <1>4, RunLifeLemma DEF StartTop, ResumeTop
<1>5. CASE DropTop(top)
  <2>1. /\ top \in Key /\ top \in Sessions /\ StateOf(top) = "NOT_STARTED"
        /\ sessionMap' = [j \in Sessions \ {top} |-> PausedMap[j]]
      BY <1>5 DEF DropTop, RemoveSession, ControllerInv, TypeOK
  <2>2. /\ Sessions' = Sessions \ {top}
        /\ \A j \in Sessions' :
            StateOf(j)' = IF StateOf(j) = "RUNNING" THEN "PAUSED" ELSE StateOf(j)
      BY <2>1, PausedLifeLemma DEF Sessions, StateOf
  <2>3. Life[top] = "NOT_STARTED"
      BY <2>1 DEF Life
  <2>4. Life' = [j \in Key |-> IF j = top THEN "ABSENT"
                               ELSE IF Life[j] = "RUNNING" THEN "PAUSED" ELSE Life[j]]
      BY <2>1, <2>2 DEF Life
  <2> QED BY <2>1, <2>3, <2>4, LifeStepLemma
<1> QED BY <1>1, <1>2, <1>3, <1>4, <1>5

LEMMA NextLifeLemma ==
    ASSUME ControllerInv, [Next]_vars
    PROVE  LifeStep
<1>1. CASE UpdateCurrentSession
    BY <1>1, UpdateLifeLemma
<1>2. CASE RemoveNext
  <2>1. PICK k \in toRemove, topUids \in SUBSET RealTimeUid, reached \in SUBSET Uid :
            RemoveSession(k, sessionMap, watched, topUids, reached)
    <3>1. \A k \in toRemove : UidsOf(k) \subseteq Uid
        BY DEF ControllerInv, TypeOK, PendingAreLive, Sessions, Session, UidsOf
    <3> QED BY <1>2, <3>1 DEF RemoveNext
  <2>2. k \in Sessions
      BY DEF ControllerInv, PendingAreLive
  <2> QED BY <2>1, <2>2, LeaveLemma
<1>3. CASE TrimNext
  <2>1. PICK k \in toTrim :
            sessionMap' = [sessionMap EXCEPT ![k].allClientUids = @ \cap keepUids]
      BY <1>3 DEF TrimNext, TrimSession
  <2>2. \A j \in Sessions : sessionMap[j] \in Session
      BY DEF ControllerInv, TypeOK, Sessions
  <2>3. Sessions' = Sessions /\ \A j \in Sessions : StateOf(j)' = StateOf(j)
      BY <2>1, <2>2 DEF Sessions, StateOf, Session
  <2> QED BY <2>3, SameLifeLemma
<1>4. ASSUME NEW k \in Key, NEW c \in CallingUid, NEW u \in Uid, NEW onTop \in BOOLEAN,
             Submit(k, c, u, onTop)
      PROVE  LifeStep
  <2>1. /\ k \notin Sessions /\ Sessions' = Sessions \cup {k}
        /\ StateOf(k)' = "NOT_STARTED"
        /\ \A j \in Sessions : StateOf(j)' = StateOf(j)
      BY <1>4 DEF Submit, IsNew, Sessions, StateOf
  <2>2. Life[k] = "ABSENT" /\ Life' = [Life EXCEPT ![k] = "NOT_STARTED"]
      BY <2>1 DEF Life
  <2> QED BY <2>2, LifeStepLemma
<1>5. ASSUME NEW k \in Key, NEW u \in RealTimeUid, NEW onTop \in BOOLEAN, AddClientUid(k, u, onTop)
      PROVE  LifeStep
  <2>1. \A j \in Sessions : sessionMap[j] \in Session
      BY DEF ControllerInv, TypeOK, Sessions
  <2>2. Sessions' = Sessions /\ \A j \in Sessions : StateOf(j)' = StateOf(j)
      BY <1>5, <2>1 DEF AddClientUid, Sessions, StateOf, Session
  <2> QED BY <2>2, SameLifeLemma
<1>6. ASSUME NEW k \in Key, OnFinishOrError(k)
      PROVE  LifeStep
  <2>1. k \in Sessions
      BY <1>6 DEF OnFinishOrError, Heeded
  <2> QED BY <1>6, <2>1, LeaveLemma DEF OnFinishOrError
<1>7. ASSUME NEW k \in Key, OnResourceLost(k)
      PROVE  LifeStep
  <2>1. /\ k \in Sessions /\ StateOf(k) = "RUNNING"
        /\ sessionMap' = [sessionMap EXCEPT ![k].state = "PAUSED"]
      BY <1>7 DEF OnResourceLost, Heeded
  <2>2. sessionMap[k] \in Session
      BY <2>1 DEF ControllerInv, TypeOK, Sessions
  <2>3. /\ Sessions' = Sessions /\ StateOf(k)' = "PAUSED"
        /\ \A j \in Sessions \ {k} : StateOf(j)' = StateOf(j)
      BY <2>1, <2>2 DEF Sessions, StateOf, Session
  <2>4. Life[k] = "RUNNING" /\ Life' = [Life EXCEPT ![k] = "PAUSED"]
      BY <2>1, <2>3 DEF Life
  <2> QED BY <2>4, LifeStepLemma
<1>8. CASE OnWatchdogError
  <2>1. CASE Heeded(timedOut)
    <3>1. timedOut \in Sessions
        BY <2>1 DEF Heeded
    <3> QED BY <1>8, <2>1, <3>1, LeaveLemma DEF OnWatchdogError
  <2>2. CASE ~Heeded(timedOut)
      BY <1>8, <2>2, SameLifeLemma DEF OnWatchdogError, schedVars, Sessions, StateOf
  <2> QED BY <2>1, <2>2
<1>9. CASE UNCHANGED sessionMap
    BY <1>9, SameLifeLemma DEF Sessions, StateOf
<1>10. CASE ClientStep
  <2>1. (\E k \in Key : Cancel(k)) \/ (\E c \in Client : CancelAll(c)) => UNCHANGED sessionMap
      BY DEF Cancel, CancelAll, ThenRemove, schedVars
  <2> QED BY <1>4, <1>5, <1>9, <1>10, <2>1 DEF ClientStep
<1>11. CASE TranscoderStep
    BY <1>6, <1>7, <1>11 DEF TranscoderStep
<1>12. CASE PolicyStep
  <2>1. UNCHANGED sessionMap
      BY <1>12 DEF PolicyStep, OnTopUidsChanged, OnUidGone, ThenRemove, OnResourceAvailable,
                   OnThrottling, schedVars
  <2> QED BY <1>9, <2>1
<1>13. CASE RemovalDone \/ WatchdogTimeout \/ UNCHANGED vars
    BY <1>9, <1>13 DEF RemovalDone, WatchdogTimeout, vars, schedVars
<1> QED BY <1>1, <1>2, <1>3, <1>8, <1>10, <1>11, <1>12, <1>13
        DEF Next, LockHolderStep, WatchdogStep

(* The controller keeps the promises of SessionLifecycle: whatever clients, *)
(* policies, transcoder and watchdog do, a session arrives once, runs       *)
(* before it is ever paused, and alone.                                     *)
THEOREM LifecycleIsKept == Spec => LifecycleKept
<1>1. Init => Lifecycle!LifecycleInit
    BY DEF Init, Lifecycle!LifecycleInit, Sessions
<1>2. ControllerInv /\ [Next]_vars => [Lifecycle!LifecycleNext]_Life
    BY NextLifeLemma DEF LifeStep
<1> QED BY <1>1, <1>2, ControllerSafe, PTL
        DEF Spec, LifecycleKept, Lifecycle!LifecycleSpec, Life
=============================================================================
