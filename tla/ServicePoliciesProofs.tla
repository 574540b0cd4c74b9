------------------------ MODULE ServicePoliciesProofs ------------------------
(***************************************************************************)
(* The safety properties of ServicePolicies, for any apps and processes,   *)
(* with the three policies interleaved.                                    *)
(***************************************************************************)
EXTENDS ServicePolicies, UidListProofs, TLAPS

USE OfflineAssumption, PoliciesAssumption DEF App, TopState, BackState, GONE, UNKNOWN, Known

----------------------------------------------------------------------------
(* The uid policy *)

\* mStateUidMap[mTopUidState] are the monitored uids with the lowest state,
\* if it is known.
LEMMA TopUids ==
  ASSUME NEW S, S \subseteq App, NEW state \in [S -> Known \cup {UNKNOWN}],
         \E u \in S : state[u] # UNKNOWN
  PROVE  /\ TopUidState(state) \in Known
         /\ TopSet(state) = {u \in S : \A v \in S : state[u] <= state[v]}
         /\ TopSet(state) # {}
  <1> DEFINE IsTop(s) == /\ UidsIn(state, s) # {}
                         /\ \A r \in Known : UidsIn(state, r) # {} => s <= r
  <1>1. \E s \in Known : IsTop(s)
    <2>1. CASE UidsIn(state, 1) # {}
      BY <2>1
    <2>2. CASE UidsIn(state, 1) = {} /\ UidsIn(state, 2) # {}
      BY <2>2
    <2>3. CASE UidsIn(state, 1) = {} /\ UidsIn(state, 2) = {}
      BY <2>3 DEF UidsIn
    <2> QED
      BY <2>1, <2>2, <2>3
  <1>2. TopUidState(state) = CHOOSE s \in Known : IsTop(s)
    BY DEF TopUidState
  <1>3. TopUidState(state) \in Known /\ IsTop(TopUidState(state))
    <2> HIDE DEF IsTop
    <2> QED
      BY <1>1, <1>2
  <1>4. \A v \in S : TopUidState(state) <= state[v]
    BY <1>3 DEF UidsIn
  <1> QED
    BY <1>3, <1>4 DEF TopSet, UidsIn

\* If no state is known, every monitored uid is compared.
LEMMA UnknownUids ==
  ASSUME NEW S, NEW state \in [S -> Known \cup {UNKNOWN}],
         \A u \in S : state[u] = UNKNOWN
  PROVE  TopUidState(state) = UNKNOWN /\ TopSet(state) = S
  BY DEF TopUidState, TopSet, UidsIn

\* moveUidsToTop_l: if some listed uid is to be moved, the first one is of them.
LEMMA FrontIsMoved ==
  ASSUME NEW l, IsUidList(l), NEW uids, NEW preserve \in BOOLEAN,
         NEW w \in Elems(l), w \in uids, w # OfflineUid,
         NEW u \in Uid, IsFront(MoveUidsToTop(l, uids, preserve), u)
  PROVE  u \in uids
  <1> DEFINE m == MoveUidsToTop(l, uids, preserve)
  <1>1. IsUidList(m) /\ Elems(m) = Elems(l)
    BY MoveLemma
  <1>2. u \in Elems(l) /\ <<u, w>> \in m
    BY <1>1 DEF IsFront
  <1>3. ASSUME u \notin uids PROVE FALSE
    <2>1. <<w, u>> \in m
      BY <1>2, <1>3 DEF MoveUidsToTop
    <2>2. u = w
      BY <1>1, <1>2, <2>1 DEF IsUidList
    <2> QED
      BY <1>3, <2>2
  <1> QED
    BY <1>3
----------------------------------------------------------------------------
(* The thermal policy *)

\* What onStatusChange has not handled ends with the present status, what it
\* has still to report is the status it has recorded, and the controller has
\* that status or did not hear of it.
ThermalInv ==
  /\ hot \in BOOLEAN /\ hotEvents \in Seq(BOOLEAN)
  /\ isThrottling \in BOOLEAN /\ thermalThrottling \in BOOLEAN
  /\ setup \in {"read", "controller", "callback", "ready"}
  /\ hotNotice \in {"none", "started", "stopped"}
  /\ setup # "read" /\ hotEvents = <<>> => isThrottling = hot
  /\ hotEvents # <<>> => hotEvents[Len(hotEvents)] = hot
  /\ hotNotice # "none" => isThrottling = (hotNotice = "started")
  /\ setup = "read" => hotNotice = "none"
  /\ setup \in {"callback", "ready"} /\ hotNotice = "none" =>
       thermalThrottling = isThrottling \/ missed
  /\ callbackSet = (setup = "ready")

thermalParts == <<hot, hotEvents, thermalVars, setup, thermalThrottling, missed>>

LEMMA ThermalStep ==
  ASSUME ThermalInv, [Next]_vars
  PROVE  ThermalInv'
  <1>1. CASE ReadStatus
    BY <1>1 DEF ThermalInv, ReadStatus, deviceVars
  <1>2. CASE MakeController
    BY <1>2 DEF ThermalInv, MakeController, deviceVars, thermalVars
  <1>3. CASE SetCallback
    BY <1>3 DEF ThermalInv, SetCallback, deviceVars
  <1>4. CASE DeviceHeats
    BY <1>4 DEF ThermalInv, DeviceHeats, thermalVars
  <1>5. CASE OnStatusChange
    <2> DEFINE h == Head(hotEvents)
    <2>1. /\ hotEvents # <<>> /\ hotNotice = "none" /\ setup # "read"
          /\ hotEvents' = Tail(hotEvents)
          /\ UNCHANGED <<hot, callbackSet, setup, thermalThrottling, missed>>
      BY <1>5 DEF OnStatusChange
    <2>2. /\ isThrottling' = h
          /\ hotNotice' = IF h = isThrottling THEN "none" ELSE IF h THEN "started" ELSE "stopped"
      BY <1>5, <2>1 DEF OnStatusChange, StatusNew
    <2>3. /\ Len(hotEvents) \in Nat \ {0} /\ h = hotEvents[1] /\ h \in BOOLEAN
          /\ hotEvents' \in Seq(BOOLEAN) /\ Len(hotEvents') = Len(hotEvents) - 1
          /\ \A i \in 1..Len(hotEvents') : hotEvents'[i] = hotEvents[i + 1]
      BY <2>1 DEF ThermalInv
    <2>4. ASSUME hotEvents' = <<>> PROVE h = hot
      <3>1. Len(hotEvents) = 1
        BY <2>3, <2>4
      <3>2. hotEvents[Len(hotEvents)] = hot
        BY <2>1 DEF ThermalInv
      <3> QED
        BY <2>3, <3>1, <3>2
    <2>5. hotEvents' # <<>> => hotEvents'[Len(hotEvents')] = hot
      BY <2>1, <2>3 DEF ThermalInv
    <2> HIDE DEF h
    <2> QED
      BY <2>1, <2>2, <2>3, <2>4, <2>5 DEF ThermalInv
  <1>6. CASE ReportThrottling
    BY <1>6 DEF ThermalInv, ReportThrottling, deviceVars
  <1>7. CASE UidNext
    <2>1. UNCHANGED thermalParts
      BY <1>7 DEF UidNext, UidStep, OnUidStateChanged, ReportTopUids, ReportGone,
           RemovalAsksTop, ArrivalReadsState, ArrivalAsksTop, UidMoves, SessionArrives,
           SessionJoins, SessionLeaves, thermalParts, thermalVars, deviceVars
    <2> QED
      BY <2>1 DEF ThermalInv, thermalParts, thermalVars
  <1>8. CASE ResourceNext
    <2>1. UNCHANGED thermalParts
      BY <1>8 DEF ResourceNext, LoseResource, CodecIsFree, MarkResourceLost, ReportFree,
           ObserverDies, thermalParts, thermalVars, deviceVars
    <2> QED
      BY <2>1 DEF ThermalInv, thermalParts, thermalVars
  <1>9. CASE UNCHANGED vars
    BY <1>9 DEF ThermalInv, vars, thermalVars, deviceVars
  <1> QED
    BY <1>1, <1>2, <1>3, <1>4, <1>5, <1>6, <1>7, <1>8, <1>9 DEF Next, Setup, ThermalNext

\* Once all changes of the thermal status are handled, the controller throttles
\* exactly when the device asks for it, unless onStatusChange found no callback.
THEOREM ThrottlingReachesController == Spec => []ThrottlingIsHeard
  <1>1. Init => ThermalInv
    BY <<>> \in Seq(BOOLEAN) DEF Init, ThermalInv
  <1>2. ThermalInv /\ [Next]_vars => ThermalInv'
    BY ThermalStep
  <1>3. ThermalInv => ThrottlingIsHeard
    BY DEF ThermalInv, ThrottlingIsHeard
  <1> QED
    BY <1>1, <1>2, <1>3, PTL DEF Spec

----------------------------------------------------------------------------
(* The resource policy *)

\* setPidResourceLost comes before mResourceLost is set, and what it starts ends
\* with the report to the controller.
ResourceInv ==
  /\ resourceLost \/ mLock = "losing" =>
       (resourceLostPid # NoPid \/ freeNotice <=> lostPid # NoPid)
  /\ resourceLostPid # NoPid \/ freeNotice => resourceLost \/ mLock = "losing"
  /\ freeNotice => resourceLostPid = NoPid

LEMMA ResourceStep ==
  ASSUME ResourceInv, [Next]_vars
  PROVE  ResourceInv'
  <1>1. ASSUME NEW p \in Pids \cup {NoPid}, LoseResource(p) PROVE ResourceInv'
    BY <1>1 DEF ResourceInv, LoseResource
  <1>2. ASSUME NEW p \in Pids, CodecIsFree(p) PROVE ResourceInv'
    BY <1>2 DEF ResourceInv, CodecIsFree, PidAfterFree
  <1>3. CASE MarkResourceLost \/ ReportFree \/ ObserverDies
    BY <1>3 DEF ResourceInv, MarkResourceLost, ReportFree, ObserverDies, resourceVars
  <1>4. CASE Setup \/ ThermalNext
    <2>1. UNCHANGED <<resourceLost, resourceVars, mLock>>
      BY <1>4 DEF Setup, ReadStatus, MakeController, SetCallback, ThermalNext, DeviceHeats,
           OnStatusChange, ReportThrottling
    <2> QED
      BY <2>1 DEF ResourceInv, resourceVars
  <1>5. CASE UidNext
    <2>1. UNCHANGED <<resourceLost, resourceVars>> /\ (mLock' = "losing" <=> mLock = "losing")
      BY <1>5 DEF UidNext, UidStep, OnUidStateChanged, ReportTopUids, ReportGone,
           RemovalAsksTop, ArrivalReadsState, ArrivalAsksTop, UidMoves, SessionArrives,
           SessionJoins, SessionLeaves, RemoveUids
    <2> QED
      BY <2>1 DEF ResourceInv, resourceVars
  <1>6. CASE UNCHANGED vars
    BY <1>6 DEF ResourceInv, vars, resourceVars
  <1> QED
    BY <1>1, <1>2, <1>3, <1>4, <1>5, <1>6 DEF Next, ResourceNext

\* While the controller waits for a codec the resource policy waits for one too
\* or is about to report one, whichever way onResourceLost and onResourceAvailable
\* interleave, exactly if the session that lost its codec named its process: with
\* USE_CALLING_PID nobody watches.
THEOREM LostIsAlwaysWatched == Spec => []LostIsWatched
  <1>1. Init => ResourceInv
    BY DEF Init, ResourceInv
  <1>2. ResourceInv /\ [Next]_vars => ResourceInv'
    BY ResourceStep
  <1>3. ResourceInv => LostIsWatched
    BY DEF ResourceInv, LostIsWatched
  <1> QED
    BY <1>1, <1>2, <1>3, PTL DEF Spec

----------------------------------------------------------------------------
(* The uid policy and the order of the uids *)

\* The controller lists the uids that the policy watches, but for the one that
\* is being added: the policy watches it before it is inserted.
UidInv ==
  /\ Monitored \subseteq App
  /\ uidState \in [Monitored -> Known \cup {UNKNOWN}]
  /\ importance \in [App -> Known]
  /\ uidEvents \in Seq(App \X Known)
  /\ IsUidList(uidSortedList)
  /\ mLock \in {"free", "removing", "losing"} \cup App
  /\ mLock \notin App => Monitored = Elems(uidSortedList) \ {OfflineUid}
  /\ mLock \in App => /\ mLock \notin Elems(uidSortedList)
                      /\ Monitored \ {mLock} = Elems(uidSortedList) \ {OfflineUid}

uidParts == <<uidState, importance, uidEvents, uidSortedList>>

LEMMA RemoveUidsLemma ==
  ASSUME UidInv, mLock = "free", NEW uids, uids \subseteq Monitored, RemoveUids(uids),
         UNCHANGED <<importance, uidEvents>>
  PROVE  UidInv'
  <1>1. OfflineUid \notin uids
    BY DEF UidInv
  <1>2. /\ IsUidList(uidSortedList')
        /\ Elems(uidSortedList') = Elems(uidSortedList) \ uids
    BY <1>1, EraseLemma DEF UidInv, RemoveUids
  <1>3. /\ Monitored' = Monitored \ uids
        /\ uidState' \in [Monitored' -> Known \cup {UNKNOWN}]
    BY DEF UidInv, RemoveUids, Monitored
  <1>4. mLock' = "removing" /\ mLock' \notin App /\ mLock \notin App
    BY DEF RemoveUids
  <1> QED
    BY <1>1, <1>2, <1>3, <1>4 DEF UidInv

LEMMA UidStepLemma ==
  ASSUME UidInv, [Next]_vars
  PROVE  UidInv'
  <1>1. CASE OnUidStateChanged
    <2>1. /\ uidEvents # <<>> /\ uidEvents' = Tail(uidEvents)
          /\ UNCHANGED <<importance, uidSortedList, mLock>>
      BY <1>1 DEF OnUidStateChanged
    <2>2. Head(uidEvents) \in App \X Known /\ uidEvents' \in Seq(App \X Known)
      BY <2>1 DEF UidInv
    <2>3. /\ Monitored' = Monitored
          /\ uidState' \in [Monitored -> Known \cup {UNKNOWN}]
      <3>1. CASE uidState' = uidState
        BY <3>1 DEF UidInv, Monitored
      <3>2. CASE uidState' = [uidState EXCEPT ![Head(uidEvents)[1]] = Head(uidEvents)[2]]
        BY <2>2, <3>2 DEF UidInv, Monitored
      <3> QED
        BY <1>1, <3>1, <3>2 DEF OnUidStateChanged, uidVars
    <2> QED
      BY <2>1, <2>2, <2>3 DEF UidInv
  <1>2. CASE ReportTopUids
    <2>1. UNCHANGED <<uidState, importance, uidEvents, mLock>>
      BY <1>2 DEF ReportTopUids, deviceVars
    <2>2. /\ IsUidList(uidSortedList')
          /\ Elems(uidSortedList') = Elems(uidSortedList)
      BY <1>2, MoveLemma DEF ReportTopUids, UidInv
    <2> QED
      BY <2>1, <2>2 DEF UidInv, Monitored
  <1>3. CASE ReportGone
    <2>1. mLock = "free" /\ UNCHANGED <<importance, uidEvents>>
      BY <1>3 DEF ReportGone, deviceVars
    <2>2. CASE goneNotice \in Monitored
      <3>1. RemoveUids({goneNotice}) /\ {goneNotice} \subseteq Monitored
        BY <1>3, <2>2 DEF ReportGone
      <3> QED
        BY <2>1, <3>1, RemoveUidsLemma
    <2>3. CASE goneNotice \notin Monitored
      BY <1>3, <2>1, <2>3 DEF ReportGone, UidInv, Monitored
    <2> QED
      BY <2>2, <2>3
  <1>4. CASE RemovalAsksTop
    <2>1. /\ UNCHANGED <<uidState, importance, uidEvents>>
          /\ mLock = "removing" /\ mLock' = "free" /\ mLock \notin App /\ mLock' \notin App
      BY <1>4 DEF RemovalAsksTop, deviceVars, uidVars
    <2>2. /\ IsUidList(uidSortedList')
          /\ Elems(uidSortedList') = Elems(uidSortedList)
      BY <1>4, MoveLemma DEF RemovalAsksTop, UidInv
    <2> QED
      BY <2>1, <2>2 DEF UidInv, Monitored
  <1>5. CASE ArrivalAsksTop
    <2>1. /\ UNCHANGED <<uidState, importance, uidEvents>>
          /\ mLock \in App /\ mLock \in Monitored /\ mLock' = "free" /\ mLock' \notin App
      BY <1>5 DEF ArrivalAsksTop, Registering, deviceVars, uidVars
    <2>2. /\ IsUidList(uidSortedList')
          /\ Elems(uidSortedList') = Elems(uidSortedList) \cup {mLock}
      BY <1>5, <2>1, PushFrontLemma, InsertLemma DEF ArrivalAsksTop, UidInv
    <2>3. Monitored' = Monitored
      BY <2>1 DEF Monitored
    <2>4. Monitored = Elems(uidSortedList') \ {OfflineUid}
      BY <2>1, <2>2 DEF UidInv
    <2> QED
      BY <2>1, <2>2, <2>3, <2>4 DEF UidInv
  <1>6. ASSUME NEW u \in App, NEW s \in Known, UidMoves(u, s) PROVE UidInv'
    <2>1. uidEvents' \in Seq(App \X Known) /\ importance' \in [App -> Known]
      BY <1>6 DEF UidMoves, UidInv
    <2> QED
      BY <1>6, <2>1 DEF UidMoves, UidInv, uidVars, Monitored
  <1>7. ASSUME NEW u \in App, NEW active \in BOOLEAN, SessionArrives(u, active)
        PROVE  UidInv'
    <2>1. /\ mLock = "free" /\ mLock' = u /\ mLock \notin App /\ u \notin Monitored
          /\ UNCHANGED <<importance, uidEvents, uidSortedList>>
      BY <1>7 DEF SessionArrives
    <2>2. CASE active
      <3>1. uidState' = uidState
        BY <1>7, <2>2 DEF SessionArrives
      <3> QED
        BY <2>1, <3>1 DEF UidInv, Monitored
    <2>3. CASE ~active
      <3>1. /\ Monitored' = Monitored \cup {u}
            /\ uidState' \in [Monitored' -> Known \cup {UNKNOWN}]
        BY <1>7, <2>3 DEF SessionArrives, StatesWithUid, UidInv, Monitored
      <3> QED
        BY <2>1, <3>1 DEF UidInv
    <2> QED
      BY <2>2, <2>3
  <1>8. ASSUME NEW u \in App, SessionJoins(u) PROVE UidInv'
    <2>1. /\ mLock = "free" /\ mLock \notin App /\ u \in Monitored
          /\ UNCHANGED <<uidState, importance, uidEvents, mLock>>
      BY <1>8 DEF SessionJoins, deviceVars, uidVars
    <2> DEFINE m == EraseAll(uidSortedList, {u})
    <2>2. IsUidList(m) /\ Elems(m) = Elems(uidSortedList) \ {u}
      BY EraseLemma DEF UidInv
    <2>3. uidSortedList' = PushFront(m, u)
      BY <1>8 DEF SessionJoins
    <2>4. /\ IsUidList(uidSortedList')
          /\ Elems(uidSortedList') = Elems(uidSortedList)
      <3> HIDE DEF m
      <3>1. u \notin Elems(m) /\ u \in Uid /\ u \in Elems(uidSortedList)
        BY <2>1, <2>2 DEF UidInv
      <3> QED
        BY <2>2, <2>3, <3>1, PushFrontLemma
    <2> QED
      BY <2>1, <2>4 DEF UidInv, Monitored
  <1>9. ASSUME NEW uids \in SUBSET App, SessionLeaves(uids) PROVE UidInv'
    BY <1>9, RemoveUidsLemma DEF SessionLeaves
  <1>10. CASE Setup \/ ThermalNext
    <2>1. UNCHANGED <<uidParts, mLock>>
      BY <1>10 DEF Setup, ReadStatus, MakeController, SetCallback, ThermalNext, DeviceHeats,
           OnStatusChange, ReportThrottling, uidParts, uidVars, deviceVars
    <2> QED
      BY <2>1 DEF UidInv, uidParts, Monitored
  <1>11. CASE ResourceNext
    <2>1. UNCHANGED uidParts /\ mLock' \in {"free", "losing", mLock}
          /\ (mLock' # mLock => mLock \notin App)
      BY <1>11 DEF ResourceNext, LoseResource, CodecIsFree, MarkResourceLost, ReportFree,
           ObserverDies, uidParts, uidVars, deviceVars
    <2> QED
      BY <2>1 DEF UidInv, uidParts, Monitored
  <1>12. CASE ArrivalReadsState
    <2>1. /\ mLock \in App /\ mLock \notin Monitored
          /\ UNCHANGED <<mLock, importance, uidEvents, uidSortedList>>
      BY <1>12 DEF ArrivalReadsState, Registering, deviceVars
    <2>2. /\ Monitored' = Monitored \cup {mLock}
          /\ uidState' \in [Monitored' -> Known \cup {UNKNOWN}]
      BY <1>12, <2>1 DEF ArrivalReadsState, StatesWithUid, UidInv, Monitored
    <2> QED
      BY <2>1, <2>2 DEF UidInv
  <1>13. CASE UNCHANGED vars
    BY <1>13 DEF vars, UidInv, deviceVars, uidVars, Monitored
  <1> QED
    BY <1>1, <1>2, <1>3, <1>4, <1>5, <1>6, <1>7, <1>8, <1>9, <1>10, <1>11, <1>12, <1>13
       DEF Next, UidNext, UidStep

LEMMA UidInvHolds == Spec => []UidInv
  <1>1. Init => UidInv
    <2> SUFFICES ASSUME Init PROVE UidInv
      OBVIOUS
    <2>1. Monitored = {} /\ uidState \in [Monitored -> Known \cup {UNKNOWN}]
      BY DEF Init, Monitored
    <2>2. Elems(uidSortedList) = {OfflineUid} /\ IsUidList(uidSortedList)
      BY DEF Init, Elems, IsUidList
    <2>3. mLock = "free" /\ mLock \notin App
      BY DEF Init
    <2>4. importance \in [App -> Known] /\ uidEvents \in Seq(App \X Known)
      BY DEF Init
    <2> QED
      BY <2>1, <2>2, <2>3, <2>4 DEF UidInv
  <1>2. UidInv /\ [Next]_vars => UidInv'
    BY UidStepLemma
  <1> QED
    BY <1>1, <1>2, PTL DEF Spec

\* The controller and the uid policy watch the same uids whenever mLock is free.
THEOREM SameUidsAreWatched == Spec => []MonitoredAreListed
  <1>1. UidInv => MonitoredAreListed
    BY DEF UidInv, MonitoredAreListed
  <1> QED
    BY <1>1, UidInvHolds, PTL

----------------------------------------------------------------------------
(* The states of the uids *)

\* The last change of a uid that is on its way is to its present importance;
\* if none is, the policy has that importance or does not know the state.
EventsInv ==
  /\ \A i \in 1..Len(uidEvents) :
       (\A j \in 1..Len(uidEvents) : j > i => uidEvents[j][1] # uidEvents[i][1]) =>
         uidEvents[i][2] = importance[uidEvents[i][1]]
  /\ \A u \in Monitored :
       (\A i \in 1..Len(uidEvents) : uidEvents[i][1] # u) =>
         uidState[u] \in {importance[u], UNKNOWN}

LEMMA EventsStep ==
  ASSUME UidInv, EventsInv, [Next]_vars
  PROVE  EventsInv'
  <1>1. CASE OnUidStateChanged
    <2> DEFINE u == Head(uidEvents)[1]
               s == Head(uidEvents)[2]
    <2>1. /\ uidEvents # <<>> /\ uidEvents' = Tail(uidEvents)
          /\ importance' = importance
      BY <1>1 DEF OnUidStateChanged
    <2>2. /\ u \in App /\ s \in Known /\ Len(uidEvents) \in Nat \ {0}
          /\ u = uidEvents[1][1] /\ s = uidEvents[1][2]
          /\ Len(uidEvents') = Len(uidEvents) - 1
          /\ \A i \in 1..Len(uidEvents') : uidEvents'[i] = uidEvents[i + 1]
      BY <2>1 DEF UidInv
    <2>3. /\ Monitored' = Monitored
          /\ \A v \in Monitored : uidState'[v] = IF v = u THEN s ELSE uidState[v]
      <3>1. CASE Reportable(u, s)
        BY <1>1, <3>1 DEF OnUidStateChanged, Monitored, UidInv
      <3>2. CASE ~Reportable(u, s)
        BY <1>1, <3>2 DEF OnUidStateChanged, Monitored, Reportable, uidVars
      <3> QED
        BY <3>1, <3>2
    <2> HIDE DEF u, s
    <2>4. ASSUME NEW i \in 1..Len(uidEvents'),
                 \A j \in 1..Len(uidEvents') : j > i => uidEvents'[j][1] # uidEvents'[i][1]
          PROVE  uidEvents'[i][2] = importance[uidEvents'[i][1]]
      <3>1. i + 1 \in 1..Len(uidEvents) /\ uidEvents'[i] = uidEvents[i + 1]
        BY <2>2
      <3>2. ASSUME NEW j \in 1..Len(uidEvents), j > i + 1
            PROVE  uidEvents[j][1] # uidEvents[i + 1][1]
        <4>1. j - 1 \in 1..Len(uidEvents') /\ j - 1 > i /\ uidEvents'[j - 1] = uidEvents[j]
          BY <2>2, <3>2
        <4> QED
          BY <2>4, <3>1, <4>1
      <3> QED
        BY <3>1, <3>2 DEF EventsInv
    <2>5. ASSUME NEW v \in Monitored, \A i \in 1..Len(uidEvents') : uidEvents'[i][1] # v
          PROVE  uidState'[v] \in {importance[v], UNKNOWN}
      <3>1. ASSUME NEW j \in 1..Len(uidEvents), j > 1 PROVE uidEvents[j][1] # v
        <4>1. j - 1 \in 1..Len(uidEvents') /\ uidEvents'[j - 1] = uidEvents[j]
          BY <2>2, <3>1
        <4> QED
          BY <2>5, <4>1
      <3>2. CASE v = u
        <4>1. 1 \in 1..Len(uidEvents) /\ s = importance[u]
          BY <2>2, <3>1, <3>2 DEF EventsInv
        <4> QED
          BY <2>3, <3>2, <4>1
      <3>3. CASE v # u
        <4>1. \A i \in 1..Len(uidEvents) : uidEvents[i][1] # v
          BY <2>2, <3>1, <3>3
        <4> QED
          BY <2>3, <3>3, <4>1 DEF EventsInv
      <3> QED
        BY <3>2, <3>3
    <2> QED
      BY <2>1, <2>3, <2>4, <2>5 DEF EventsInv
  <1>2. ASSUME NEW u \in App, NEW s \in Known, UidMoves(u, s) PROVE EventsInv'
    <2> DEFINE n == Len(uidEvents)
    <2>1. /\ importance' = [importance EXCEPT ![u] = s]
          /\ uidEvents' = Append(uidEvents, <<u, s>>)
          /\ uidState' = uidState
      BY <1>2 DEF UidMoves, uidVars
    <2>2. /\ n \in Nat /\ Len(uidEvents') = n + 1 /\ uidEvents'[n + 1] = <<u, s>>
          /\ \A i \in 1..n : uidEvents'[i] = uidEvents[i] /\ uidEvents[i] \in App \X Known
      BY <2>1 DEF UidInv
    <2>3. importance'[u] = s /\ \A v \in App : v # u => importance'[v] = importance[v]
      BY <2>1 DEF UidInv
    <2> HIDE DEF n
    <2>4. ASSUME NEW i \in 1..n + 1,
                 \A j \in 1..n + 1 : j > i => uidEvents'[j][1] # uidEvents'[i][1]
          PROVE  uidEvents'[i][2] = importance'[uidEvents'[i][1]]
      <3>1. CASE i = n + 1
        BY <2>2, <2>3, <3>1
      <3>2. CASE i \in 1..n
        <4>1. uidEvents'[i] = uidEvents[i] /\ uidEvents[i][1] \in App /\ uidEvents[i][1] # u
          BY <2>2, <2>4, <3>2
        <4>2. \A j \in 1..n : j > i => uidEvents[j][1] # uidEvents[i][1]
          BY <2>2, <2>4, <3>2
        <4>3. uidEvents[i][2] = importance[uidEvents[i][1]]
          BY <3>2, <4>2 DEF EventsInv, n
        <4> QED
          BY <2>3, <4>1, <4>3
      <3> QED
        BY <2>2, <3>1, <3>2
    <2>5. ASSUME NEW v \in Monitored, \A i \in 1..n + 1 : uidEvents'[i][1] # v
          PROVE  uidState[v] \in {importance'[v], UNKNOWN}
      <3>1. v # u /\ v \in App
        BY <2>2, <2>5 DEF UidInv
      <3>2. \A i \in 1..n : uidEvents[i][1] # v
        BY <2>2, <2>5
      <3> QED
        BY <2>3, <3>1, <3>2 DEF EventsInv, n
    <2>6. \A i \in 1..Len(uidEvents') :
            (\A j \in 1..Len(uidEvents') : j > i => uidEvents'[j][1] # uidEvents'[i][1]) =>
              uidEvents'[i][2] = importance'[uidEvents'[i][1]]
      BY <2>2, <2>4
    <2>7. \A v \in Monitored' :
            (\A i \in 1..Len(uidEvents') : uidEvents'[i][1] # v) =>
              uidState'[v] \in {importance'[v], UNKNOWN}
      BY <2>1, <2>2, <2>5 DEF Monitored
    <2> QED
      BY <2>6, <2>7 DEF EventsInv
  <1>3. CASE /\ UNCHANGED <<importance, uidEvents>>
             /\ \A v \in Monitored' :
                  \/ v \in Monitored /\ uidState'[v] = uidState[v]
                  \/ uidState'[v] \in {importance[v], UNKNOWN}
    BY <1>3 DEF EventsInv
  <1>4. CASE ReportTopUids \/ RemovalAsksTop \/ ArrivalAsksTop
    BY <1>3, <1>4 DEF ReportTopUids, RemovalAsksTop, ArrivalAsksTop, deviceVars, uidVars,
         Monitored
  <1>5. CASE ReportGone
    BY <1>3, <1>5 DEF ReportGone, RemoveUids, deviceVars, Monitored
  <1>6. ASSUME NEW u \in App, NEW active \in BOOLEAN, SessionArrives(u, active)
        PROVE  EventsInv'
    <2>1. CASE active
      BY <1>3, <1>6, <2>1 DEF SessionArrives, Monitored
    <2>2. CASE ~active
      BY <1>3, <1>6, <2>2 DEF SessionArrives, StatesWithUid, Monitored
    <2> QED
      BY <2>1, <2>2
  <1>7. ASSUME NEW u \in App, SessionJoins(u) PROVE EventsInv'
    BY <1>3, <1>7 DEF SessionJoins, deviceVars, uidVars, Monitored
  <1>8. ASSUME NEW uids \in SUBSET App, SessionLeaves(uids) PROVE EventsInv'
    BY <1>3, <1>8 DEF SessionLeaves, RemoveUids, Monitored
  <1>9. CASE Setup \/ ThermalNext
    BY <1>3, <1>9 DEF Setup, ReadStatus, MakeController, SetCallback, ThermalNext,
         DeviceHeats, OnStatusChange, ReportThrottling, uidVars, deviceVars, Monitored
  <1>10. CASE ResourceNext
    BY <1>3, <1>10 DEF ResourceNext, LoseResource, CodecIsFree, MarkResourceLost, ReportFree,
         ObserverDies, uidVars, deviceVars, Monitored
  <1>11. CASE ArrivalReadsState
    BY <1>3, <1>11 DEF ArrivalReadsState, StatesWithUid, deviceVars, Monitored
  <1>12. CASE UNCHANGED vars
    BY <1>3, <1>12 DEF vars, deviceVars, uidVars, Monitored
  <1> QED
    BY <1>1, <1>2, <1>4, <1>5, <1>6, <1>7, <1>8, <1>9, <1>10, <1>11, <1>12
       DEF Next, UidNext, UidStep

\* Once all changes are handled, the policy has the state of each uid it watches
\* or does not know it, though registerMonitorUid reads the state while changes
\* of it are on their way to onUidStateChanged.
THEOREM StatesAreRecovered == Spec => []StatesConverge
  <1>1. Init => EventsInv
    <2> SUFFICES ASSUME Init PROVE EventsInv
      OBVIOUS
    <2>1. Monitored = {} /\ Len(uidEvents) = 0
      BY DEF Init, Monitored
    <2> QED
      BY <2>1 DEF EventsInv
  <1>2. UidInv /\ EventsInv /\ [Next]_vars => EventsInv'
    BY EventsStep
  <1>3. EventsInv => StatesConverge
    <2> SUFFICES ASSUME EventsInv, uidEvents = <<>>, NEW u \in Monitored
                 PROVE  uidState[u] \in {importance[u], UNKNOWN}
      BY DEF StatesConverge
    <2>1. Len(uidEvents) = 0
      OBVIOUS
    <2> QED
      BY <2>1 DEF EventsInv
  <1> QED
    BY <1>1, <1>2, <1>3, UidInvHolds, PTL DEF Spec
----------------------------------------------------------------------------
(* The uid at the front *)

\* What getTopUids returns for the states of the uids.
Tops(state) == IF TopUidState(state) = UNKNOWN THEN {} ELSE TopSet(state)

LEMMA TopsLemma ==
  ASSUME NEW S, S \subseteq App, NEW state \in [S -> Known \cup {UNKNOWN}]
  PROVE  Tops(state) = {u \in S : state[u] # UNKNOWN /\ \A v \in S : state[u] <= state[v]}
  <1>1. CASE \A u \in S : state[u] = UNKNOWN
    <2>1. TopUidState(state) = UNKNOWN
      BY <1>1, UnknownUids
    <2> QED
      BY <1>1, <2>1 DEF Tops
  <1>2. CASE \E u \in S : state[u] # UNKNOWN
    <2>1. /\ TopUidState(state) \in Known
          /\ TopSet(state) = {u \in S : \A v \in S : state[u] <= state[v]}
      BY <1>2, TopUids
    <2>2. Tops(state) = TopSet(state)
      BY <2>1 DEF Tops
    <2>3. PICK w \in S : state[w] \in Known
      BY <1>2
    <2>4. \A u \in S : (\A v \in S : state[u] <= state[v]) => state[u] # UNKNOWN
      BY <2>3
    <2> QED
      BY <2>1, <2>2, <2>4
  <1> QED
    BY <1>1, <1>2

\* A uid that is not on top when it is added leaves the top uids as they were.
LEMMA ArrivalLeavesTops ==
  ASSUME NEW S, S \subseteq App, NEW state \in [S -> Known \cup {UNKNOWN}],
         NEW u \in App, u \notin S, NEW s \in Known \cup {UNKNOWN},
         NEW more, more = [v \in S \cup {u} |-> IF v # u THEN state[v] ELSE s],
         u \notin Tops(more)
  PROVE  Tops(more) = Tops(state)
  <1>1. /\ S \cup {u} \subseteq App
        /\ more \in [S \cup {u} -> Known \cup {UNKNOWN}]
        /\ more[u] = s /\ \A v \in S : more[v] = state[v]
    OBVIOUS
  <1>2. Tops(more) = {w \in S \cup {u} : /\ more[w] # UNKNOWN
                                        /\ \A v \in S \cup {u} : more[w] <= more[v]}
    BY <1>1, TopsLemma
  <1>3. Tops(state) = {w \in S : state[w] # UNKNOWN /\ \A v \in S : state[w] <= state[v]}
    BY TopsLemma
  <1>4. ASSUME NEW w \in Tops(state) PROVE more[w] <= s
    <2>1. CASE s = UNKNOWN
      BY <1>1, <1>3, <2>1
    <2>2. CASE s # UNKNOWN
      <3>1. PICK v \in S : s > state[v]
        BY <1>1, <1>2, <2>2
      <3> QED
        BY <1>1, <1>3, <3>1
    <2> QED
      BY <2>1, <2>2
  <1> QED
    BY <1>1, <1>2, <1>3, <1>4

FrontAmong(T) == \A u \in Uid : IsFront(uidSortedList, u) => u \in T

\* As FrontIsTop, and while a uid is being added it, or the present front, is
\* on top.
FrontInv ==
  topNotice = {} /\ ~stale /\ GetTopUids # {} =>
    /\ mLock \in {"free", "losing"} => FrontAmong(GetTopUids)
    /\ mLock \in App => mLock \in GetTopUids \/ FrontAmong(GetTopUids)

LEMMA GetTopUidsLemma ==
  ASSUME UidInv
  PROVE  /\ GetTopUids = Tops(uidState)
         /\ GetTopUids \subseteq Monitored
         /\ \A u \in App : IsUidOnTop(u) <=> u \in GetTopUids
  <1>1. Tops(uidState) \subseteq Monitored
    <2>1. Monitored \subseteq App /\ uidState \in [Monitored -> Known \cup {UNKNOWN}]
      BY DEF UidInv
    <2>2. Tops(uidState) = {u \in Monitored : /\ uidState[u] # UNKNOWN
                                             /\ \A v \in Monitored : uidState[u] <= uidState[v]}
      BY ONLY <2>1, TopsLemma
    <2> QED
      BY <2>2
  <1> QED
    BY <1>1 DEF GetTopUids, Tops, IsUidOnTop, TopSet, UidsIn, Monitored

\* A front that is not an app stands alone.
LEMMA OfflineFront ==
  ASSUME NEW l, IsUidList(l), IsFront(l, OfflineUid)
  PROVE  Elems(l) = {OfflineUid}
  <1>1. OfflineUid \in Elems(l)
    BY DEF IsFront
  <1>2. ASSUME NEW v \in Elems(l) PROVE v = OfflineUid
    BY <1>1 DEF IsUidList, IsFront
  <1> QED
    BY <1>1, <1>2

\* registerMonitorUid leaves the top uids as they were, but for the new one.
LEMMA StateAddedLemma ==
  ASSUME UidInv, NEW u \in App, u \notin Monitored, NEW s \in Known \cup {UNKNOWN},
         uidState' = StatesWithUid(u, s)
  PROVE  u \notin GetTopUids' => GetTopUids' = GetTopUids
  <1>1. GetTopUids = Tops(uidState) /\ GetTopUids' = Tops(uidState')
    BY DEF GetTopUids, Tops
  <1>2. Monitored \subseteq App /\ uidState \in [Monitored -> Known \cup {UNKNOWN}]
    BY DEF UidInv
  <1>3. uidState' = [v \in Monitored \cup {u} |-> IF v # u THEN uidState[v] ELSE s]
    BY DEF StatesWithUid
  <1>4. u \notin Tops(uidState') => Tops(uidState') = Tops(uidState)
    BY <1>2, <1>3, ArrivalLeavesTops
  <1> QED
    BY <1>1, <1>4

LEMMA FrontStep ==
  ASSUME UidInv, UidInv', FrontInv, [Next]_vars
  PROVE  FrontInv'
  <1>0. GetTopUids \subseteq Monitored /\ GetTopUids' \subseteq Monitored'
    <2>1. GetTopUids \subseteq Monitored
      BY GetTopUidsLemma
    <2>2. (UidInv => GetTopUids \subseteq Monitored)'
      BY GetTopUidsLemma, PTL
    <2> QED
      BY <2>1, <2>2
  <1>1. CASE OnUidStateChanged
    <2> SUFFICES ASSUME topNotice' = {}, ~stale', GetTopUids' # {}
                 PROVE  /\ mLock' \in {"free", "losing"} => FrontAmong(GetTopUids)'
                        /\ mLock' \in App => mLock' \in GetTopUids' \/ FrontAmong(GetTopUids)'
      BY DEF FrontInv
    <2> DEFINE u == Head(uidEvents)[1]
               s == Head(uidEvents)[2]
               moved == [uidState EXCEPT ![u] = s]
    <2>1. /\ topNotice = {} /\ uidEvents # <<>> /\ UNCHANGED <<stale, mLock, uidSortedList>>
      BY <1>1 DEF OnUidStateChanged
    <2>2. CASE uidState' = uidState
      BY <2>1, <2>2 DEF FrontInv, FrontAmong, GetTopUids
    <2>3. CASE uidState' # uidState
      <3>1. /\ Reportable(u, s) /\ uidState' = moved
            /\ ChangedUids(uidState, moved) = {}
        BY <1>1, <2>3 DEF OnUidStateChanged, uidVars
      <3>2. /\ u \in Monitored /\ s \in Known
            /\ moved \in [Monitored -> Known \cup {UNKNOWN}] /\ moved[u] = s
        BY <2>1, <3>1 DEF UidInv, Reportable, Monitored
      <3> HIDE DEF u, s, moved
      <3>3. TopUidState(moved) \in Known /\ TopSet(moved) # {}
        BY <3>2, TopUids DEF UidInv
      <3>4. TopSet(moved) = TopSet(uidState)
        BY <3>1, <3>3 DEF ChangedUids
      <3>5. GetTopUids' = TopSet(uidState)
        BY <3>1, <3>3, <3>4 DEF GetTopUids
      <3>6. CASE \E v \in Monitored : uidState[v] # UNKNOWN
        <4>1. TopUidState(uidState) \in Known
          BY <3>6, TopUids DEF UidInv
        <4>2. GetTopUids = GetTopUids'
          BY <3>5, <4>1 DEF GetTopUids
        <4> QED
          BY <2>1, <4>2 DEF FrontInv, FrontAmong
      <3>7. CASE \A v \in Monitored : uidState[v] = UNKNOWN
        <4>1. GetTopUids' = Monitored
          BY <3>5, <3>7, UnknownUids DEF UidInv
        <4>2. ASSUME FrontAmong(Monitored) PROVE FrontAmong(GetTopUids)'
          BY <2>1, <4>1, <4>2 DEF FrontAmong
        <4>3. CASE Elems(uidSortedList) = {OfflineUid}
          BY <2>1, <3>2, <4>1, <4>3 DEF UidInv
        <4>4. CASE Elems(uidSortedList) # {OfflineUid}
          <5>1. ~IsFront(uidSortedList, OfflineUid)
            BY <4>4, OfflineFront DEF UidInv
          <5>2. Elems(uidSortedList) \ {OfflineUid} \subseteq Monitored
            BY DEF UidInv
          <5>3. FrontAmong(Monitored)
            BY <5>1, <5>2 DEF FrontAmong, IsFront
          <5> QED
            BY <4>2, <5>3
        <4> QED
          BY <4>3, <4>4
      <3> QED
        BY <3>6, <3>7
    <2> QED
      BY <2>2, <2>3
  <1>2. CASE ReportTopUids
    <2>1. /\ mLock = "free" /\ mLock \notin App
          /\ UNCHANGED <<uidState, mLock>>
          /\ stale' = (topNotice # GetTopUids)
          /\ uidSortedList' = MoveUidsToTop(uidSortedList, topNotice, TRUE)
      BY <1>2 DEF ReportTopUids
    <2>2. GetTopUids' = GetTopUids
      BY <2>1 DEF GetTopUids
    <2>3. ASSUME ~stale', GetTopUids # {}, NEW u \in Uid, IsFront(uidSortedList', u)
          PROVE  u \in GetTopUids
      <3>1. PICK w \in GetTopUids : w \in Elems(uidSortedList) /\ w # OfflineUid
        BY <1>0, <2>1, <2>3 DEF UidInv
      <3>2. topNotice = GetTopUids
        BY <2>1, <2>3
      <3> QED
        BY <2>1, <2>3, <3>1, <3>2, FrontIsMoved DEF UidInv
    <2> QED
      BY <2>1, <2>2, <2>3 DEF FrontInv, FrontAmong
  <1>3. CASE ReportGone
    <2>1. CASE goneNotice \in Monitored
      <3>1. mLock' = "removing"
        BY <1>3, <2>1 DEF ReportGone, RemoveUids
      <3> QED
        BY <3>1 DEF FrontInv
    <2>2. CASE goneNotice \notin Monitored
      BY <1>3, <2>2 DEF ReportGone, FrontInv, FrontAmong, GetTopUids
    <2> QED
      BY <2>1, <2>2
  <1>4. CASE RemovalAsksTop
    <2>1. /\ mLock = "removing" /\ mLock \notin App
          /\ mLock' = "free" /\ mLock' \notin App
          /\ uidState' = uidState
          /\ uidSortedList' = MoveUidsToTop(uidSortedList, GetTopUids, FALSE)
      BY <1>4 DEF RemovalAsksTop, uidVars
    <2>2. GetTopUids' = GetTopUids
      BY <2>1 DEF GetTopUids
    <2>3. ASSUME GetTopUids # {}, NEW u \in Uid, IsFront(uidSortedList', u)
          PROVE  u \in GetTopUids
      <3>1. PICK w \in GetTopUids : w \in Elems(uidSortedList) /\ w # OfflineUid
        BY <1>0, <2>1, <2>3 DEF UidInv
      <3> QED
        BY <2>1, <2>3, <3>1, FrontIsMoved DEF UidInv
    <2> QED
      BY <2>1, <2>2, <2>3 DEF FrontInv, FrontAmong
  <1>5. CASE ArrivalAsksTop
    <2>1. /\ mLock \in App /\ mLock' = "free" /\ mLock' \notin App
          /\ UNCHANGED <<uidState, topNotice, stale>>
      BY <1>5 DEF ArrivalAsksTop, uidVars
    <2>2. GetTopUids' = GetTopUids
      BY <2>1 DEF GetTopUids
    <2> SUFFICES ASSUME topNotice = {}, ~stale, GetTopUids # {},
                        NEW u \in Uid, IsFront(uidSortedList', u)
                 PROVE  u \in GetTopUids
      BY <2>1, <2>2 DEF FrontInv, FrontAmong
    <2>3. CASE mLock \in GetTopUids
      <3>1. uidSortedList' = PushFront(uidSortedList, mLock)
        BY <1>5, <2>1, <2>3, GetTopUidsLemma DEF ArrivalAsksTop
      <3>2. u = mLock
        <4>1. Elems(uidSortedList') = Elems(uidSortedList) \cup {mLock}
          BY <2>1, <3>1, PushFrontLemma DEF UidInv
        <4>2. <<u, mLock>> \in uidSortedList'
          BY <4>1 DEF IsFront
        <4>3. <<mLock, u>> \in uidSortedList'
          BY <3>1, <4>1 DEF IsFront, PushFront
        <4> QED
          BY <4>1, <4>2, <4>3 DEF UidInv, IsUidList, IsFront
      <3> QED
        BY <2>3, <3>2
    <2>4. CASE mLock \notin GetTopUids
      <3>1. uidSortedList' = InsertBeforeOffline(uidSortedList, mLock)
        BY <1>5, <2>1, <2>4, GetTopUidsLemma DEF ArrivalAsksTop
      <3>2. FrontAmong(GetTopUids)
        BY <2>1, <2>4 DEF FrontInv
      <3>3. Elems(uidSortedList') = Elems(uidSortedList) \cup {mLock}
        BY <2>1, <3>1, InsertLemma DEF UidInv
      <3>4. OfflineUid \in Elems(uidSortedList) /\ mLock \notin Elems(uidSortedList)
        BY <2>1 DEF UidInv, IsUidList
      <3>5. CASE u = mLock
        <4>1. \A v \in Elems(uidSortedList) : v = OfflineUid
          <5> SUFFICES ASSUME NEW v \in Elems(uidSortedList), v # OfflineUid PROVE FALSE
            OBVIOUS
          <5>1. <<mLock, v>> \in uidSortedList' /\ v # mLock
            BY <3>3, <3>4, <3>5 DEF IsFront
          <5>2. <<mLock, v>> \in uidSortedList
            BY <3>1, <5>1 DEF InsertBeforeOffline
          <5> QED
            BY <3>4, <5>2 DEF UidInv, IsUidList
        <4>2. IsFront(uidSortedList, OfflineUid)
          BY <3>4, <4>1 DEF IsFront, Elems
        <4>3. OfflineUid \in GetTopUids
          BY <3>2, <4>2 DEF FrontAmong
        <4> QED
          BY <1>0, <4>3 DEF UidInv
      <3>6. CASE u # mLock
        <4>1. u \in Elems(uidSortedList)
          BY <3>3, <3>6 DEF IsFront
        <4>2. \A v \in Elems(uidSortedList) : <<u, v>> \in uidSortedList' /\ v # mLock
          BY <3>3, <3>4 DEF IsFront
        <4>3. \A v \in Elems(uidSortedList) : <<u, v>> \in uidSortedList
          BY <3>1, <3>6, <4>2 DEF InsertBeforeOffline
        <4> QED
          BY <3>2, <4>1, <4>3 DEF FrontAmong, IsFront
      <3> QED
        BY <3>5, <3>6
    <2> QED
      BY <2>3, <2>4
  <1>6. ASSUME NEW u \in App, NEW s \in Known, UidMoves(u, s) PROVE FrontInv'
    BY <1>6 DEF UidMoves, uidVars, FrontInv, FrontAmong, GetTopUids
  <1>7. ASSUME NEW u \in App, NEW active \in BOOLEAN, SessionArrives(u, active)
        PROVE  FrontInv'
    <2>1. /\ mLock = "free" /\ mLock' = u /\ u \notin Monitored
          /\ UNCHANGED <<topNotice, stale, uidSortedList>>
      BY <1>7 DEF SessionArrives
    <2>2. u \notin GetTopUids' => GetTopUids' = GetTopUids
      <3>1. CASE active
        BY <1>7, <3>1 DEF SessionArrives, GetTopUids
      <3>2. CASE ~active
        BY <1>7, <2>1, <3>2, StateAddedLemma DEF SessionArrives
      <3> QED
        BY <3>1, <3>2
    <2> QED
      BY <2>1, <2>2 DEF FrontInv, FrontAmong
  <1>8. ASSUME NEW u \in App, SessionJoins(u) PROVE FrontInv'
    <2>1. /\ mLock = "free" /\ u \in Monitored
          /\ UNCHANGED <<uidState, mLock, topNotice, stale>>
          /\ uidSortedList' = PushFront(EraseAll(uidSortedList, {u}), u)
      BY <1>8 DEF SessionJoins, uidVars
    <2>2. u \in GetTopUids /\ GetTopUids' = GetTopUids
      BY <1>8, <2>1, GetTopUidsLemma DEF SessionJoins, GetTopUids
    <2>3. ASSUME NEW v \in Uid, IsFront(uidSortedList', v) PROVE v = u
      <3> DEFINE m == EraseAll(uidSortedList, {u})
      <3>1. IsUidList(m) /\ Elems(m) = Elems(uidSortedList) \ {u}
        BY EraseLemma DEF UidInv
      <3> HIDE DEF m
      <3>2. Elems(uidSortedList') = Elems(m) \cup {u}
        BY <2>1, <3>1, PushFrontLemma DEF m
      <3>3. <<v, u>> \in uidSortedList'
        BY <2>3, <3>2 DEF IsFront
      <3>4. <<u, v>> \in uidSortedList'
        BY <2>1, <2>3, <3>2 DEF IsFront, PushFront, m
      <3> QED
        BY <2>3, <3>2, <3>3, <3>4 DEF UidInv, IsUidList, IsFront
    <2> QED
      BY <2>1, <2>2, <2>3 DEF FrontInv, FrontAmong
  <1>9. ASSUME NEW uids \in SUBSET App, SessionLeaves(uids) PROVE FrontInv'
    <2>1. mLock' = "removing"
      BY <1>9 DEF SessionLeaves, RemoveUids
    <2> QED
      BY <2>1 DEF FrontInv
  <1>10. CASE Setup \/ ThermalNext
    <2>1. UNCHANGED <<uidVars, mLock, stale, uidSortedList>>
      BY <1>10 DEF Setup, ReadStatus, MakeController, SetCallback, ThermalNext, DeviceHeats,
           OnStatusChange, ReportThrottling
    <2> QED
      BY <2>1 DEF FrontInv, FrontAmong, GetTopUids, uidVars
  <1>11. CASE ResourceNext
    <2>1. /\ UNCHANGED <<uidVars, stale, uidSortedList>>
          /\ mLock' # mLock => mLock \in {"free", "losing"} /\ mLock' \in {"free", "losing"}
      BY <1>11 DEF ResourceNext, LoseResource, CodecIsFree, MarkResourceLost, ReportFree,
           ObserverDies
    <2> QED
      BY <2>1 DEF FrontInv, FrontAmong, GetTopUids, uidVars
  <1>12. CASE ArrivalReadsState
    <2>1. /\ mLock \in App /\ mLock \notin Monitored
          /\ UNCHANGED <<mLock, topNotice, stale, uidSortedList>>
      BY <1>12 DEF ArrivalReadsState, Registering
    <2>2. mLock \notin {"free", "losing"} /\ mLock \notin GetTopUids
      BY <1>0, <2>1
    <2>3. importance[mLock] \in Known
      BY <2>1 DEF UidInv
    <2>4. mLock \notin GetTopUids' => GetTopUids' = GetTopUids
      BY <1>12, <2>1, <2>3, StateAddedLemma DEF ArrivalReadsState
    <2> QED
      BY <2>1, <2>2, <2>4 DEF FrontInv, FrontAmong
  <1>13. CASE UNCHANGED vars
    BY <1>13 DEF vars, uidVars, FrontInv, FrontAmong, GetTopUids
  <1> QED
    BY <1>1, <1>2, <1>3, <1>4, <1>5, <1>6, <1>7, <1>8, <1>9, <1>10, <1>11, <1>12, <1>13
       DEF Next, UidNext, UidStep

\* The uid that the controller serves first is on top, unless the set that
\* onTopUidsChanged was given last was overtaken by uids that came or went.
THEOREM FrontIsOnTop == Spec => []FrontIsTop
  <1>1. Init => FrontInv
    <2> SUFFICES ASSUME Init PROVE GetTopUids = {}
      BY DEF FrontInv
    <2>1. DOMAIN uidState = {}
      BY DEF Init
    <2> QED
      BY <2>1 DEF GetTopUids, TopSet, UidsIn
  <1>2. UidInv /\ UidInv' /\ FrontInv /\ [Next]_vars => FrontInv'
    BY FrontStep
  <1>3. FrontInv => FrontIsTop
    BY DEF FrontInv, FrontIsTop, FrontAmong, UidsAtRest
  <1> QED
    BY <1>1, <1>2, <1>3, UidInvHolds, PTL DEF Spec
----------------------------------------------------------------------------
(* The types *)

\* The types that the invariants of the policies do not give.
RestInv ==
  /\ observer \in BOOLEAN
  /\ moves \in 0..MaxMoves
  /\ topNotice \in SUBSET App
  /\ goneNotice \in App \cup {NoUid}
  /\ resourceLostPid \in Pids \cup {NoPid}
  /\ freeNotice \in BOOLEAN
  /\ lostPid \in Pids \cup {NoPid}
  /\ resourceLost \in BOOLEAN
  /\ stale \in BOOLEAN
  /\ missed \in BOOLEAN

LEMMA RestStep ==
  ASSUME UidInv, ThermalInv, RestInv, [Next]_vars
  PROVE  RestInv'
  <1>0. ASSUME Moves PROVE moves' \in 0..MaxMoves
    BY <1>0 DEF Moves, RestInv
  <1>1. CASE OnUidStateChanged
    <2> DEFINE u == Head(uidEvents)[1]
               s == Head(uidEvents)[2]
               moved == [uidState EXCEPT ![u] = s]
    <2>1. Head(uidEvents) \in App \X Known
      BY <1>1 DEF OnUidStateChanged, UidInv
    <2>2. UNCHANGED <<observer, moves, resourceVars, resourceLost, stale, missed>>
      BY <1>1 DEF OnUidStateChanged
    <2>3. ChangedUids(uidState, moved) \subseteq App
      BY DEF ChangedUids, TopSet, UidsIn, UidInv, Monitored
    <2>4. GoneUid(u, s, uidState, moved) \in App \cup {NoUid}
      BY <2>1 DEF GoneUid
    <2>5. topNotice' \in SUBSET App /\ goneNotice' \in App \cup {NoUid}
      <3>1. CASE Reportable(u, s)
        BY <1>1, <2>3, <2>4, <3>1 DEF OnUidStateChanged
      <3>2. CASE ~Reportable(u, s)
        BY <1>1, <3>2 DEF OnUidStateChanged, RestInv, uidVars
      <3> QED
        BY <3>1, <3>2
    <2> QED
      BY <2>2, <2>5 DEF RestInv, resourceVars
  <1>2. CASE \/ ReportTopUids \/ ReportGone \/ RemovalAsksTop
             \/ ArrivalReadsState \/ ArrivalAsksTop
    BY <1>2 DEF ReportTopUids, ReportGone, RemovalAsksTop, ArrivalReadsState, ArrivalAsksTop,
       RestInv, deviceVars, uidVars, resourceVars
  <1>3. ASSUME NEW u \in App, NEW s \in Known, UidMoves(u, s) PROVE RestInv'
    BY <1>0, <1>3 DEF UidMoves, RestInv, uidVars, resourceVars
  <1>4. ASSUME NEW u \in App, NEW active \in BOOLEAN, SessionArrives(u, active) PROVE RestInv'
    BY <1>0, <1>4 DEF SessionArrives, RestInv, resourceVars
  <1>5. ASSUME NEW u \in App, SessionJoins(u) PROVE RestInv'
    BY <1>5 DEF SessionJoins, RestInv, deviceVars, uidVars, resourceVars
  <1>6. ASSUME NEW uids \in SUBSET App, SessionLeaves(uids) PROVE RestInv'
    BY <1>0, <1>6 DEF SessionLeaves, RestInv, resourceVars
  <1>7. CASE Setup
    BY <1>7 DEF Setup, ReadStatus, MakeController, SetCallback, RestInv, deviceVars, uidVars,
       resourceVars
  <1>8. CASE DeviceHeats
    BY <1>0, <1>8 DEF DeviceHeats, RestInv, uidVars, resourceVars
  <1>9. CASE OnStatusChange \/ ReportThrottling
    BY <1>9 DEF OnStatusChange, ReportThrottling, RestInv, ThermalInv, deviceVars, uidVars,
       resourceVars
  <1>10. ASSUME NEW p \in Pids \cup {NoPid}, LoseResource(p) \/ CodecIsFree(p)
         PROVE  RestInv'
    BY <1>0, <1>10 DEF LoseResource, CodecIsFree, PidAfterFree, RestInv, uidVars
  <1>11. CASE MarkResourceLost \/ ReportFree
    BY <1>11 DEF MarkResourceLost, ReportFree, RestInv, deviceVars, uidVars, resourceVars
  <1>12. CASE ObserverDies
    BY <1>0, <1>12 DEF ObserverDies, RestInv, uidVars, resourceVars
  <1>13. CASE UNCHANGED vars
    BY <1>13 DEF vars, RestInv, deviceVars, uidVars, resourceVars
  <1> QED
    BY <1>1, <1>2, <1>3, <1>4, <1>5, <1>6, <1>7, <1>8, <1>9, <1>10, <1>11, <1>12, <1>13
       DEF Next, UidNext, UidStep, ThermalNext, ResourceNext

\* The types of the policies: what they report are apps, what the controller
\* keeps of them is a list of uids, and the lock is held for one of them only.
THEOREM PoliciesTypesAreKept == Spec => []PoliciesTypeOK
  <1>1. Init => ThermalInv
    BY <<>> \in Seq(BOOLEAN) DEF Init, ThermalInv
  <1>2. Init => RestInv
    <2>1. 0 \in 0..MaxMoves
      OBVIOUS
    <2> QED
      BY <2>1 DEF Init, RestInv
  <1>3. ThermalInv /\ [Next]_vars => ThermalInv'
    BY ThermalStep
  <1>4. UidInv /\ ThermalInv /\ RestInv /\ [Next]_vars => RestInv'
    BY RestStep
  <1>5. UidInv /\ ThermalInv /\ RestInv => PoliciesTypeOK
    BY DEF UidInv, ThermalInv, RestInv, PoliciesTypeOK
  <1> QED
    BY <1>1, <1>2, <1>3, <1>4, <1>5, UidInvHolds, PTL DEF Spec
=============================================================================
