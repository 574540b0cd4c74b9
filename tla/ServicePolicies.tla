--------------------------- MODULE ServicePolicies ---------------------------
(***************************************************************************)
(* The policies of MediaTranscodingService and what the session controller *)
(* knows from them: TranscodingUidPolicy orders the apps, Transcoding-     *)
(* ThermalPolicy throttles, TranscodingResourcePolicy says when a codec is *)
(* free again.  Each has a lock of its own for its state and calls the     *)
(* controller after it has released it; the controller calls the uid and   *)
(* the resource policy while it holds mLock.                               *)
(*                                                                         *)
(* Of the controller, the parts that depend on the policies are kept: the  *)
(* order of the uids (with the operators of UidList), mResourceLost and    *)
(* mThermalThrottling.  The observers of the system call each policy from  *)
(* one thread at a time and in order; what is on its way is a queue.       *)
(***************************************************************************)
EXTENDS UidList, Naturals, Sequences, FiniteSets

CONSTANTS Pids,     \* processes that use codecs
          NoPid,    \* -1: no process, or USE_CALLING_PID
          NoUid,
          MaxMoves  \* how often an app, a client, a codec or the device moves

App == Uid \ {OfflineUid}

\* Importance: the lower, the closer to the user.
TopState == 1
BackState == 2
GONE == 3
UNKNOWN == 4
Known == {TopState, BackState, GONE}

ASSUME PoliciesAssumption ==
  /\ NoPid \notin Pids
  /\ NoUid \notin Uid
  /\ {"free", "removing", "losing"} \cap Uid = {}
  /\ MaxMoves \in Nat

VARIABLES
  \* the device, and what it has to tell
  importance,   \* of each app
  uidEvents,    \* changes of importance on their way
  hot,          \* the thermal status asks for throttling
  hotEvents,    \* changes of it on their way
  observer,     \* the resource observer service lives
  moves,
  \* TranscodingUidPolicy
  uidState,     \* mUidStateMap; mStateUidMap is its inverse
  topNotice,    \* topUids of the onUidStateChanged under way, {} if none
  goneNotice,   \* its uid if isUidGone, NoUid otherwise
  \* TranscodingThermalPolicy
  isThrottling, \* mIsThrottling
  hotNotice,    \* the change that onStatusChange has still to report
  callbackSet,  \* setCallback was called
  \* TranscodingResourcePolicy
  resourceLostPid,
  freeNotice,   \* onResourceAvailable is about to call the controller
  lostPid,      \* clientPid of the session that lost its codec last
  \* the controller
  setup,        \* what the constructor of the service does next
  uidSortedList,
  mLock,        \* where its holder is: between two calls of a policy
  resourceLost,
  thermalThrottling,
  \* history
  stale,        \* the last topUids heard of were not the top uids any more
  missed        \* the last change of throttling found no callback

deviceVars == <<importance, uidEvents, hot, hotEvents, observer, moves>>
uidVars == <<uidState, topNotice, goneNotice>>
thermalVars == <<isThrottling, hotNotice, callbackSet>>
resourceVars == <<resourceLostPid, freeNotice, lostPid>>
vars == <<deviceVars, uidVars, thermalVars, resourceVars, setup, uidSortedList,
          mLock, resourceLost, thermalThrottling, stale, missed>>

Monitored == DOMAIN uidState

PoliciesTypeOK ==
  /\ importance \in [App -> Known]
  /\ uidEvents \in Seq(App \X Known)
  /\ hot \in BOOLEAN
  /\ hotEvents \in Seq(BOOLEAN)
  /\ observer \in BOOLEAN
  /\ moves \in 0..MaxMoves
  /\ Monitored \subseteq App /\ uidState \in [Monitored -> Known \cup {UNKNOWN}]
  /\ topNotice \in SUBSET App
  /\ goneNotice \in App \cup {NoUid}
  /\ isThrottling \in BOOLEAN
  /\ hotNotice \in {"none", "started", "stopped"}
  /\ callbackSet \in BOOLEAN
  /\ resourceLostPid \in Pids \cup {NoPid}
  /\ freeNotice \in BOOLEAN
  /\ lostPid \in Pids \cup {NoPid}
  /\ setup \in {"read", "controller", "callback", "ready"}
  /\ IsUidList(uidSortedList)
  /\ mLock \in {"free", "removing", "losing"} \cup App
  /\ resourceLost \in BOOLEAN
  /\ thermalThrottling \in BOOLEAN
  /\ stale \in BOOLEAN
  /\ missed \in BOOLEAN

\* The thermal listener has just been registered.
Init ==
  /\ importance \in [App -> Known]
  /\ uidEvents = <<>>
  /\ hot \in BOOLEAN
  /\ hotEvents = <<>>
  /\ observer = TRUE
  /\ moves = 0
  /\ uidState = [u \in {} |-> UNKNOWN]
  /\ topNotice = {} /\ goneNotice = NoUid
  /\ isThrottling = FALSE
  /\ hotNotice = "none"
  /\ callbackSet = FALSE
  /\ resourceLostPid = NoPid
  /\ freeNotice = FALSE
  /\ lostPid = NoPid
  /\ setup = "read"
  /\ uidSortedList = {<<OfflineUid, OfflineUid>>}
  /\ mLock = "free"
  /\ resourceLost = FALSE
  /\ thermalThrottling = FALSE
  /\ stale = FALSE
  /\ missed = FALSE

Moves == moves < MaxMoves /\ moves' = moves + 1

----------------------------------------------------------------------------
(* The uid policy *)

UidsIn(state, s) == {u \in DOMAIN state : state[u] = s}

\* updateTopUid_l: the lowest state but UNKNOWN with some monitored uid.
TopUidState(state) ==
  IF \A u \in DOMAIN state : state[u] = UNKNOWN THEN UNKNOWN
  ELSE CHOOSE s \in Known : /\ UidsIn(state, s) # {}
                            /\ \A r \in Known : UidsIn(state, r) # {} => s <= r

\* mStateUidMap[mTopUidState].
TopSet(state) == UidsIn(state, TopUidState(state))

\* isUidOnTop and getTopUids.
IsUidOnTop(u) == u \in Monitored /\ TopUidState(uidState) # UNKNOWN /\ u \in TopSet(uidState)
GetTopUids == IF TopUidState(uidState) = UNKNOWN THEN {} ELSE TopSet(uidState)

UidMoves(u, s) ==
  /\ Moves
  /\ importance[u] # s
  /\ importance' = [importance EXCEPT ![u] = s]
  /\ uidEvents' = Append(uidEvents, <<u, s>>)
  /\ UNCHANGED <<hot, hotEvents, observer, uidVars, thermalVars, resourceVars, setup,
                 uidSortedList, mLock, resourceLost, thermalThrottling, stale, missed>>

\* Mutant: a uid that is not on top is of no interest.
ReportableOnTop(u, s) == u \in Monitored /\ uidState[u] # s /\ IsUidOnTop(u)

Reportable(u, s) == u \in Monitored /\ uidState[u] # s

\* What is to be reported when the states change: nothing if the set of top
\* uids is the same.
ChangedUids(before, after) ==
  IF TopSet(after) = TopSet(before) THEN {} ELSE TopSet(after)

\* Mutant: a change of the top uids hides that the uid is gone.
GoneUidElse(u, s, before, after) ==
  IF s = GONE /\ ChangedUids(before, after) = {} THEN u ELSE NoUid

GoneUid(u, s, before, after) == IF s = GONE THEN u ELSE NoUid

\* registerMonitorUid asks the system about a uid, with mUidLock held.
Registering == mLock \in App \ Monitored

\* onUidStateChanged, up to the release of mUidLock.
OnUidStateChanged ==
  LET u == Head(uidEvents)[1]
      s == Head(uidEvents)[2]
      moved == [uidState EXCEPT ![u] = s]
  IN /\ uidEvents # <<>>
     /\ ~Registering
     /\ topNotice = {} /\ goneNotice = NoUid
     /\ uidEvents' = Tail(uidEvents)
     /\ IF Reportable(u, s)
          THEN /\ uidState' = moved
               /\ topNotice' = ChangedUids(uidState, moved)
               /\ goneNotice' = GoneUid(u, s, uidState, moved)
          ELSE UNCHANGED uidVars
     /\ UNCHANGED <<importance, hot, hotEvents, observer, moves, thermalVars, resourceVars,
                    setup, uidSortedList, mLock, resourceLost, thermalThrottling, stale,
                    missed>>

\* It calls onTopUidsChanged of the controller.
ReportTopUids ==
  /\ topNotice # {}
  /\ mLock = "free"
  /\ uidSortedList' = MoveUidsToTop(uidSortedList, topNotice, TRUE)
  /\ stale' = (topNotice # GetTopUids)
  /\ topNotice' = {}
  /\ UNCHANGED <<deviceVars, uidState, goneNotice, thermalVars, resourceVars, setup, mLock,
                 resourceLost, thermalThrottling, missed>>

\* Mutant: the uids are still monitored.
RemoveUidsOnly(uids) ==
  /\ uidSortedList' = EraseAll(uidSortedList, uids)
  /\ mLock' = "removing"
  /\ UNCHANGED uidState

\* removeSession_l of the last session of each of the uids: their queues go, up
\* to the call of getTopUids.
RemoveUids(uids) ==
  /\ uidSortedList' = EraseAll(uidSortedList, uids)
  /\ uidState' = [u \in Monitored \ uids |-> uidState[u]]
  /\ mLock' = "removing"

\* Then it calls onUidGone, which removes the sessions of the uid.
ReportGone ==
  /\ topNotice = {} /\ goneNotice # NoUid
  /\ mLock = "free"
  /\ IF goneNotice \in Monitored
       THEN RemoveUids({goneNotice})
       ELSE UNCHANGED <<uidSortedList, uidState, mLock>>
  /\ goneNotice' = NoUid
  /\ UNCHANGED <<deviceVars, topNotice, thermalVars, resourceVars, setup, resourceLost,
                 thermalThrottling, stale, missed>>

\* A session leaves that was the last one of these uids.
SessionLeaves(uids) ==
  /\ Moves
  /\ mLock = "free"
  /\ uids # {} /\ uids \subseteq Monitored
  /\ RemoveUids(uids)
  /\ UNCHANGED <<importance, uidEvents, hot, hotEvents, observer, topNotice, goneNotice,
                 thermalVars, resourceVars, setup, resourceLost, thermalThrottling, stale,
                 missed>>

\* Mutant: the new order is left as it is.
RemovalLeavesOrder ==
  /\ mLock = "removing"
  /\ mLock' = "free"
  /\ UNCHANGED <<deviceVars, uidVars, thermalVars, resourceVars, setup, uidSortedList,
                 resourceLost, thermalThrottling, stale, missed>>

\* The end of removeSession_l.
RemovalAsksTop ==
  /\ mLock = "removing"
  /\ uidSortedList' = MoveUidsToTop(uidSortedList, GetTopUids, FALSE)
  /\ stale' = FALSE
  /\ mLock' = "free"
  /\ UNCHANGED <<deviceVars, uidVars, thermalVars, resourceVars, setup, resourceLost,
                 thermalThrottling, missed>>

\* mUidStateMap with one more uid.
StatesWithUid(u, s) == [v \in Monitored \cup {u} |-> IF v # u THEN uidState[v] ELSE s]

\* addUidToSession_l for a uid without a queue, up to the first answer of the
\* system in registerMonitorUid: the state of a uid that is not active is not
\* asked for.
SessionArrives(u, active) ==
  /\ Moves
  /\ setup = "ready"
  /\ mLock = "free"
  /\ u \notin Monitored
  /\ importance[u] = TopState => active
  /\ importance[u] = GONE => ~active
  /\ uidState' = IF active THEN uidState ELSE StatesWithUid(u, UNKNOWN)
  /\ mLock' = u
  /\ UNCHANGED <<importance, uidEvents, hot, hotEvents, observer, topNotice, goneNotice,
                 thermalVars, resourceVars, setup, uidSortedList, resourceLost,
                 thermalThrottling, stale, missed>>

\* The second answer: the state of the uid, whatever it is by now.
ArrivalReadsState ==
  /\ Registering
  /\ uidState' = StatesWithUid(mLock, importance[mLock])
  /\ UNCHANGED <<deviceVars, topNotice, goneNotice, thermalVars, resourceVars, setup,
                 uidSortedList, mLock, resourceLost, thermalThrottling, stale, missed>>

\* The rest of addUidToSession_l.
ArrivalAsksTop ==
  /\ mLock \in App /\ ~Registering
  /\ uidSortedList' = IF IsUidOnTop(mLock) THEN PushFront(uidSortedList, mLock)
                      ELSE InsertBeforeOffline(uidSortedList, mLock)
  /\ mLock' = "free"
  /\ UNCHANGED <<deviceVars, uidVars, thermalVars, resourceVars, setup, resourceLost,
                 thermalThrottling, stale, missed>>

\* Another session of a uid that has a queue: addUidToSession_l moves the uid to
\* the front if it is on top.
SessionJoins(u) ==
  /\ mLock = "free"
  /\ u \in Monitored
  /\ ~IsFront(uidSortedList, u)
  /\ IsUidOnTop(u)
  /\ uidSortedList' = PushFront(EraseAll(uidSortedList, {u}), u)
  /\ UNCHANGED <<deviceVars, uidVars, thermalVars, resourceVars, setup, mLock,
                 resourceLost, thermalThrottling, stale, missed>>

----------------------------------------------------------------------------
(* The thermal policy *)

DeviceHeats ==
  /\ Moves
  /\ hot' = ~hot
  /\ hotEvents' = Append(hotEvents, hot')
  /\ UNCHANGED <<importance, uidEvents, observer, uidVars, thermalVars, resourceVars, setup,
                 uidSortedList, mLock, resourceLost, thermalThrottling, stale, missed>>

\* registerSelf, after it has registered the listener, then the constructor of
\* the controller and setCallback: the constructor of the service.
ReadStatus ==
  /\ setup = "read"
  /\ isThrottling' = hot
  /\ setup' = "controller"
  /\ UNCHANGED <<deviceVars, uidVars, hotNotice, callbackSet, resourceVars, uidSortedList,
                 mLock, resourceLost, thermalThrottling, stale, missed>>

MakeController ==
  /\ setup = "controller"
  /\ thermalThrottling' = isThrottling
  /\ missed' = FALSE
  /\ setup' = "callback"
  /\ UNCHANGED <<deviceVars, uidVars, thermalVars, resourceVars, uidSortedList, mLock,
                 resourceLost, stale>>

SetCallback ==
  /\ setup = "callback"
  /\ callbackSet' = TRUE
  /\ setup' = "ready"
  /\ UNCHANGED <<deviceVars, uidVars, isThrottling, hotNotice, resourceVars, uidSortedList,
                 mLock, resourceLost, thermalThrottling, stale, missed>>

\* Mutant: only a start of throttling is looked at.
StatusNewOnce(h) == h /\ ~isThrottling

StatusNew(h) == h # isThrottling

\* onStatusChange, up to the release of mRegisteredLock, which registerSelf
\* holds as well.
OnStatusChange ==
  LET h == Head(hotEvents)
  IN /\ hotEvents # <<>>
     /\ hotNotice = "none"
     /\ setup # "read"
     /\ hotEvents' = Tail(hotEvents)
     /\ IF StatusNew(h)
          THEN isThrottling' = h /\ hotNotice' = IF h THEN "started" ELSE "stopped"
          ELSE UNCHANGED <<isThrottling, hotNotice>>
     /\ UNCHANGED <<importance, uidEvents, hot, observer, moves, uidVars, callbackSet,
                    resourceVars, setup, uidSortedList, mLock, resourceLost,
                    thermalThrottling, stale, missed>>

\* It calls onThrottlingStarted or onThrottlingStopped, if there is a callback.
ReportThrottling ==
  /\ hotNotice # "none"
  /\ mLock = "free"
  /\ thermalThrottling' = IF callbackSet THEN hotNotice = "started" ELSE thermalThrottling
  /\ missed' = ~callbackSet
  /\ hotNotice' = "none"
  /\ UNCHANGED <<deviceVars, uidVars, isThrottling, callbackSet, resourceVars, setup,
                 uidSortedList, mLock, resourceLost, stale>>

----------------------------------------------------------------------------
(* The resource policy *)

\* onResourceLost of the controller, up to setPidResourceLost; the session that
\* lost its codec is of an app or of the offline queue.  Its clientPid may be
\* USE_CALLING_PID: submitRequest replaces that in a copy of its own only.
LoseResource(p) ==
  /\ Moves
  /\ setup = "ready"
  /\ mLock = "free"
  /\ ~resourceLost
  /\ resourceLostPid' = p
  /\ lostPid' = p
  /\ mLock' = "losing"
  /\ UNCHANGED <<importance, uidEvents, hot, hotEvents, observer, uidVars, thermalVars,
                 freeNotice, setup, uidSortedList, resourceLost, thermalThrottling, stale,
                 missed>>

\* The rest of onResourceLost.
MarkResourceLost ==
  /\ mLock = "losing"
  /\ resourceLost' = TRUE
  /\ mLock' = "free"
  /\ UNCHANGED <<deviceVars, uidVars, thermalVars, resourceVars, setup, uidSortedList,
                 thermalThrottling, stale, missed>>

\* Mutant: the process is forgotten whoever has freed a codec.
ForgetsPid(p) == NoPid

\* mResourceLostPid after process p has freed a codec.
PidAfterFree(p) == IF resourceLostPid # p THEN NoPid ELSE resourceLostPid

\* onResourceAvailable, up to the release of mCallbackLock.
CodecIsFree(p) ==
  /\ Moves
  /\ observer
  /\ ~freeNotice
  /\ resourceLostPid # NoPid
  /\ resourceLostPid' = PidAfterFree(p)
  /\ freeNotice' = (resourceLostPid # p)
  /\ UNCHANGED <<importance, uidEvents, hot, hotEvents, observer, uidVars, thermalVars,
                 lostPid, setup, uidSortedList, mLock, resourceLost, thermalThrottling, stale,
                 missed>>

\* It calls onResourceAvailable of the controller.
ReportFree ==
  /\ freeNotice
  /\ mLock = "free"
  /\ freeNotice' = FALSE
  /\ resourceLost' = FALSE
  /\ UNCHANGED <<deviceVars, uidVars, thermalVars, resourceLostPid, lostPid, setup, uidSortedList,
                 mLock, thermalThrottling, stale, missed>>

\* The observer service dies: the policy unregisters and does not come back.
ObserverDies ==
  /\ Moves
  /\ observer
  /\ observer' = FALSE
  /\ UNCHANGED <<importance, uidEvents, hot, hotEvents, uidVars, thermalVars, resourceVars,
                 setup, uidSortedList, mLock, resourceLost, thermalThrottling, stale, missed>>

----------------------------------------------------------------------------

Setup == ReadStatus \/ MakeController \/ SetCallback

\* The thread of the uid observer, and the holder of mLock.
UidStep ==
  \/ OnUidStateChanged \/ ReportTopUids \/ ReportGone
  \/ RemovalAsksTop \/ ArrivalReadsState \/ ArrivalAsksTop

UidNext ==
  \/ UidStep
  \/ \E u \in App, s \in Known : UidMoves(u, s)
  \/ \E u \in App, active \in BOOLEAN : SessionArrives(u, active)
  \/ \E u \in App : SessionJoins(u)
  \/ \E uids \in SUBSET App : SessionLeaves(uids)

ThermalNext == DeviceHeats \/ OnStatusChange \/ ReportThrottling

ResourceNext ==
  \/ \E p \in Pids \cup {NoPid} : LoseResource(p)
  \/ \E p \in Pids : CodecIsFree(p)
  \/ MarkResourceLost
  \/ ReportFree
  \/ ObserverDies

Next == Setup \/ UidNext \/ ThermalNext \/ ResourceNext

Spec == Init /\ [][Next]_vars

----------------------------------------------------------------------------
(* Properties *)

UidsAtRest == mLock = "free" /\ topNotice = {}

\* The uid that is served first is on top, though the policy tells the
\* controller of new top uids after it has released its lock and does not tell
\* it at all when uids come and go: unless the set that it told last was
\* overtaken by such a change.
FrontIsTop ==
  UidsAtRest /\ ~stale /\ GetTopUids # {} =>
    \A u \in Uid : IsFront(uidSortedList, u) => u \in GetTopUids

\* Once all changes are handled, the policy has the state of each monitored uid,
\* though registerMonitorUid reads it while changes of it are on their way.
StatesConverge ==
  uidEvents = <<>> =>
    \A u \in Monitored : uidState[u] \in {importance[u], UNKNOWN}

\* The controller and the policy watch the same uids.
MonitoredAreListed ==
  mLock \notin App => Monitored = Elems(uidSortedList) \ {OfflineUid}

\* A uid that goes while it is monitored loses its sessions, whatever the policy
\* knew of it, if that was not that it is gone: an app that dies between the two
\* questions of registerMonitorUid is stored as gone, and its end is no news.
GoneIsRemoved ==
  \A u \in App :
    (u \in Monitored /\ uidState[u] # GONE /\ \E i \in DOMAIN uidEvents : uidEvents[i] = <<u, GONE>>)
      ~> u \notin Monitored

\* Once all changes are handled, the controller throttles exactly when the
\* device asks for it, unless a change came before setCallback.
ThrottlingIsHeard ==
  setup = "ready" /\ hotEvents = <<>> /\ hotNotice = "none" =>
    /\ isThrottling = hot
    /\ thermalThrottling # hot => missed

\* While the controller waits for a codec the policy waits for one as well, or
\* is about to say that there is one, whichever way onResourceLost and
\* onResourceAvailable interleave: exactly if the session that lost its codec
\* named its process.  For one with USE_CALLING_PID nobody watches.
LostIsWatched ==
  resourceLost => (resourceLostPid # NoPid \/ freeNotice <=> lostPid # NoPid)
=============================================================================
