------------------------- MODULE SessionController -------------------------
(***************************************************************************)
(* TranscodingSessionController: which transcoding session runs.  Clients  *)
(* submit and cancel sessions; the uid, resource and thermal policies      *)
(* reorder, pause and unblock them; the transcoder reports back what       *)
(* became of the session it runs; a watchdog thread fails a session that   *)
(* stops reporting.  Every entry point holds mLock throughout.             *)
(*                                                                         *)
(* The code that runs under mLock loops: cancel() and onUidGone() remove   *)
(* several sessions, and updateCurrentSession_l() drops sessions that are  *)
(* over quota until it finds one to run.  One iteration is one step here.  *)
(* The variable phase is where the holder of mLock stands; entry points    *)
(* wait for "idle", so between two steps of one handler only the watchdog  *)
(* thread, which has its own lock, can move.                               *)
(***************************************************************************)
EXTENDS UidList, Pacer, Sequences, FiniteSets

CONSTANTS
    Client,      \* client ids
    SessionId,   \* session ids
    CallingUid,  \* uids that call submit: an app itself, or MediaProvider for other apps
    NoSession    \* nullptr

Key == Client \X SessionId
RealTimeUid == Uid \ {OfflineUid}

ASSUME NoSessionAssumption == NoSession \notin Key
ASSUME MtpAssumption == MtpUid \subseteq Uid

VARIABLES
    sessionMap,         \* mSessionMap: the sessions that have not ended
    sessionQueues,      \* mSessionQueues: uid -> its sessions in order of submission
    uidSortedList,      \* mUidSortedList
    currentSession,     \* mCurrentSession
    resourceLost,       \* mResourceLost
    thermalThrottling,  \* mThermalThrottling
    uidHistory,         \* mPacer->mUidHistoryMap
    transcoderReady,    \* mTranscoder # nullptr, mWatchdog # nullptr
    watched,            \* mWatchdog->mSessionToWatch while mActive, NoSession otherwise
    timedOut,           \* the key that the watchdog thread copied and is about to report
    phase,              \* where the holder of mLock stands, "idle" when it is free
    toRemove,           \* sessionsToRemove, not yet processed
    toTrim,             \* sessionsForOffline or sessionsForOtherUids, not yet processed
    keepUids,           \* the uids for which keepUid answers true
    out                 \* the calls to the transcoder that the last step made, in order

schedVars == <<sessionMap, sessionQueues, uidSortedList, currentSession>>
policyVars == <<resourceLost, thermalThrottling>>
watchdogVars == <<watched, timedOut>>
lockVars == <<phase, toRemove, toTrim, keepUids>>
vars == <<schedVars, policyVars, uidHistory, transcoderReady, watchdogVars, lockVars, out>>

SessionState == {"NOT_STARTED", "RUNNING", "PAUSED"}
Session == [state : SessionState, allClientUids : SUBSET Uid, callingUid : CallingUid]

Sessions == DOMAIN sessionMap
StateOf(k) == sessionMap[k].state
UidsOf(k) == sessionMap[k].allClientUids
IsRunning(k) == k \in Sessions /\ StateOf(k) = "RUNNING"

Call(op, k) == [op |-> op, key |-> k]

Init ==
    /\ sessionMap = [k \in {} |-> {}]
    /\ sessionQueues = [u \in {OfflineUid} |-> <<>>]
    /\ uidSortedList = {<<OfflineUid, OfflineUid>>}
    /\ currentSession = NoSession
    /\ resourceLost = FALSE
    /\ thermalThrottling \in BOOLEAN
    /\ uidHistory = [u \in Uid |-> NoHistory]
    /\ transcoderReady = FALSE
    /\ watched = NoSession
    /\ timedOut = NoSession
    /\ phase = "idle"
    /\ toRemove = {} /\ toTrim = {} /\ keepUids = {}
    /\ out = <<>>
-----------------------------------------------------------------------------
(* The watchdog, and the session state changes that start and stop it.      *)

(* start() has no effect on a watchdog that is active. *)
WatchdogStart(w, k) == IF w = NoSession THEN k ELSE w

(* Mutants: a session that stops running does not stop the watchdog; any    *)
(* session that changes its state does.                                     *)
LeaveStateWatched(w, k) == w
LeaveStateUnwatched(w, k) == NoSession

(* What is watched after setSessionState_l takes k out of its state. *)
LeaveState(w, k) == IF StateOf(k) = "RUNNING" THEN NoSession ELSE w

(* threadLoop: wait_until timed out.  The key is copied and mLock of the    *)
(* watchdog released; the report waits for the controller's lock.          *)
WatchdogTimeout ==
    /\ watched # NoSession
    /\ timedOut = NoSession
    /\ watched' = NoSession
    /\ timedOut' = watched
    /\ out' = <<>>
    /\ UNCHANGED <<schedVars, policyVars, uidHistory, transcoderReady, lockVars>>
-----------------------------------------------------------------------------
(* addUidToSession_l and removeSession_l.                                   *)

(* mSessionQueues[uid]: reading a missing entry inserts an empty queue. *)
QueueOf(u) == IF u \in DOMAIN sessionQueues THEN sessionQueues[u] ELSE <<>>

Holds(q, k) == \E i \in 1..Len(q) : q[i] = k

(* sessionQueue.erase(std::find(begin, end, k)). *)
Without(q, k) ==
    LET at == CHOOSE i \in 1..Len(q) : q[i] = k
    IN  IF Holds(q, k)
        THEN [i \in 1..(Len(q) - 1) |-> IF i < at THEN q[i] ELSE q[i + 1]]
        ELSE q

(* The order of the uids once uid has one more session; onTop is the answer *)
(* of mUidPolicy->isUidOnTop(uid).                                          *)
ListWithUid(uid, onTop) ==
    IF uid = OfflineUid THEN uidSortedList
    ELSE IF uid \notin DOMAIN sessionQueues
         THEN IF onTop THEN PushFront(uidSortedList, uid)
                       ELSE InsertBeforeOffline(uidSortedList, uid)
         ELSE IF onTop THEN PushFront(EraseAll(uidSortedList, {uid}), uid)
                       ELSE uidSortedList

AddUidToSession(uid, k, onTop) ==
    /\ uidSortedList' = ListWithUid(uid, onTop)
    /\ sessionQueues' = [u \in DOMAIN sessionQueues \cup {uid} |->
                            IF u = uid THEN Append(QueueOf(u), k) ELSE sessionQueues[u]]

(* Mutant: an empty real-time queue is left behind. *)
RemoveFromQueuesOnly(k, uids, topUids) ==
    /\ sessionQueues' = [u \in DOMAIN sessionQueues |->
                            IF u \in uids THEN Without(QueueOf(u), k) ELSE sessionQueues[u]]
    /\ UNCHANGED uidSortedList

(* The part of removeSession_l that takes k out of the queues of uids, and  *)
(* removes the real-time queues this leaves empty; topUids is the answer of *)
(* mUidPolicy->getTopUids().                                                *)
RemoveFromQueues(k, uids, topUids) ==
    LET emptied == {u \in uids \ {OfflineUid} :
                        Holds(QueueOf(u), k) /\ Without(QueueOf(u), k) = <<>>}
        remaining == EraseAll(uidSortedList, emptied)
    IN  /\ sessionQueues' = [u \in (DOMAIN sessionQueues \cup uids) \ emptied |->
                                IF u \in uids THEN Without(QueueOf(u), k)
                                              ELSE sessionQueues[u]]
        /\ uidSortedList' = IF emptied = {} \/ topUids = {} THEN remaining
                            ELSE MoveUidsToTop(remaining, topUids, FALSE)

(* Mutant: mCurrentSession is left dangling. *)
CurrentDangles(k) == currentSession

CurrentAfterRemoval(k) == IF currentSession = k THEN NoSession ELSE currentSession

(* removeSession_l without keepUid: k ends.  map and w are mSessionMap and  *)
(* the watchdog at the call; reached are the uids whose burst time k's      *)
(* running time brings to the quota: none if it never ran.                  *)
RemoveSession(k, map, w, topUids, reached) ==
    /\ StateOf(k) = "NOT_STARTED" => reached = {}
    /\ RemoveFromQueues(k, UidsOf(k), topUids)
    /\ currentSession' = CurrentAfterRemoval(k)
    /\ watched' = LeaveState(w, k)
    /\ uidHistory' = [u \in Uid |->
                        IF u \in UidsOf(k)
                        THEN OnSessionCompleted(uidHistory[u], u \in reached)
                        ELSE uidHistory[u]]
    /\ sessionMap' = [j \in Sessions \ {k} |-> map[j]]

(* removeSession_l with keepUid: k stays, for the uids it keeps. *)
TrimSession(k, keep, topUids) ==
    /\ RemoveFromQueues(k, UidsOf(k) \ keep, topUids)
    /\ uidHistory' = [u \in Uid |-> IF u \in UidsOf(k) \ keep
                                    THEN OnSessionCancelled(uidHistory[u])
                                    ELSE uidHistory[u]]
    /\ sessionMap' = [sessionMap EXCEPT ![k].allClientUids = @ \cap keep]
    /\ UNCHANGED <<currentSession, watched>>
-----------------------------------------------------------------------------
(* updateCurrentSession_l.                                                  *)

GloballyPaused == resourceLost \/ thermalThrottling

(* Mutant: whatever runs goes on, whoever is on top. *)
IsTopSessionSticky(k) ==
    IF Sessions = {} \/ GloballyPaused
    THEN k = NoSession
    ELSE IF IsRunning(currentSession) THEN k = currentSession
    ELSE \E u \in Uid : IsFront(uidSortedList, u) /\ k = sessionQueues[u][1]

(* k is the answer of getTopSession_l. *)
IsTopSession(k) ==
    IF Sessions = {} \/ GloballyPaused
    THEN k = NoSession
    ELSE \E u \in Uid :
            /\ IsFront(uidSortedList, u)
            /\ k = IF IsRunning(currentSession) /\ u \in UidsOf(currentSession)
                   THEN currentSession
                   ELSE sessionQueues[u][1]

(* The call that pauses the current session, if it runs. *)
PauseCall == IF IsRunning(currentSession) THEN <<Call("pause", currentSession)>> ELSE <<>>

(* Delayed init of transcoder and watchdog. *)
CreateCall == IF transcoderReady THEN <<>> ELSE <<Call("create", NoSession)>>

(* Mutant: the next session is run before the current one is paused. *)
SwitchCallsSwapped(op, top) == CreateCall \o <<Call(op, top)>> \o PauseCall

(* The calls that put top in the place of the current session; op is start  *)
(* or resume.                                                               *)
SwitchCalls(op, top) == CreateCall \o PauseCall \o <<Call(op, top)>>

WatchdogAfterPause ==
    IF IsRunning(currentSession) THEN NoSession ELSE watched

(* Mutant: the current session keeps its state. *)
PausedMapForgotten == sessionMap

(* Every session in the state it has once the current one is paused. *)
PausedMap ==
    [k \in Sessions |-> IF k = currentSession /\ IsRunning(k)
                        THEN [sessionMap[k] EXCEPT !.state = "PAUSED"]
                        ELSE sessionMap[k]]

Releases == phase' = "idle" /\ UNCHANGED <<toRemove, toTrim, keepUids>>

(* The loop condition fails: the right session is running, or none is to be. *)
NothingToChange(top) ==
    /\ top = currentSession
    /\ top # NoSession => IsRunning(top)
    /\ out' = CreateCall
    /\ Releases
    /\ UNCHANGED <<schedVars, uidHistory, watched>>

(* There is no session to run, or everything is paused. *)
GoIdle(top) ==
    /\ top = NoSession /\ currentSession # NoSession
    /\ sessionMap' = PausedMap
    /\ watched' = WatchdogAfterPause
    /\ currentSession' = NoSession
    /\ out' = CreateCall \o PauseCall
    /\ Releases
    /\ UNCHANGED <<sessionQueues, uidSortedList, uidHistory>>

HasClientWithQuota(k) ==
    \E u \in UidsOf(k) : HasQuota(uidHistory[u], u, sessionMap[k].callingUid)

(* The pacer hears of the start on behalf of every uid, the ones without    *)
(* quota included; late are the uids whose last completion is long past.    *)
HistoryAfterStart(k, late) ==
    [u \in Uid |-> IF u \in UidsOf(k)
                   THEN OnSessionStarted(uidHistory[u], u, sessionMap[k].callingUid, u \in late)
                   ELSE uidHistory[u]]

(* The current session is paused and a session that never ran is started. *)
StartTop(top) ==
    /\ top \in Sessions /\ StateOf(top) = "NOT_STARTED"
    /\ HasClientWithQuota(top)
    /\ \E late \in SUBSET UidsOf(top) : uidHistory' = HistoryAfterStart(top, late)
    /\ sessionMap' = [PausedMap EXCEPT ![top].state = "RUNNING"]
    /\ watched' = WatchdogStart(WatchdogAfterPause, top)
    /\ currentSession' = top
    /\ out' = SwitchCalls("start", top)
    /\ Releases
    /\ UNCHANGED <<sessionQueues, uidSortedList>>

(* The current session is paused and a paused one is resumed. *)
ResumeTop(top) ==
    /\ top \in Sessions /\ StateOf(top) = "PAUSED"
    /\ sessionMap' = [PausedMap EXCEPT ![top].state = "RUNNING"]
    /\ watched' = WatchdogStart(WatchdogAfterPause, top)
    /\ currentSession' = top
    /\ out' = SwitchCalls("resume", top)
    /\ Releases
    /\ UNCHANGED <<sessionQueues, uidSortedList, uidHistory>>

(* Mutant: the session is not removed, so it is on top again. *)
DropTopForgets(top) ==
    /\ top \in Sessions /\ StateOf(top) = "NOT_STARTED"
    /\ ~HasClientWithQuota(top)
    /\ sessionMap' = PausedMap
    /\ watched' = WatchdogAfterPause
    /\ out' = CreateCall \o PauseCall
    /\ UNCHANGED <<sessionQueues, uidSortedList, currentSession, uidHistory, lockVars>>

(* No client of the top session has quota: it is dropped (the pacer changed *)
(* no entry, as it denied every uid) and the loop goes on.                  *)
DropTop(top) ==
    /\ top \in Sessions /\ StateOf(top) = "NOT_STARTED"
    /\ ~HasClientWithQuota(top)
    /\ \E topUids \in SUBSET RealTimeUid :
            RemoveSession(top, PausedMap, WatchdogAfterPause, topUids, {})
    /\ out' = CreateCall \o PauseCall
    /\ UNCHANGED lockVars

(* One iteration of the loop. *)
UpdateCurrentSession ==
    /\ phase = "update"
    /\ \E top \in Key \cup {NoSession} :
        /\ IsTopSession(top)
        /\ \/ NothingToChange(top)
           \/ GoIdle(top)
           \/ StartTop(top)
           \/ ResumeTop(top)
           \/ DropTop(top)
    /\ transcoderReady' = TRUE
    /\ UNCHANGED <<policyVars, timedOut>>
-----------------------------------------------------------------------------
(* Entry points.  Each needs mLock, and most leave it to                    *)
(* updateCurrentSession_l to find the next session.                         *)

ThenUpdate == phase' = "update" /\ UNCHANGED <<toRemove, toTrim, keepUids>>

(* Mutant: a session is submitted again while it is there. *)
IsNewOrKnown(k) == TRUE

IsNew(k) == k \notin Sessions

(* submit of a session that does not exist yet; a request without priority  *)
(* goes to the offline queue.                                               *)
Submit(k, callingUid, uid, onTop) ==
    /\ phase = "idle"
    /\ IsNew(k)
    /\ sessionMap' = [j \in Sessions \cup {k} |->
                        IF j = k THEN [state |-> "NOT_STARTED", allClientUids |-> {uid},
                                       callingUid |-> callingUid]
                                 ELSE sessionMap[j]]
    /\ AddUidToSession(uid, k, onTop)
    /\ ThenUpdate
    /\ out' = <<>>
    /\ UNCHANGED <<currentSession, policyVars, uidHistory, transcoderReady, watchdogVars>>

AddClientUid(k, uid, onTop) ==
    /\ phase = "idle"
    /\ k \in Sessions
    /\ uid \notin UidsOf(k)
    /\ sessionMap' = [sessionMap EXCEPT ![k].allClientUids = @ \cup {uid}]
    /\ AddUidToSession(uid, k, onTop)
    /\ ThenUpdate
    /\ out' = <<>>
    /\ UNCHANGED <<currentSession, policyVars, uidHistory, transcoderReady, watchdogVars>>

ThenRemove(remove, trim, keep) ==
    /\ phase = "idle"
    /\ phase' = "remove"
    /\ toRemove' = remove
    /\ toTrim' = trim
    /\ keepUids' = keep
    /\ out' = <<>>
    /\ UNCHANGED <<schedVars, policyVars, uidHistory, transcoderReady, watchdogVars>>

(* cancel of one session. *)
Cancel(k) == k \in Sessions /\ ThenRemove({k}, {}, {})

(* cancel with a negative session id, when a client unregisters or dies: a  *)
(* session that was submitted for offline use outlives its client.          *)
CancelAll(client) ==
    LET mine == {k \in Sessions : k[1] = client}
        offline == {k \in mine : OfflineUid \in UidsOf(k)}
    IN  ThenRemove(mine \ offline, offline, {OfflineUid})

OnUidGone(goneUid) ==
    LET used == {k \in Sessions : goneUid \in UidsOf(k)}
        shared == {k \in used : UidsOf(k) # {goneUid}}
    IN  ThenRemove(used \ shared, shared, Uid \ {goneUid})

(* One iteration of the first loop of cancel and onUidGone. *)
RemoveNext ==
    /\ phase = "remove"
    /\ \E k \in toRemove, topUids \in SUBSET RealTimeUid :
        /\ \E reached \in SUBSET UidsOf(k) :
                RemoveSession(k, sessionMap, watched, topUids, reached)
        /\ toRemove' = toRemove \ {k}
        /\ out' = IF StateOf(k) = "NOT_STARTED" THEN <<>> ELSE <<Call("stop", k)>>
    /\ UNCHANGED <<policyVars, transcoderReady, timedOut, phase, toTrim, keepUids>>

(* One iteration of their second loop. *)
TrimNext ==
    /\ phase = "remove" /\ toRemove = {}
    /\ \E k \in toTrim, topUids \in SUBSET RealTimeUid :
        /\ TrimSession(k, keepUids, topUids)
        /\ toTrim' = toTrim \ {k}
    /\ out' = <<>>
    /\ UNCHANGED <<policyVars, transcoderReady, timedOut, phase, toRemove, keepUids>>

(* Both loops are done; keepUids goes out of scope. *)
RemovalDone ==
    /\ phase = "remove" /\ toRemove = {} /\ toTrim = {}
    /\ phase' = "update"
    /\ keepUids' = {}
    /\ out' = <<>>
    /\ UNCHANGED <<schedVars, policyVars, uidHistory, transcoderReady, watchdogVars,
                   toRemove, toTrim>>

(* notifyClient: a report on a session that is gone or never ran is ignored. *)
Heeded(k) == k \in Sessions /\ StateOf(k) # "NOT_STARTED"

(* onFinish, and onError with any code but kWatchdogTimeout; they differ    *)
(* only in what the client is told.                                         *)
OnFinishOrError(k) ==
    /\ phase = "idle" /\ Heeded(k)
    /\ \E topUids \in SUBSET RealTimeUid, reached \in SUBSET UidsOf(k) :
            RemoveSession(k, sessionMap, watched, topUids, reached)
    /\ ThenUpdate
    /\ out' = <<>>
    /\ UNCHANGED <<policyVars, transcoderReady, timedOut>>

(* Mutants: the new transcoder is made first and abandoned at once; the old *)
(* one is stopped but not abandoned.                                        *)
AbandonCallsSwapped(k) ==
    <<Call("create", NoSession), Call("stop", k), Call("abandon", NoSession)>>
AbandonCallsOmitted(k) == <<Call("stop", k), Call("create", NoSession)>>

(* stop(k, true), and the factory. *)
AbandonCalls(k) == <<Call("stop", k), Call("abandon", NoSession), Call("create", NoSession)>>

(* onError(kWatchdogTimeout), called by the watchdog thread: the transcoder *)
(* is abandoned and a new one made, whatever it is doing now.               *)
OnWatchdogError ==
    LET k == timedOut
    IN  /\ phase = "idle" /\ k # NoSession
        /\ timedOut' = NoSession
        /\ IF Heeded(k)
           THEN /\ \E topUids \in SUBSET RealTimeUid, reached \in SUBSET UidsOf(k) :
                        RemoveSession(k, sessionMap, watched, topUids, reached)
                /\ out' = AbandonCalls(k)
                /\ ThenUpdate
           ELSE out' = <<>> /\ UNCHANGED <<schedVars, uidHistory, watched, lockVars>>
        /\ UNCHANGED <<policyVars, transcoderReady>>

(* The transcoder lost its codec and has already paused the session. *)
OnResourceLost(k) ==
    /\ phase = "idle" /\ Heeded(k)
    /\ ~resourceLost
    /\ StateOf(k) = "RUNNING"
    /\ sessionMap' = [sessionMap EXCEPT ![k].state = "PAUSED"]
    /\ watched' = NoSession
    /\ resourceLost' = TRUE
    /\ out' = <<>>
    /\ UNCHANGED <<sessionQueues, uidSortedList, currentSession, thermalThrottling,
                   uidHistory, transcoderReady, timedOut, lockVars>>

OnResourceAvailable ==
    /\ phase = "idle" /\ resourceLost
    /\ resourceLost' = FALSE
    /\ ThenUpdate
    /\ out' = <<>>
    /\ UNCHANGED <<schedVars, thermalThrottling, uidHistory, transcoderReady, watchdogVars>>

(* onThrottlingStarted and onThrottlingStopped. *)
OnThrottling(throttling) ==
    /\ phase = "idle" /\ thermalThrottling # throttling
    /\ thermalThrottling' = throttling
    /\ ThenUpdate
    /\ out' = <<>>
    /\ UNCHANGED <<schedVars, resourceLost, uidHistory, transcoderReady, watchdogVars>>

OnTopUidsChanged(uids) ==
    /\ phase = "idle" /\ uids # {}
    /\ uidSortedList' = MoveUidsToTop(uidSortedList, uids, TRUE)
    /\ ThenUpdate
    /\ out' = <<>>
    /\ UNCHANGED <<sessionMap, sessionQueues, currentSession, policyVars, uidHistory,
                   transcoderReady, watchdogVars>>
-----------------------------------------------------------------------------
ClientStep ==
    \/ \E k \in Key, c \in CallingUid, u \in Uid, onTop \in BOOLEAN : Submit(k, c, u, onTop)
    \/ \E k \in Key, u \in RealTimeUid, onTop \in BOOLEAN : AddClientUid(k, u, onTop)
    \/ \E k \in Key : Cancel(k)
    \/ \E c \in Client : CancelAll(c)

TranscoderStep ==
    \E k \in Key : OnFinishOrError(k) \/ OnResourceLost(k)

PolicyStep ==
    \/ \E uids \in SUBSET RealTimeUid : OnTopUidsChanged(uids)
    \/ \E u \in RealTimeUid : OnUidGone(u)
    \/ OnResourceAvailable
    \/ \E throttling \in BOOLEAN : OnThrottling(throttling)

LockHolderStep == UpdateCurrentSession \/ RemoveNext \/ TrimNext \/ RemovalDone

WatchdogStep == WatchdogTimeout \/ OnWatchdogError

Next == ClientStep \/ TranscoderStep \/ PolicyStep \/ LockHolderStep \/ WatchdogStep

Spec == Init /\ [][Next]_vars

(* The holder of mLock is an ordinary thread that never waits for another   *)
(* lock while it holds it (the transcoder only queues), so it keeps moving. *)
FairSpec == Spec /\ WF_vars(LockHolderStep)
-----------------------------------------------------------------------------
TypeOK ==
    /\ Sessions \subseteq Key
    /\ sessionMap \in [Sessions -> Session]
    /\ DOMAIN sessionQueues \subseteq Uid
    /\ sessionQueues \in [DOMAIN sessionQueues -> Seq(Key)]
    /\ uidSortedList \subseteq Uid \X Uid
    /\ currentSession \in Key \cup {NoSession}
    /\ resourceLost \in BOOLEAN /\ thermalThrottling \in BOOLEAN
    /\ uidHistory \in [Uid -> HistoryEntry]
    /\ transcoderReady \in BOOLEAN
    /\ watched \in Key \cup {NoSession}
    /\ timedOut \in Key \cup {NoSession}
    /\ phase \in {"idle", "remove", "update"}
    /\ toRemove \subseteq Key /\ toTrim \subseteq Key /\ keepUids \subseteq Uid

(* The queues and the list hold what the sessions of map name: each queued  *)
(* uid is in the list and conversely, the queue of a uid holds each session *)
(* that names the uid once and no other, and a real-time queue is never     *)
(* empty.                                                                   *)
QueuesMatch(map, queues, list) ==
    /\ DOMAIN queues = Elems(list)
    /\ \A k \in DOMAIN map :
        /\ map[k].allClientUids # {}
        /\ map[k].allClientUids \subseteq DOMAIN queues
    /\ \A u \in DOMAIN queues :
        /\ \A i, j \in 1..Len(queues[u]) : queues[u][i] = queues[u][j] => i = j
        /\ \A k \in Key :
            Holds(queues[u], k) <=> k \in DOMAIN map /\ u \in map[k].allClientUids
        /\ u # OfflineUid => queues[u] # <<>>

(* What validateState_l asserts by counting: through every addition,        *)
(* cancellation and departure, the queues and the sessions tell the same    *)
(* story, so that getTopSession_l never takes the first of an empty queue.  *)
QueuesMatchSessions == QueuesMatch(sessionMap, sessionQueues, uidSortedList)

(* mOfflineUidIterator points at the end of the list: whatever was moved,   *)
(* inserted or removed, the offline sessions are served last, and the list  *)
(* still puts any two uids in one order.                                    *)
OfflineIsLast == IsUidList(uidSortedList)

(* "Currently we only have 1 running session" (setSessionState_l): no       *)
(* handler, not even half-way, leaves two sessions running, and the one     *)
(* that runs is mCurrentSession.                                            *)
OneRunner == \A k \in Sessions : StateOf(k) = "RUNNING" => k = currentSession

(* mCurrentSession never points at a session that is gone or never ran.     *)
CurrentIsLive == currentSession # NoSession => Heeded(currentSession)

(* A session that runs is being watched, or its timeout is on its way: the  *)
(* watchdog, which ignores start() while it is active, is never left on     *)
(* another session.                                                         *)
WatchdogCoversRunner ==
    \A k \in Sessions : StateOf(k) = "RUNNING" =>
        watched = k \/ timedOut = k

(* Between two handlers the scheduling decision is the right one: nothing   *)
(* runs while the resource is lost or the device throttled; otherwise, if   *)
(* there is any session, one runs, on behalf of the first uid of the list.  *)
RightSessionRuns ==
    phase = "idle" =>
        IF GloballyPaused
        THEN \A k \in Sessions : StateOf(k) # "RUNNING"
        ELSE Sessions # {} =>
                \E u \in Uid : /\ IsFront(uidSortedList, u)
                               /\ IsRunning(currentSession)
                               /\ u \in UidsOf(currentSession)

(* The pacer counts a session as active for a uid only while the uid has a  *)
(* session that was started: no completion, cancellation or departure       *)
(* leaves a stale mark that would charge the uid for a later session.       *)
ActiveMarksAreReal ==
    \A u \in Uid : uidHistory[u].sessionActive =>
        \E k \in Sessions : u \in UidsOf(k) /\ Heeded(k)

(* A uid that is over quota stays so for ever, however long it waits: the   *)
(* pacer denies it before it looks at the time since the last completion,   *)
(* and a session that it shares with a uid that has quota starts without    *)
(* marking it active, so neither the end of that session nor a departure    *)
(* changes its entry ("book-keeping still needs to happen for the other     *)
(* uids", updateCurrentSession_l).                                          *)
OverQuotaIsFinal ==
    [][\A u \in Uid : OverQuota(uidHistory[u]) => uidHistory'[u] = uidHistory[u]]_vars

(* The watchdog only ever watches the session that runs: whatever takes a   *)
(* session out of RUNNING, or removes it, stops the watchdog with it.       *)
WatchedIsRunning == watched # NoSession => IsRunning(watched)

(* cancel and onUidGone walk lists of keys that they made before the first  *)
(* removal: no removal takes away a session that is still to come, and      *)
(* trimming a session leaves it a uid.                                      *)
PendingAreLive ==
    /\ toRemove \cup toTrim \subseteq Sessions
    /\ toRemove \cap toTrim = {}
    /\ \A k \in toTrim : UidsOf(k) \cap keepUids # {}
    /\ phase # "remove" => toRemove = {} /\ toTrim = {}

(* What every step preserves and the invariants above need to be inductive. *)
ControllerInv ==
    /\ TypeOK
    /\ QueuesMatchSessions
    /\ OfflineIsLast
    /\ OneRunner
    /\ CurrentIsLive
    /\ WatchdogCoversRunner
    /\ WatchedIsRunning
    /\ PendingAreLive
    /\ RightSessionRuns

(* The controller keeps the promises of SessionLifecycle. *)
Lifecycle == INSTANCE SessionLifecycle WITH
    life <- [k \in Key |-> IF k \in Sessions THEN StateOf(k) ELSE "ABSENT"]
LifecycleKept == Lifecycle!LifecycleSpec

(* mLock is always released again: dropping sessions that are over quota    *)
(* ends, however many there are.                                            *)
LockIsReleased == []<>(phase = "idle")
=============================================================================
