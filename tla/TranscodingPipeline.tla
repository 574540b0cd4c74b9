------------------------ MODULE TranscodingPipeline ------------------------
(***************************************************************************)
(* The session controller with the transcoder wrappers it drives.  A call  *)
(* of the controller becomes an event in the queue of its wrapper; a       *)
(* callback of a wrapper's thread is an entry point of the controller and  *)
(* waits for its lock.  The controller's view of a session and the         *)
(* wrapper's are therefore apart by the events in between: this module is  *)
(* about what happens in that gap.                                         *)
(***************************************************************************)
EXTENDS SessionController, Bags

CONSTANTS
    Wrapper,     \* slots for wrappers that exist at the same time
    NoWrapper,   \* nullptr
    MaxStuck,    \* bound: wrappers at a time whose handler never returns
    MaxMoves     \* bound: how often clients and policies act, submissions aside

ASSUME WrapperAssumption == NoWrapper \notin Wrapper /\ MaxStuck \in Nat

VARIABLES
    current, alive, queue, running, pausedState, callback, notices,  \* see TranscoderWrapper
    submitted,   \* session keys handed out: ClientImpl never uses one twice
    moves        \* how often clients and policies have acted

W == INSTANCE TranscoderWrapper

wrapperVars == <<current, alive, queue, running, pausedState, callback, notices>>
allVars == <<vars, wrapperVars, submitted, moves>>

PipelineInit ==
    /\ Init
    /\ W!WrapperInit
    /\ submitted = {}
    /\ moves = 0

(* A step of the controller on its own: its calls reach the wrapper. *)
Drives == W!TakeCalls(out') /\ UNCHANGED <<callback, submitted>>

(* The next of the keys that a client has not used (mNextSessionId); they   *)
(* are interchangeable.                                                     *)
NextKey(client) == CHOOSE k \in Key \ submitted : k[1] = client

SubmitNew ==
    /\ \E k \in Key \ submitted, c \in CallingUid, u \in Uid, onTop \in BOOLEAN :
        /\ k = NextKey(k[1])
        /\ Submit(k, c, u, onTop)
        /\ submitted' = submitted \cup {k}
    /\ UNCHANGED <<wrapperVars, moves>>

ClientOrPolicy ==
    /\ moves < MaxMoves
    /\ moves' = moves + 1
    /\ \/ \E k \in Key, u \in RealTimeUid, onTop \in BOOLEAN : AddClientUid(k, u, onTop)
       \/ \E k \in Key : Cancel(k)
       \/ \E c \in Client : CancelAll(c)
       \/ PolicyStep
    /\ Drives

LockHolder == LockHolderStep /\ Drives /\ UNCHANGED moves

(* Bound: a timeout that would need another wrapper waits for a free slot. *)
Timeout ==
    /\ Wrapper \ alive # {}
    /\ WatchdogTimeout
    /\ Drives
    /\ UNCHANGED moves

ReportTimeout ==
    /\ Wrapper \ alive # {}
    /\ OnWatchdogError
    /\ Drives
    /\ UNCHANGED moves

(* The wrapper's thread gets the controller's lock and makes its callback,  *)
(* which the controller may ignore.                                         *)
Callback(w) ==
    LET c == callback[w]
        lost == c.name = "onResourceLost"
        heeded == Heeded(c.key) /\ (lost => ~resourceLost /\ IsRunning(c.key))
    IN  /\ c # W!NoCallback
        /\ phase = "idle"
        /\ \/ ~lost /\ OnFinishOrError(c.key)
           \/ lost /\ OnResourceLost(c.key)
           \/ ~heeded /\ UNCHANGED vars
        /\ callback' = [callback EXCEPT ![w] = W!NoCallback]
        /\ UNCHANGED <<current, alive, queue, running, pausedState, notices, submitted, moves>>

(* The wrapper's thread handles an event, a MediaTranscoder comes to an end *)
(* or reports it.                                                           *)
HandleEvent(w) == W!Handle(w) /\ UNCHANGED <<vars, submitted, moves>>

RunEnds(w) ==
    /\ W!TranscoderFinishes(w) \/ W!TranscoderFails(w)
    /\ UNCHANGED <<vars, submitted, moves>>

NoticeArrives ==
    /\ \E n \in DOMAIN notices : W!Notify(n)
    /\ UNCHANGED <<vars, submitted, moves>>

PipelineNext ==
    \/ SubmitNew \/ ClientOrPolicy \/ LockHolder
    \/ Timeout \/ ReportTimeout
    \/ \E w \in Wrapper : Callback(w) \/ HandleEvent(w) \/ RunEnds(w)
    \/ NoticeArrives

PipelineSpec == PipelineInit /\ [][PipelineNext]_allVars

(* No heart-beat comes for the session that is being watched: the wrapper   *)
(* does not run it, or its threads hang.                                    *)
Silent == \A w \in Wrapper : w = current => running[w].key # watched \/ W!Stuck(w)

(* Threads that have something to do go on, but a handler that waits for    *)
(* the threads of a run may hang instead of returning; a media file has an  *)
(* end, and the timer of the watchdog expires when heart-beats stay away.   *)
(* Clients and policies owe nothing.                                        *)
PipelineFairness ==
    /\ WF_allVars(LockHolder)
    /\ WF_allVars(Timeout /\ Silent)
    /\ WF_allVars(ReportTimeout)
    /\ \A w \in Wrapper : WF_allVars(Callback(w) \/ HandleEvent(w)) /\ WF_allVars(RunEnds(w))
    /\ WF_allVars(NoticeArrives)

FairPipelineSpec == PipelineSpec /\ PipelineFairness
-----------------------------------------------------------------------------
PipelineTypeOK == TypeOK /\ W!WrapperTypeOK

(* The next event of w's queue, when its thread is ready for it, is of type *)
(* and about k.                                                             *)
About(w, type, k) ==
    /\ W!Looping(w)
    /\ queue[w] # <<>>
    /\ Head(queue[w]).type = type /\ Head(queue[w]).key = k

(* Nothing is in flight between the controller and its wrapper. *)
Settled ==
    /\ phase = "idle"
    /\ notices = EmptyBag
    /\ \A w \in Wrapper : queue[w] = <<>> /\ callback[w] = W!NoCallback

(* handlePause pauses whatever runs, with a warning "that's not current     *)
(* session" if it is another session: through all late ends, errors and     *)
(* timeouts, a Pause only ever meets the session it was meant for.          *)
PauseHitsItsSession ==
    \A w \in Wrapper, k \in Key :
        About(w, "Pause", k) /\ running[w] # W!NoRun => running[w].key = k

(* Once everything in flight has arrived, the session that the controller   *)
(* believes to be running is the one that its wrapper transcodes, and not   *)
(* one that the wrapper is stuck in pausing or stopping.                    *)
RunnerIsDriven ==
    Settled => \A k \in Sessions : StateOf(k) = "RUNNING" =>
        \E w \in Wrapper : w = current /\ running[w].key = k /\ ~W!Stuck(w)

(* "This is required when resuming" (reportError): when a session that has  *)
(* not ended is resumed, its wrapper has a paused state for it.             *)
ResumeFindsState ==
    \A w \in Wrapper, k \in Sessions : About(w, "Resume", k) => k \in pausedState[w]

(* No session runs forever: it ends, is paused or, when its wrapper was     *)
(* taken away or is stuck in a handler, is failed by the watchdog.          *)
RunnerStops == \A k \in Key : IsRunning(k) ~> ~IsRunning(k)

(* Abandoning leaks a thread only if that thread is stuck: the thread of a  *)
(* wrapper that the watchdog has abandoned exits, whatever was queued for   *)
(* it, unless a pause() or cancel() that it is in never returns.            *)
AbandonedExit == []<>(\A w \in alive \ {current} : W!Stuck(w))
-----------------------------------------------------------------------------
(* What every step preserves and the invariants above need to be inductive. *)

(* Each event but Abandon is about a session. *)
ProperEvent ==
    [type : {"Start", "Pause", "Resume", "Stop", "Finish"}, key : Key]
        \cup [type : {"Error"}, key : Key, err : {"resource", "other"}]
        \cup [type : {"Abandon"}, key : {NoSession}]

(* What a thread of a MediaTranscoder reports, to a wrapper that exists.    *)
ProperNotice ==
    [wrapper : alive, event : {e \in ProperEvent : e.type \in {"Finish", "Error"}}]

ProperlyTyped ==
    /\ alive \subseteq Wrapper
    /\ queue \in [Wrapper -> Seq(ProperEvent)]
    /\ running \in [Wrapper -> W!Run \cup {W!NoRun}]
    /\ pausedState \in [Wrapper -> SUBSET Key]
    /\ callback \in [Wrapper -> W!Callback \cup {W!NoCallback}]
    /\ IsABag(notices) /\ DOMAIN notices \subseteq ProperNotice

(* The controller's wrapper exists from its first decision on and is never  *)
(* one that was abandoned; a slot that is free is as good as new.           *)
SlotsAreClean ==
    /\ IF transcoderReady THEN current \in alive ELSE current = NoWrapper
    /\ \A k \in Sessions : Heeded(k) => transcoderReady
    /\ \A w \in Wrapper :
        /\ \A i \in DOMAIN queue[w] : queue[w][i].type = "Abandon" => w # current
        /\ w \notin alive =>
            queue[w] = <<>> /\ running[w] = W!NoRun /\ callback[w] = W!NoCallback

(* An event that changes which session a wrapper runs. *)
Switches(e) == e.type \in {"Start", "Resume", "Pause"}

(* Once the first i - 1 events of q are handled, the wrapper whose run is r *)
(* now runs k or nothing.                                                   *)
Meets(q, r, i, k) ==
    \/ \E j \in 1..(i - 1) :
        /\ q[j].type \in {"Start", "Resume"} /\ q[j].key = k
        /\ \A m \in (j + 1)..(i - 1) : ~Switches(q[m])
    \/ /\ \A m \in 1..(i - 1) : ~Switches(q[m])
       /\ r.key \in {k, NoSession}

PausesMeet(q, r) ==
    \A i \in DOMAIN q : q[i].type = "Pause" => Meets(q, r, i, q[i].key)

(* A Pause will meet its session, and a Pause sent now would meet the       *)
(* session that the controller believes to be running.                      *)
PausesWillMeet ==
    /\ \A w \in Wrapper : PausesMeet(queue[w], running[w])
    /\ \A k \in Key : IsRunning(k) =>
        Meets(queue[current], running[current], Len(queue[current]) + 1, k)

PipelineInv == ProperlyTyped /\ SlotsAreClean /\ PausesWillMeet

(* k is run by a wrapper, or is about to be, or is about to be reported.    *)
ComesFrom(q, run, call, k) ==
    \/ call.key = k
    \/ run.key = k /\ run.threads # "stuck"
    \/ \E i \in DOMAIN q : q[i].type \in {"Start", "Resume"} /\ q[i].key = k

(* Without timeouts, so it is with the session that the controller believes *)
(* to be running, and a Stop never hits one that has not ended.             *)
RunnerIsComing ==
    /\ Sessions \subseteq submitted
    /\ \A w \in Wrapper : \A i \in DOMAIN queue[w] :
        queue[w][i].type = "Stop" => queue[w][i].key \in submitted \ Sessions
    /\ \A k \in Key : IsRunning(k) =>
        ComesFrom(queue[current], running[current], callback[current], k)
=============================================================================
