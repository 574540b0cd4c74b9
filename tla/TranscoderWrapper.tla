------------------------- MODULE TranscoderWrapper -------------------------
(***************************************************************************)
(* TranscoderWrapper: runs one MediaTranscoder at a time for the session   *)
(* controller.  Calls of the controller and callbacks of the              *)
(* MediaTranscoder become events of one queue, which one thread handles in *)
(* order.  A handler may call the controller back; the thread then waits   *)
(* for the controller's lock (callback).                                   *)
(*                                                                         *)
(* A wrapper that the controller abandons handles its queue up to the      *)
(* Abandon event and is gone; the controller goes on with a new one, so    *)
(* several are alive at a time.  Each occupies a slot of Wrapper, free to  *)
(* be used again once its thread has exited.                               *)
(*                                                                         *)
(* MediaTranscoder is reduced to how a run ends.  Its threads finish the   *)
(* file or fail; the outcome is reported by a thread of its own            *)
(* (asyncNotificationThread), which may be arbitrarily late (notices).     *)
(* Progress and heart-beat events change nothing here and are left out.    *)
(***************************************************************************)
EXTENDS Naturals, Sequences, FiniteSets, Bags

CONSTANTS
    Key,        \* <client id, session id>
    Wrapper,    \* slots for the wrappers that exist at the same time
    NoWrapper,  \* nullptr
    NoSession,  \* nullptr
    MaxStuck    \* bound: how many wrappers at a time have a handler that never returns

VARIABLES
    current,      \* the wrapper that mTranscoder of the controller points to
    alive,        \* wrappers whose thread has not exited
    queue,        \* mQueue
    running,      \* mTranscoder with mCurrentClientId and mCurrentSessionId
    pausedState,  \* the keys of mPausedStateMap
    callback,     \* the call to the controller that the wrapper's thread is making
    notices       \* what asyncNotificationThreads have yet to report

wrapperVars == <<current, alive, queue, running, pausedState, callback, notices>>

Event == [type : {"Start", "Pause", "Resume", "Stop", "Finish", "Abandon"}, key : Key \cup {NoSession}]
            \cup [type : {"Error"}, key : Key, err : {"resource", "other"}]

(* The run of a MediaTranscoder: its threads are busy ("busy"), done with   *)
(* the file ("done"), stopped by an error of their own, which sets          *)
(* mCancelled ("failed"), or never all done, with the thread of the wrapper *)
(* waiting for them in pause() or cancel() ("stuck").                       *)
Run == [key : Key, threads : {"busy", "done", "failed", "stuck"}]
NoRun == [key |-> NoSession, threads |-> "none"]

Callback == [name : {"onFinish", "onError", "onResourceLost"}, key : Key]
NoCallback == [name |-> "none", key |-> NoSession]

FinishNotice(w, k) == [wrapper |-> w, event |-> [type |-> "Finish", key |-> k]]
ErrorNotice(w, k, err) == [wrapper |-> w, event |-> [type |-> "Error", key |-> k, err |-> err]]

WrapperInit ==
    /\ current = NoWrapper
    /\ alive = {}
    /\ queue = [w \in Wrapper |-> <<>>]
    /\ running = [w \in Wrapper |-> NoRun]
    /\ pausedState = [w \in Wrapper |-> {}]
    /\ callback = [w \in Wrapper |-> NoCallback]
    /\ notices = EmptyBag
-----------------------------------------------------------------------------
(* The calls of the controller.  start, pause, resume and stop queue an     *)
(* event; stop with abandon queues a second one.                            *)

EventOf(call) ==
    [type |-> CASE call.op = "start" -> "Start"
                [] call.op = "pause" -> "Pause"
                [] call.op = "resume" -> "Resume"
                [] call.op = "stop" -> "Stop"
                [] call.op = "abandon" -> "Abandon",
     key |-> call.key]

(* The controller makes calls, in order, to the wrapper it has now; a       *)
(* "create" (the factory), always the first of them or the last, gives it a *)
(* new one, in any free slot.                                               *)
TakeCalls(calls) ==
    LET created == \E i \in DOMAIN calls : calls[i].op = "create"
        createdFirst == calls # <<>> /\ calls[1].op = "create"
        events == [i \in 1..(Len(calls) - IF created THEN 1 ELSE 0) |->
                        EventOf(calls[IF createdFirst THEN i + 1 ELSE i])]
        post(w) == queue' = IF events = <<>> THEN queue ELSE [queue EXCEPT ![w] = @ \o events]
        fresh == CHOOSE w \in Wrapper \ alive : TRUE
    IN  /\ IF created
           THEN /\ Wrapper \ alive # {}
                /\ alive' = alive \cup {fresh}
                /\ current' = fresh
                /\ post(IF createdFirst THEN fresh ELSE current)
           ELSE post(current) /\ UNCHANGED <<alive, current>>
        /\ UNCHANGED <<running, pausedState, notices>>
-----------------------------------------------------------------------------
(* The threads of the MediaTranscoder.                                      *)

(* An asyncNotificationThread is detached for each of events. *)
Reports(events) == notices' = notices (+) SetToBag(events)

ThreadsEnd(w, threads, notice) ==
    /\ running[w].threads = "busy"
    /\ running' = [running EXCEPT ![w].threads = threads]
    /\ Reports({notice})
    /\ UNCHANGED <<current, alive, queue, pausedState, callback>>

TranscoderFinishes(w) == ThreadsEnd(w, "done", FinishNotice(w, running[w].key))

TranscoderFails(w) ==
    \E err \in {"resource", "other"} :
        ThreadsEnd(w, "failed", ErrorNotice(w, running[w].key, err))

(* asyncNotificationThread calls onFinished or onError, which queues an     *)
(* event.                                                                   *)
Notify(n) ==
    /\ BagIn(n, notices)
    /\ notices' = notices (-) SetToBag({n})
    /\ queue' = [queue EXCEPT ![n.wrapper] = Append(@, n.event)]
    /\ UNCHANGED <<current, alive, running, pausedState, callback>>
-----------------------------------------------------------------------------
(* The event handlers.  Each is a step of the wrapper's thread, which is    *)
(* neither in a callback nor stuck.                                         *)

(* The thread of w waits in pause() or cancel() for ever. *)
Stuck(w) == running[w].threads = "stuck"

Looping(w) == w \in alive /\ callback[w] = NoCallback /\ ~Stuck(w)

Pops(w, type) ==
    /\ Looping(w)
    /\ queue[w] # <<>> /\ Head(queue[w]).type = type
    /\ queue' = [queue EXCEPT ![w] = Tail(@)]
    /\ UNCHANGED <<current, alive>>

Calls(w, name, k) == callback' = [callback EXCEPT ![w] = [name |-> name, key |-> k]]

(* reportError, with states as mPausedStateMap of w: a session that lost    *)
(* its codec gets a placeholder, which resuming it needs.                   *)
ReportError(w, k, err, states) ==
    IF err = "resource"
    THEN /\ pausedState' = [pausedState EXCEPT ![w] = states \cup {k}]
         /\ Calls(w, "onResourceLost", k)
    ELSE /\ pausedState' = [pausedState EXCEPT ![w] = states]
         /\ Calls(w, "onError", k)

(* The end of the Start and Resume handlers: setupTranscoder and start() or *)
(* resume() succeed, or something fails, always so when a MediaTranscoder   *)
(* is there already; failure cleans up whatever is there.                   *)
SetUp(w, k, states) ==
    \/ /\ running[w] = NoRun
       /\ running' = [running EXCEPT ![w] = [key |-> k, threads |-> "busy"]]
       /\ pausedState' = [pausedState EXCEPT ![w] = states]
       /\ UNCHANGED callback
    \/ /\ running' = [running EXCEPT ![w] = NoRun]
       /\ \E err \in IF running[w] = NoRun THEN {"resource", "other"} ELSE {"other"} :
            ReportError(w, k, err, states)

HandleStart(w) ==
    /\ Pops(w, "Start")
    /\ SetUp(w, Head(queue[w]).key, pausedState[w])
    /\ UNCHANGED notices

HandleResume(w) ==
    LET k == Head(queue[w]).key
    IN  /\ Pops(w, "Resume")
        /\ IF k \in pausedState[w]
           THEN SetUp(w, k, pausedState[w] \ {k})
           ELSE /\ running' = [running EXCEPT ![w] = NoRun]
                /\ ReportError(w, k, "other", pausedState[w])
        /\ UNCHANGED notices

(* What waiting for the threads of a run to stop may leave to be reported:  *)
(* nothing, or the end or the error that they met on the way.               *)
Leftovers(w) ==
    LET k == running[w].key
    IN  IF running[w].threads = "busy"
        THEN {{}, {FinishNotice(w, k)}, {ErrorNotice(w, k, "resource")}, {ErrorNotice(w, k, "other")}}
        ELSE {{}}

(* pause() of a MediaTranscoder that stopped itself is an error; a run that *)
(* just ended pauses all the same.  In each case the wrapper lets it go.    *)
HandlePause(w) ==
    LET k == Head(queue[w]).key
    IN  /\ Pops(w, "Pause")
        /\ running' = [running EXCEPT ![w] = NoRun]
        /\ IF running[w] = NoRun \/ running[w].threads = "failed"
           THEN ReportError(w, k, "other", pausedState[w]) /\ UNCHANGED notices
           ELSE /\ pausedState' = [pausedState EXCEPT ![w] = @ \cup {k}]
                /\ \E left \in Leftovers(w) : Reports(left)
                /\ UNCHANGED callback

HandleStop(w) ==
    LET k == Head(queue[w]).key
    IN  /\ Pops(w, "Stop")
        /\ IF running[w].key = k
           THEN /\ running' = [running EXCEPT ![w] = NoRun]
                /\ \E left \in Leftovers(w) : Reports(left)
                /\ UNCHANGED pausedState
           ELSE /\ pausedState' = [pausedState EXCEPT ![w] = @ \ {k}]
                /\ UNCHANGED <<running, notices>>
        /\ UNCHANGED callback

(* handlePause or the Stop handler does not return: pause() and cancel()    *)
(* wait for the threads of a run that is not over, and a hung codec, or an  *)
(* error during pause() (see MediaTranscoder), makes that wait endless.     *)
HandlerHangs(w) ==
    /\ \/ Pops(w, "Pause")
       \/ Pops(w, "Stop") /\ running[w].key = Head(queue[w]).key
    /\ running[w].threads = "busy"
    /\ Cardinality({v \in Wrapper : Stuck(v)}) < MaxStuck
    /\ running' = [running EXCEPT ![w].threads = "stuck"]
    /\ UNCHANGED <<pausedState, callback, notices>>

(* Mutant: a late report lets go of whatever runs. *)
LetGoAny(w, k) == running' = [running EXCEPT ![w] = NoRun]

(* onFinish and onError: the run is let go if it is the session's. *)
LetGo(w, k) ==
    running' = IF running[w].key = k THEN [running EXCEPT ![w] = NoRun] ELSE running

HandleFinish(w) ==
    LET k == Head(queue[w]).key
    IN  /\ Pops(w, "Finish")
        /\ LetGo(w, k)
        /\ Calls(w, "onFinish", k)
        /\ UNCHANGED <<pausedState, notices>>

HandleError(w) ==
    LET e == Head(queue[w])
    IN  /\ Pops(w, "Error")
        /\ LetGo(w, e.key)
        /\ ReportError(w, e.key, e.err, pausedState[w])
        /\ UNCHANGED notices

(* The thread exits and the wrapper goes with it; callbacks of its          *)
(* MediaTranscoders no longer find their owner.                             *)
HandleAbandon(w) ==
    /\ Looping(w)
    /\ queue[w] # <<>> /\ Head(queue[w]).type = "Abandon"
    /\ alive' = alive \ {w}
    /\ queue' = [queue EXCEPT ![w] = <<>>]
    /\ running' = [running EXCEPT ![w] = NoRun]
    /\ pausedState' = [pausedState EXCEPT ![w] = {}]
    /\ notices' = [n \in {m \in DOMAIN notices : m.wrapper # w} |-> notices[n]]
    /\ UNCHANGED <<current, callback>>

Handle(w) ==
    \/ HandleStart(w) \/ HandlePause(w) \/ HandleResume(w) \/ HandleStop(w)
    \/ HandlerHangs(w)
    \/ HandleFinish(w) \/ HandleError(w) \/ HandleAbandon(w)

WrapperTypeOK ==
    /\ current \in alive \cup {NoWrapper}
    /\ alive \subseteq Wrapper
    /\ queue \in [Wrapper -> Seq(Event)]
    /\ running \in [Wrapper -> Run \cup {NoRun}]
    /\ pausedState \in [Wrapper -> SUBSET Key]
    /\ callback \in [Wrapper -> Callback \cup {NoCallback}]
    /\ IsABag(notices)
=============================================================================
