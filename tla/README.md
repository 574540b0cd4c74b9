# The media transcoding service, specified

The repository is `frameworks/av`: the media services of Android, about a
hundred loosely coupled libraries and daemons. This development is about one of
them, the **media transcoding service** (`media/libmediatranscoding`,
`services/mediatranscoding`), which converts video files in the background for
applications that cannot read the format they are stored in. It was chosen
because its core is scheduling and concurrency rather than signal processing: a
controller that many threads enter, a watchdog, a worker with an event queue,
and policies that pause, reorder and drop work while all of that is in flight.
The other services of the repository are listed in `PROJECT.json` as not
modelled, each with the reason.

All source paths below are relative to `src/media/libmediatranscoding`.

## 1. Inventory

| Part | State | Operations | Talks to |
|---|---|---|---|
| **TranscodingSessionController** | sessions, a queue per uid, the order of the uids, the current session, two global pause flags | `submit`, `cancel`, `addClientUid`; `onFinish`, `onError`, `onResourceLost`; `onTopUidsChanged`, `onUidGone`; `onResourceAvailable`; `onThrottlingStarted/Stopped` | calls the transcoder (`start`, `pause`, `resume`, `stop`), asks the uid policy, tells clients |
| **Watchdog** (in the controller) | the session being watched, a deadline | `start`, `stop`, `keepAlive`, a thread that reports timeouts | calls the controller's `onError` from its own thread |
| **Pacer** (in the controller) | per uid: active mark, count and duration of the current burst | `onSessionStarted`, `onSessionCompleted`, `onSessionCancelled` | decides whether a session may start |
| **TranscoderWrapper** | an event queue, the MediaTranscoder that runs, paused states | a thread that handles Start, Pause, Resume, Stop, Finish, Error, Abandon | calls the controller back; replaced by a new one after a timeout |
| **MediaTranscoder** | the states of its threads, stopped and callback flags | `start`, `pause`, `cancel`; `onTrackFormatAvailable`, `onThreadFinished` | reports the end of a run from a thread of its own |
| **Track transcoders** (copied and video) | stop request, buffers in use, samples in the codec | one loop each | the reader, the codec, the writer |
| **MediaSampleReaderNDK** | the position of one extractor, three positions per track, the access mode | `getSampleInfoForTrack`, `readSampleDataForTrack`, `setEnforceSequentialAccess` | the threads of all tracks wait in it for each other |
| **MediaSampleWriter** | a queue of samples, which tracks are at their end | one loop, `addTrack`, `start`, `stop` | gives buffers back to the tracks |
| **TranscodingClientManager** | registered clients, their next session id, the abandoned flag | `addClient`, `submitRequest`, `cancelSession`, `addClientUid`, `unregister`, binder death | the controller |
| **TranscodingUidPolicy** | importance of monitored uids, the top state | `registerMonitorUid`, `unregisterMonitorUid`, `onUidStateChanged` | the controller, both ways |
| **TranscodingResourcePolicy** | the pid that lost a resource | `setPidResourceLost`, `onResourceAvailable` | the controller |
| **TranscodingThermalPolicy** | throttling flag | `onStatusChange` | the controller |
| MediaTranscodingService | none of its own | creates and wires the above | |
| TranscodingLogger, SimulatedTranscoder, AdjustableMaxPriorityQueue | statistics, tests, unused | | |

**Threads.** Binder threads of clients and policies, the watchdog thread, one thread
per wrapper, a thread per track, the thread of the writer and the one that reports
the end of a run. Every entry point of the controller holds `mLock` from beginning
to end. The watchdog and the wrapper have locks of their own and *release them
before they call the controller*. A call of the controller to the wrapper only puts
an event in a queue.

**What is hard.** (`PROJECT.json` lists the hazards line by line.)

* A session is stored three times (map, queues, uid order) and every path in and
  out has to keep the three in agreement; the scheduler dereferences the first
  element of a queue without looking.
* A timeout is decided under the watchdog's lock and acted upon under the
  controller's, so anything may happen in between.
* What the controller believes of a session and what the wrapper does differ by
  the events in flight, in both directions; the end of a run may be reported
  after the session was paused, resumed, stopped or replaced.
* On a timeout the wrapper is replaced, with all that only it knew.
* The pacer is told of starts, completions and departures on different paths.
* The tracks of one file share an extractor, have few buffers, and feed one writer
  that wants the samples in order: a wrong order of switching on, or one signal
  too few, and they wait for each other in a circle.
* A run is stopped by its client, by an error of any thread, or both, while its last
  track is just about to start the writer.
* A client is unregistered by itself and by the notice of its death, on two
  threads and in several steps; its calls test `mAbandoned` and act later.
* Every policy releases its lock before it tells the controller what it found.

**What correctness means, part by part.** Controller: map, queues and order
agree; at most one session runs, it is the current one, and whenever `mLock` is
free it is the one the uid order calls for, or none during a global pause;
handlers end. Watchdog: the session that runs is watched, and no other. Pacer: a
mark belongs to a started session; a uid that is denied is not charged. Wrapper: an
event acts on the session it names; at rest the wrapper does what the controller
believes; abandoned wrappers go away unless they hang; no session runs for
ever. Reader: each track gets its own samples, in order, each once, and no thread
is left waiting whose turn has come. MediaTranscoder: every run ends; it is
declared over when no thread is left, and reported once, truthfully. Client
manager: the maps agree, a client is removed once and in the end, and nothing of
it survives but offline sessions. Policies: what the controller has heard
agrees with the policy once nothing is in flight.

## 2. Modules

| Module | What it models |
|---|---|
| `UidList` | `mUidSortedList` and the operations on it, as the order it stands for |
| `Pacer` | the pacer's decisions and its entries |
| `SessionController` | the controller, the watchdog and the composition with the two above |
| `SessionLifecycle` | abstract: what the controller promises about the life of a session |
| `MoveUidsLoop` | the loop of `moveUidsToTop_l`, step by step, against the formula in `UidList` |
| `TranscoderWrapper` | wrappers, their queues and handlers, and how the run of a MediaTranscoder ends |
| `TranscodingPipeline` | controller and wrappers together |
| `SampleSource` | abstract: what the reader promises to the threads of the tracks |
| `SampleReader` | `MediaSampleReaderNDK`: extractor, cursors, waiting and the access mode |
| `MediaTranscoder` | one run: track threads, writer, stop protocol, notification thread; on top of `SampleSource` |
| `TranscoderRun` | abstract: what a client of `MediaTranscoder` may rely on |
| `ClientManager` | `TranscodingClientManager` and `ClientImpl`, with any number of binder threads |
| `ServicePolicies` | the three policies, the constructor of the service, and what the controller knows from them |
| `MCSessionController`, `MCTranscodingPipeline` | symmetry (of the controller) and view for TLC |
| `MCSampleReader`, `MCMediaTranscoder`, `MCServicePolicies` | files, and the policy that moves, for TLC |
| `UidListProofs`, `MoveUidsLoopProofs`, `SessionControllerProofs`, `PipelineProofs`, `SampleReaderProofs`, `TranscoderProofs`, `ClientManagerProofs`, `ServicePoliciesProofs` | theorems and their proofs |

How they fit together: `TranscodingPipeline` composes `SessionController` (with
`UidList` and `Pacer`) and `TranscoderWrapper`; the run inside a wrapper is the one
of `TranscoderRun`, which `MediaTranscoder` implements; `MediaTranscoder` reads from
`SampleSource`, which `SampleReader` implements. `ServicePolicies` shares the order
of uids with `SessionController`, which in turn allows any answer and any call of a
policy, and `ClientManager` makes the calls `submit`, `cancel` and `addClientUid`.

A definition whose comment begins with *Mutant* is a faulty variant of the
definition that follows it: with the variant in its place, a property fails.
`PROJECT.json` pairs every property with one.

### The controller

`SessionController` has one variable per member (`sessionMap`, `sessionQueues`,
`uidSortedList`, `currentSession`, `resourceLost`, `thermalThrottling`,
`uidHistory` for the pacer's map) and one action per entry point. A session is
its state, its uids and the calling uid; a key is a client with a session id.
Sessions that have ended leave `sessionMap`, as in the code.

*Lock and loops.* The code under `mLock` loops: `cancel` and `onUidGone` remove
sessions one by one, `updateCurrentSession_l` drops sessions until it finds one
to run. One iteration is one step, and `phase` says where the holder of the lock
is ("remove", "update", or "idle" when the lock is free). Entry points need
"idle"; so between the steps of a handler only the watchdog thread moves, as in
the code. It also makes what is true *within* a handler visible to the
invariants: `validateState_l`, which counts entries at the end of some handlers,
becomes `QueuesMatchSessions`, which holds at every step and for every entry.

*Order of uids.* The list never holds a uid twice, so it is modelled as the
total order it stands for. This replaces loops on a list by one formula each,
which the provers handle; `MoveUidsLoop` has the one loop that is not
obvious, `moveUidsToTop_l` with its early break and preserved top uid, and shows
that it computes the formula.

*Watchdog.* `watched` is the session that is watched, if any. `WatchdogTimeout`
is the part of `threadLoop` under the watchdog's lock: it may happen at any time
while a session is watched (heart-beats only move the deadline) and copies the
key to `timedOut`; `OnWatchdogError` is the call to `onError`, whenever `mLock`
can be had. `wait_until` reads the deadline again under the lock, so a timeout
that races with `stop()` is one that happened just before.

*Pacer.* Real time is reduced to the two comparisons the code makes: whether the
last completion is longer ago than the threshold (`late`), and whether the
accumulated duration has reached its quota (`reached`), both chosen freely; a
session that never ran adds no time. The count saturates at the quota, which is
all it is compared with.

*Environment.* The answers of the uid policy (`isUidOnTop`, `getTopUids`) and
its calls are arbitrary; this covers every policy, however stale. `mResourcePolicy`
and `mThermalPolicy` are not null (the service always sets them). The offline uid
is never added by `addClientUid` (the client manager refuses negative uids).

### The wrapper and the pipeline

`TranscoderWrapper` has, per wrapper, its event queue, the run of its
MediaTranscoder, the keys of `mPausedStateMap` and the call to the controller its
thread is making. Each handler is one action: popping the event and all it does
up to a call of the controller, which waits for `mLock` and is a step of the
pipeline. `setupTranscoder` is reduced to its outcomes (success, resource error,
other error; always an error if a transcoder is there). The run of a
MediaTranscoder is busy, done or failed; its end is put in the bag `notices` and
reported by `asyncNotificationThread` later, in any order. `pause` and `cancel` wait
for the threads, which may come to an end or an error of their own on the way
(`Leftovers`). A wrapper whose `Abandon` event is reached exits; late callbacks
of its MediaTranscoders find a dead `weak_ptr` and are dropped.

*Hanging handlers.* `pause()` and `cancel()` are called by the wrapper's thread, and
they need not return: a codec may hang, and an error during `pause()` leaves
threads that nobody stops (`error_stops_all` in section 3). `HandlerHangs` is a
Pause or a Stop that meets a busy run and stays in it; the wrapper is then `Stuck`,
handles nothing more and sends no heart-beat, and the watchdog will abandon it.
`MaxStuck` bounds how many are stuck at a time. A run that is done or has failed
cannot hang the thread: its threads are over, or `requestStop` returns at once. The
`cancel()` with which a failed `start()` of a MediaTranscoder cleans up is taken to
return.

`TranscodingPipeline` runs `SessionController` and any number of wrappers. The calls
of a controller step (`out`) become events of the current wrapper, in order, in the
same step; a wrapper's callback is an action of the controller. Session ids are
handed out once and in a fixed order (`NextKey`), as `mNextSessionId` of
`ClientImpl` does.

Left out: progress and heart-beat events (they change no state of these parts
but the watchdog's deadline), notifications to clients, logging, `dump`, the
history of past sessions.

### The sample reader

`SampleReader` has the members of `MediaSampleReaderNDK`: the sample that the
extractor stands on and its track, a cursor (previous, current, next) per track,
`mEosReached` and `mEnforceSequentialAccess`. A sample is its position in the file, a
file is the sequence of the tracks of its samples. Each track has a thread that
asks for the next sample (`getSampleInfoForTrack`) and takes it
(`readSampleDataForTrack`) in turn; another thread switches the access mode.

*Mutex.* Calls hold `mExtractorMutex` over loops that advance the extractor. A turn
of such a loop is a step of the thread that holds the mutex (`holder`, `switcher`); the
rest of a call is one step. A thread in `blocked` waits on its
`mTrackSignals`; a `notify` takes it out, and it tests its condition again when it
gets the mutex.

*Extractor.* `AMediaExtractor` is external: advancing goes to the next sample of the
file, and a seek back followed by advances comes to the sample that was asked for,
which is when the loop of `seekExtractorBackwards_l` ends. Seeks succeed.

`SampleSource` says the same without extractor, cursors and signals: the tracks'
last samples, the mode, whether the end was reached, and which call each thread is
in. It keeps the one way in which the reader tells a track END_OF_STREAM too early
(section 3).

### A run of MediaTranscoder

`MediaTranscoder` extends `SampleSource`, with one step for each section under
`mThreadStateMutex` and each turn of the loop of a thread.

*Tracks.* A copied track has its format at once, takes a sample when it has a
buffer, and puts it out. A video track feeds a codec that holds up to `Depth`
samples, tells its format once the encoder does, and takes a buffer for each
encoded sample. The message queue between codec callbacks and thread is reduced to
which message is handled next. A track that is told to stop NOW leaves at the head
of its loop, one told to stop ON_SYNC after a sync sample; both put out an
END_OF_STREAM sample. Any track may fail instead (`TrackFails`), also after it was
told to stop: it may be past the test of the stop request by then.

*Writer.* It writes samples of any track, gives buffers back, and takes
END_OF_STREAM samples when nothing else is queued, as `SampleComparator` puts them
last. It ends when each track has had its own. The order of samples by time is left
out.

*Starting the writer.* `onTrackFormatAvailable` holds `mTracksAddedMutex`: the last
track switches the reader to sequential access and starts the writer. If the muxer
does not take the track, the thread reports the writer as failed, in two steps with
the mutex held (`adding`).

*Stopping.* `RequestStop` has an effect once. `onThreadFinished` is two steps: an
error first stops everybody, then (`Conclude`) the thread is recorded and, if it is
the last one, the end of the run is decided and handed to `asyncNotificationThread`
(`notifier`). That thread calls the client and wakes `waitForThreads` in one step
(`Notify`); the client's thread goes on in another (`WaitForThreads`).

`TranscoderRun` is what `TranscoderWrapper` counts on: a run is busy, faulty or over;
a stop is refused only after an error; one report, and silence only after a stop.

### The client manager

`ClientManager` has the maps of clients, cookies and callbacks, `mAbandoned` and
`mNextSessionId`, and for each binder thread the call it is in. A call is as many
steps as it has gaps: `addClient` holds `mLock` over three steps, since linking to
the binder's death and inserting in the map can be separated by the death; the calls
of a client test `mAbandoned` in one step and reach the controller in the next;
`unregister` exchanges `mAbandoned`, cancels, and removes under `mLock`.
`ClientDies` sends a death notice for each linked client, `BinderDied` handles it on
some thread.

The controller is reduced to whom each session is for. `overtaken` is a history: the
sessions for which a call was past the test of `mAbandoned` when the client's
sessions were cancelled. Calls that are refused for their arguments change nothing
and are left out.

### The policies

`ServicePolicies` has the device (importance of apps, heat, the resource observer), what
is on its way from it in the order the observers deliver it, the state of each
policy, and of the controller the order of uids, `mResourceLost` and
`mThermalThrottling`.

*Windows.* Each policy decides under its lock and reports after it; `topNotice`,
`goneNotice`, `hotNotice` and `freeNotice` are what has been decided and not
reported. The controller asks the uid and the resource policy while it holds
`mLock`; `mLock` says between which two questions its holder is. `setup` steps
through the constructor of the service, where a change of heat finds no callback
yet. `stale`, `missed` and `lostPid` are histories: the last set of top uids was out
of date when it reached the controller; the last change of throttling found no
callback; the `clientPid` of the session that lost its codec last.

*Two questions.* `registerMonitorUid` asks the activity manager whether a uid is
active and, if so, what its importance is. These are two steps (`SessionArrives`,
`ArrivalReadsState`) with `mUidLock` held, so that no change is handled between them
(`Registering`), while the app itself may move.

*The pid.* `onResourceLost` passes on `clientPid` as it is in the request. It may be
`USE_CALLING_PID`, which is -1 and thus the same as no pid at all (`NoPid`):
`submitRequest` puts the calling pid in a variable of its own, not in the request.

The activity manager, the thermal service and the resource observer are external:
one thread each, no change lost. The manager answers that a uid is not active for a
uid that is gone and may do so for one in the background.

## 3. Model checking

Constants are small sets of model values. Passing runs:

| Run | Instance | Shows |
|---|---|---|
| `controller_uids` | 2 clients with one session each, 2 apps and the offline uid, no pacing | `QueuesMatchSessions`, `OfflineIsLast`, `RightSessionRuns`, `OneRunner`, `CurrentIsLive`, `WatchdogCoversRunner`, `WatchedIsRunning`: sharing, reordering and departure of uids, switches, errors, and a timeout in flight. Two real-time uids and the offline one are the least with which a uid can be inserted, moved past another and removed. All seven are also proved for any number of sessions and uids (section 4). |
| `controller_pacer` | 2 sessions, quota 1, submitted by another uid or by the app itself, fairness of the lock holder | `TypeOK`, `ActiveMarksAreReal`, `OverQuotaIsFinal`, the refinement `LifecycleKept`, and `LockIsReleased`. With a quota of 1 a uid is within quota, at it and over it, and shares a session with the offline uid, which may have quota when it has not. |
| `move_uids_loop` | every list of up to 4 apps, every set of uids, with and without the preserved uid | `LoopMatchesOrder`, `TopUidKept` |
| `pipeline` | 2 sessions, 1 wrapper (no timeouts) that may hang, 3 moves of clients and policies | `PauseHitsItsSession`, `RunnerIsDriven` |
| `pipeline_timeouts` | 2 sessions, 3 wrappers at a time of which 2 may hang, 1 move, fairness | `PipelineTypeOK`, `PauseHitsItsSession`, `RunnerStops`, and `AbandonedExit`: an abandoned wrapper exits, or is one that hangs. Two sessions time out at most twice, so with three slots no timeout ever waits for one. |
| `sample_reader` | every file of up to 5 samples of 2 tracks, 3 switches of the access mode, fairness | `ReaderTypeOK`, `SourceImplemented`: the reader implements `SampleSource`, and `CallsReturn`: it does so with its liveness, so no signal is missing. Five samples let a track be two behind the other and be moved back; three switches are on, off and on again. |
| `media_transcoder` | a copied and a video track, 3 files, 1 buffer each, 1 sample in the codec, fairness | `TranscoderTypeOK`, `OverMeansOver`, `FinishedIsComplete`, the refinement `RunImplemented`, and `RunEnds`. One buffer is the tightest case for tracks that wait for each other; in the files either track may be first and last, and one has two samples of a track in a row. |
| `client_manager` | 2 processes, 2 binder threads, 2 clients ever, one session each, fairness | `ManagerTypeOK`, `RegistryAgrees`, `RemoveFindsClient`, `OrphansOnlyByRace`, `DeadIsRemoved`. Two threads are enough for each race of two calls, a death notice among them; a process may also register a second time after it has left. |
| `service_policies` | 3 apps, 2 processes with codecs, 5 moves of apps, clients, codecs or the device, fairness | `PoliciesTypeOK`, `FrontIsTop`, `StatesConverge`, `MonitoredAreListed`, `ThrottlingIsHeard`, `LostIsWatched`, `GoneIsRemoved`. A behaviour moves one policy, as they share only `mLock`; the proofs cover all interleavings. |

*Bounds.* In the controller runs nothing is bounded but the sets: sessions come,
go and come back for ever. In the pipeline each session is submitted once, and
`MaxMoves` bounds how often clients and policies act (submissions aside, which
preempt by themselves, so switching needs no move). `Wrapper` bounds how many
wrappers are alive at once: a timeout waits for a free slot, and with a single
slot there are none (the code has no such bound). `MaxStuck` bounds how many of them
hang. `MaxSwitches`, `MaxClients`, `MaxSessions` and the `MaxMoves` of
the policies bound how often something comes from outside; nothing else is
bounded. Deadlock is checked in the controller runs; the others come to rest when
what is bounded has happened: all sessions, tracks, clients or moves are done, or
the loop has ended.

*Symmetry and view.* `controller_uids` identifies states up to renaming of clients,
sessions and real-time uids; it and the safety runs of the pipeline ignore
`out`, which no action reads. Runs with liveness use neither.

*Fairness.* The holder of `mLock` waits for nothing (the transcoder only queues), so
`LockHolderStep` is weakly fair. In the pipeline so are: the thread of each wrapper
when it has an event or a callback, the end of a run (a file has an end), the
notification threads, the report of a timeout, and the timeout of a session that its
wrapper does not run, as then no heart-beat comes (`Silent`). Clients and policies
owe nothing. Fairness of a wrapper's thread does not mean that its calls into
MediaTranscoder return: to hang in one (`HandlerHangs`) is also a step, after which
the thread does nothing more. `AbandonedExit` therefore says that the threads of
abandoned wrappers exit or are stuck. In the reader and in a run, weakly fair are the threads of the tracks, of the writer and of the
notification, and the loops under the mutex: they are scheduled whenever they are
not blocked. No failure, no pause and no switch of the access mode is owed. In the
client manager a thread in a call goes on (weakly fair), and a death notice finds a
thread that is free once there is one again and again (strongly fair, as other calls
may take it each time). In the policies the observer's thread and the holder of
`mLock` go on.

### Where the code does not do what it says

Three runs end in a violation. Each checks a sentence of the repository against the
code and each counterexample is an execution of the service.

* `paused_state_is_lost`: a paused state *"is required when resuming"*
  (`TranscoderWrapper.cpp:209`), and is kept in the wrapper that a timeout
  replaces. After a timeout of one session, resuming another that was paused
  fails.
* `reader_ends_early`: the calls of the reader return END_OF_STREAM *"if there are
  no more samples to read from the track"* (`MediaSampleReader.h:103`).
  `waitForTrack_l` tests `mEosReached` after it has waited. When sequential access is
  lifted while a track waits, another track that reads freely can reach the end of
  the file before the first one wakes up, which is then told that its samples are
  over.
* `error_stops_all`: *"Stop all threads if one reports an error"*
  (`MediaTranscoder.cpp:92`). `requestStop` returns early once `mCancelled` is set, so
  an error that comes while the client is in `pause()` stops nobody. The
  failed track puts out no END_OF_STREAM sample, the writer waits for it, and
  `pause()` never returns. `RunEnds` names this case as its only exception.

The model has further executions of this kind, which the properties above allow
for:

* A timeout that is decided while a session runs may fail it after it was paused,
  while a test says *"No timeout for paused session"*
  (`tests/TranscodingSessionController_tests.cpp:1271`); and if another session runs
  by then, its wrapper is abandoned. `RunnerStops` still holds: the watchdog ends
  that session as well.
* A resource error that is reported after the stop of its session puts a state
  back in `mPausedStateMap`, which nothing removes; one of a run that was paused,
  reported after the session was resumed, sets the session PAUSED in the controller
  while its new run goes on.
* Cancelling a session that never started counts against the quota of its uid if
  another session of the uid is running. A uid that is over quota never gets its quota
  back, as `OverQuotaIsFinal` says, although it is meant as a
  *"maximum allowed back-to-back start count"* (`TranscodingSessionController.h:107`).
* A session whose request leaves its `clientPid` to the service and that loses its
  codec pauses the controller with nobody watching: `setPidResourceLost` gets -1
  (`TranscodingSessionController.cpp:1027`), and the policy never makes the call that
  comes *"when codec resources become available"* (`ResourcePolicyInterface.h:39`).
  `LostIsWatched` says that this is so exactly for such sessions.
* An app that dies between the two questions of `registerMonitorUid` is stored as
  gone, so its end is no change and the call that comes *"when a uid is gone"*
  (`UidPolicyInterface.h:51`) is never made. `GoneIsRemoved` excepts it.
* A call that is past the test of `mAbandoned` when its client unregisters
  leaves a session that belongs to nobody (`OrphansOnlyByRace` names it). A client
  that is dead before `AIBinder_linkToDeath` stays registered.
* A change of the thermal status between the construction of the controller and
  `setCallback` is not heard of until the next change (`missed`), and a set of top
  uids that is out of date when it arrives may put the wrong uid first until
  the next change (`stale`).

## 4. Proofs

TLC covers the instances above; the theorems hold for every number of clients,
sessions, uids, wrappers, tracks and buffers, every file and every quota. Assumed of
the constants: the offline uid is a uid and there are finitely many (`uid_t` has 32
bits), `NoSession` is not a key, the quota and the bounds on what comes from
outside are natural numbers, `MtpUid` is a set of uids; the null values of the other
modules are not wrappers, tracks, threads, uids or processes, and tracks have at
least one buffer.

**Controller.** The invariant is `ControllerInv`. None of the properties is
inductive by itself:

* `RightSessionRuns` needs `QueuesMatchSessions` and `OfflineIsLast`, because the
  scheduler takes the first session of the first uid, which exists only if the
  front queue is not empty;
* `OneRunner` is kept by the switch only if the session it pauses is the one that
  runs, and `CurrentIsLive` says the current session is worth pausing;
* `WatchdogCoversRunner` needs `WatchedIsRunning`: a watchdog left on a session
  that no longer runs would ignore the next `start()`;
* the loops of `cancel` and `onUidGone` need `PendingAreLive`: the keys collected
  at the start are still there when their turn comes, and a session that is
  trimmed keeps a uid.

| Theorem | States |
|---|---|
| `ControllerSafe` | `Spec => []ControllerInv` |
| `TypesAreKept`, `QueuesAgree`, `OfflineStaysLast`, `OneSessionRuns`, `CurrentNeverDangles`, `RunnerIsWatched`, `OnlyRunnerIsWatched`, `DecisionIsRight` | its parts, one by one |
| `MarksAreReal` | `ActiveMarksAreReal`, by a second invariant on top of the first: an active mark belongs to a known entry and a started session |
| `QuotaIsNeverRegained` | the action property `OverQuotaIsFinal`, from `QuotaInv`: an entry that is over quota is not marked active |
| `LifecycleIsKept` | `SessionController` implements `SessionLifecycle` |
| `LoopComputesOrder`, `TopUidStaysFirst` | `LoopMatchesOrder` and `TopUidKept`: the loop of `moveUidsToTop_l` computes the formula of `UidList`, for any list and set |
| `PipelineRefinesController`, `PipelineControllerSafe` | composed with wrappers, the controller is still `SessionController`, and keeps its invariant |
| `PipelineSafe`, `PipelineTypesAreKept`, `PausesHitTheirSession` | the invariant of the pipeline, `PipelineTypeOK` and `PauseHitsItsSession`, timeouts and replaced wrappers included |
| `RunnerIsDrivenWithoutTimeouts` | `RunnerIsDriven`, as long as the watchdog has not timed out |
| `ReaderStateIsKept`, `ReaderTypesAreKept` | the invariant of the reader, and `ReaderTypeOK` |
| `ReaderIsASource` | `SourceImplemented`: `SampleReader` implements `SampleSource` |
| `NoThreadIsLeft` | `OverMeansOver` |
| `TracksStayWithinTheirRoom` | `TranscoderTypeOK`: buffers and codecs are never overrun |
| `FinishedRunsAreComplete` | `FinishedIsComplete` |
| `RunIsImplemented` | `MediaTranscoder` implements `TranscoderRun` |
| `ManagerSafe`, `ManagerTypes`, `RegistryIsConsistent`, `ClientsAreRemovedOnce`, `OrphansAreRaces` | the invariant of the client manager and its parts |
| `ThrottlingReachesController`, `LostIsAlwaysWatched`, `SameUidsAreWatched`, `StatesAreRecovered`, `FrontIsOnTop` | the safety properties of the policies, all policies interleaved |
| `PoliciesTypesAreKept` | `PoliciesTypeOK` |

The argument. `UidListProofs` shows that insertion, removal and reordering keep the
uid order total with the offline uid last, and says which uids it then holds.
`SessionControllerProofs` first settles the queues (appending, erasing one
session), then what `removeSession_l` and `addUidToSession_l` keep, then the
scheduling step (the top session exists; switching leaves one runner, watched), and
has one lemma per action, collected in `NextLemma`. For the pacer, `EntryNextLemma`
says that a step leaves the entry of a uid as it is or does to it what one of the
three callbacks does, so `OverQuotaIsFinal` comes down to single entries.
`LifecycleIsKept` maps each
step to a step of `SessionLifecycle` or a stutter; the mapping gives a session's
state, or ABSENT.

**The loop of `moveUidsToTop_l`.** `Before(u, v)` says which of two uids has to
stand ahead in the end. `LoopInv`: what the iterator has passed is sorted by
`Before`, what it has not passed is as it was, one place further left if the first
uid has been taken out; that uid is taken out exactly if it is to be kept; and the
counter is the number of uids moved so far. The last is why the early break is
right: when the counter is the size of the set, the two sets are equal, so nothing
that is left has to move (this is where finiteness is used). A list sorted by
`Before` has the order of the formula.

**Pipeline.** `PauseHitsItsSession` speaks of the moment when a `Pause` is handled,
which may be long after it was sent; it is not inductive. `PipelineInv` therefore
says of each `Pause` in a queue what is ahead of it there (`PausesWillMeet`): a
`Start` or `Resume` of its session with no other switch in between, or no switch at
all, and the wrapper runs that session or nothing. The same holds of a `Pause` that
the controller would send now. With it go the types of what is on its way
(`ProperlyTyped`), that the controller's wrapper is alive and was not abandoned, and
that a free slot is as good as new (`SlotsAreClean`). `RunnerIsComing` does the same
for `RunnerIsDriven`: the session that the controller runs is run by the wrapper, or
its start is in the queue, or the wrapper is calling the controller about it. A
timeout breaks it for a while, as the new wrapper knows nothing of the old run, so
the theorem has the hypothesis that none happened.

**Reader.** `ReaderInv` has four parts. `CursorInv`: the previous sample of a cursor
is the last one read of its track, current and next are the first two samples of the
track behind it, or the extractor has not come across them (`CursorOK`).
`ExtractorInv`: the extractor knows the track of its sample, and nothing was touched
before the first call. `HolderInv`: what a thread in a loop under the mutex relies
on, that it has not passed the sample it is looking for, or any sample that is not
read. `TurnInv`: while access is sequential and the mutex is free, the extractor
stands on the next sample that nobody has read. So the two tests of the code, "my
track is the extractor's track" and "the cursor's current sample is the extractor's
sample", are what the source means by "the next sample of the file is mine". There
is one lemma per action; each gives the invariant and a step of `SampleSource` or a
stutter.

**A run.** `OverMeansOver` needs to know which threads may still come: `ThreadInv`
ties the position of each thread to its entry in `mThreadStates`, says that the
writer runs only when every track has been added, and that a track which is being
added is not done; so the writer cannot start after the last track is done.
`RunIsImplemented` adds `StopInv`: who has set `mCancelled`, what a failed or
stopped thread implies about it, and that the decision about the end is made once.
`TracksStayWithinTheirRoom` needs `RoomInv`: a track that waits in the reader has
kept a buffer or a place in the codec for the sample that comes.
`FinishedIsComplete` counts: by `CountInv` the samples that a track has read are
those written, those in the queue of the writer and those in the codec. As long as
nobody has stopped the run, a track is told the end only when its samples are over
(`EndInv`), and tracks and writer finish in order, the writer having emptied its
queue of a track before it takes the END_OF_STREAM of that track (`FinishInv`).

**Client manager.** `ManagerInv` is the types with: who holds `mLock` (`LockInv`), a
client has a cookie from the first step of its registration until its removal
(`CookieInv`), callbacks are those of registered clients (`CallbackInv`), at most one
thread is past the exchange of `mAbandoned` for a client, which is still there
(`LeaveInv`), and what a call that is under way may say (`CallInv`).
`OrphansOnlyByRace` is inductive only together with the last.

**Policies.** Each property has an invariant of its own. `ThermalInv` follows the
last event in the queue, which is what the device says now, and the report under
way. `UidInv` has the uid that is arriving, not yet in the order, and watched or still
being asked about; with it, `EventsInv` says that the last change of a uid on its way
brings its present importance, and that the policy has it if there is none. `FrontInv`
extends `FrontIsTop` to the moment between `registerMonitorUid` and `isUidOnTop`.
`ResourceInv` says that `setPidResourceLost` comes before the mark, with the pid of
`lostPid`, and that nobody waits or reports when the controller does not wait.

Only model-checked: liveness, which the prover does not reach: `LockIsReleased`,
`RunnerStops`, `AbandonedExit`, `CallsReturn` (the fairness of `SampleSource`),
`RunEnds`, `DeadIsRemoved`, `GoneIsRemoved`. Every invariant, action property and
refinement of a passing run that is a safety property is proved. The three
properties that the code violates are refuted by TLC.

## 5. Not modelled

* *Below the transcoder*: `AMediaExtractor`, `AMediaCodec` and the muxer are external.
  They appear as what they give or refuse; so do the activity manager, the thermal
  service and the resource observer.
* *Of the reader*: the public `advanceTrack`, `selectTrack` and
  `getEstimatedBitrateForTrack`, which the threads of a run do not call, and failing
  seeks.
* *Of a run*: formats and their negotiation, progress, heart-beats, the time order of
  samples in the writer, the messages of the codec but for which comes next, and the
  branch of `start` for a thread that cannot be started, as the track transcoders
  only refuse a second start.
* *Of the client manager*: the cache of trusted uids. Binder threads use it
  without a lock; a model of it would show nothing but that.
* *Of the service*: logging, dumping, `TranscodingLogger`, `SimulatedTranscoder` (tests)
  and `AdjustableMaxPriorityQueue` (unused).
* *The other services of the repository*: audio, camera, codecs, extractors, DRM,
  MTP and the rest are independent programs; `PROJECT.json` lists them with the
  reasons.

## 6. What is left

`ClientManager` and `ServicePolicies` composed with the whole of `SessionController`
instead of the part they need, with `PipelineSafe` carried over to that composition; and
what is true of `RunnerIsDriven` after a timeout, for the sessions that the new wrapper
has been given.
