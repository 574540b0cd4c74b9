--------------------------- MODULE MediaTranscoder ---------------------------
(***************************************************************************)
(* One run of MediaTranscoder: a thread per track that takes samples from  *)
(* the source and puts out transcoded ones, the thread of the sample       *)
(* writer, a thread that reports the end, and the client that starts the   *)
(* run and may pause or cancel it.                                         *)
(*                                                                         *)
(* The source is SampleSource.  A passthrough track (PassthroughTrack-     *)
(* Transcoder) copies samples and knows its format from the beginning; a   *)
(* video track (VideoTrackTranscoder) feeds a codec, which tells the       *)
(* format of its output, and takes what it encodes.  Either holds a buffer *)
(* for each sample that the writer has not written, and has Buffers of     *)
(* them.  Each section under mThreadStateMutex is one step.                *)
(***************************************************************************)
EXTENDS SampleSource, FiniteSets

CONSTANTS Passthrough,  \* the tracks that are copied; the others are video
          Buffers,      \* buffers of a track for output samples
          Depth         \* samples that a codec holds

ASSUME TranscoderAssumption ==
  /\ Passthrough \subseteq Tracks
  /\ Buffers \in Nat \ {0}
  /\ Depth \in Nat \ {0}

VARIABLES
  \* the track threads
  thread,       \* where each is
  result,       \* how its loop ended
  stopRequest,  \* mStopRequest
  coding,       \* samples in the codec
  formatted,    \* tracks that have told their output format
  lastSync,     \* mLastSampleWasSync
  out,          \* samples put out and not written yet
  eosOut,       \* tracks that have put out their END_OF_STREAM sample
  \* the sample writer
  writer,       \* its mState
  writerThread, \* where its thread is
  writerResult,
  written,      \* samples written of each track
  eosWritten,   \* tracks with mReachedEos
  \* MediaTranscoder
  adding,       \* the tracks whose thread holds mTracksAddedMutex
  tracksAdded,  \* mTracksAdded
  done,         \* tracks that are DONE in mThreadStates
  writerState,  \* the writer in mThreadStates
  failed,       \* mTranscoderStatus is not AMEDIA_OK
  stopped,      \* mTranscoderStopped
  cancelled,    \* mCancelled
  writerStopped,\* mSampleWriterStopped
  threadsDone,  \* mThreadsDone
  notifier,     \* asyncNotificationThread: what it will report
  reported,     \* what it has reported; "silent" is no callback
  client        \* where the thread of the client is

trackVars == <<thread, result, stopRequest, coding, formatted, lastSync, out, eosOut>>
writerVars == <<writer, writerThread, writerResult, written, eosWritten>>
stateVars == <<done, writerState, failed, stopped, cancelled, writerStopped,
               threadsDone, notifier>>
vars == <<sourceVars, trackVars, writerVars, adding, tracksAdded, stateVars,
          reported, client>>

Results == {"none", "finished", "stopped", "error"}
Notices == {"none", "finish", "error", "silent"}

TranscoderTypeOK ==
  /\ SourceTypeOK
  /\ thread \in [Tracks -> {"off", "format", "addFailed", "addRecord", "loop",
                            "report", "record", "gone"}]
  /\ result \in [Tracks -> Results]
  /\ stopRequest \in [Tracks -> {"NONE", "ON_SYNC", "NOW"}]
  /\ coding \in [Tracks -> 0..Depth]
  /\ formatted \in SUBSET Tracks
  /\ lastSync \in [Tracks -> BOOLEAN]
  /\ out \in [Tracks -> 0..Buffers]
  /\ eosOut \in SUBSET Tracks
  /\ writer \in {"INITIALIZED", "STARTED", "STOPPED"}
  /\ writerThread \in {"off", "loop", "report", "record", "gone"}
  /\ writerResult \in Results
  /\ written \in [Tracks -> Nat]
  /\ eosWritten \in SUBSET Tracks
  /\ adding \in SUBSET Tracks
  /\ tracksAdded \in SUBSET Tracks
  /\ done \in SUBSET Tracks
  /\ writerState \in {"PENDING", "RUNNING", "DONE"}
  /\ failed \in BOOLEAN
  /\ stopped \in BOOLEAN
  /\ cancelled \in BOOLEAN
  /\ writerStopped \in BOOLEAN
  /\ threadsDone \in BOOLEAN
  /\ notifier \in Notices
  /\ reported \in Notices
  /\ client \in {"configured", "started", "checking", "waiting", "returned", "refused"}

Init ==
  /\ SourceInit
  /\ thread = [t \in Tracks |-> "off"]
  /\ result = [t \in Tracks |-> "none"]
  /\ stopRequest = [t \in Tracks |-> "NONE"]
  /\ coding = [t \in Tracks |-> 0]
  /\ formatted = {}
  /\ lastSync = [t \in Tracks |-> FALSE]
  /\ out = [t \in Tracks |-> 0]
  /\ eosOut = {}
  /\ writer = "INITIALIZED"
  /\ writerThread = "off"
  /\ writerResult = "none"
  /\ written = [t \in Tracks |-> 0]
  /\ eosWritten = {}
  /\ adding = {}
  /\ tracksAdded = {}
  /\ done = {}
  /\ writerState = "PENDING"
  /\ failed = FALSE
  /\ stopped = FALSE
  /\ cancelled = FALSE
  /\ writerStopped = FALSE
  /\ threadsDone = FALSE
  /\ notifier = "none"
  /\ reported = "none"
  /\ client = "configured"

----------------------------------------------------------------------------
(* Stopping *)

\* requestStop: only the first request of a run has an effect.
RequestStop(onSync) ==
  IF cancelled
    THEN UNCHANGED <<cancelled, writerStopped, writer, enforce, stopRequest>>
    ELSE /\ cancelled' = TRUE
         /\ enforce' = FALSE
         /\ stopRequest' = [t \in Tracks |-> IF onSync THEN "ON_SYNC" ELSE "NOW"]
         /\ writerStopped' = (writerStopped \/ ~onSync)
         /\ writer' = IF ~onSync /\ writer = "STARTED" THEN "STOPPED" ELSE writer

\* Mutant: only the tracks are looked at.
ConcludeWithoutWriter(doneNow, writerNow, failedNow, stoppedNow) ==
  /\ done' = doneNow
  /\ writerState' = writerNow
  /\ failed' = failedNow
  /\ stopped' = stoppedNow
  /\ IF doneNow = Tracks
       THEN /\ threadsDone' = TRUE
            /\ notifier' = IF notifier # "none" THEN notifier
                           ELSE IF failedNow THEN "error"
                           ELSE IF stoppedNow THEN "silent" ELSE "finish"
       ELSE UNCHANGED <<threadsDone, notifier>>

\* Mutant: a stopped thread hides an error.
ConcludeStoppedFirst(doneNow, writerNow, failedNow, stoppedNow) ==
  /\ done' = doneNow
  /\ writerState' = writerNow
  /\ failed' = failedNow
  /\ stopped' = stoppedNow
  /\ IF doneNow = Tracks /\ writerNow # "RUNNING"
       THEN /\ threadsDone' = TRUE
            /\ notifier' = IF notifier # "none" THEN notifier
                           ELSE IF stoppedNow THEN "silent"
                           ELSE IF failedNow THEN "error" ELSE "finish"
       ELSE UNCHANGED <<threadsDone, notifier>>

\* What onThreadFinished finds out about the run: it is over when all tracks
\* are done and the writer does not run.
Conclude(doneNow, writerNow, failedNow, stoppedNow) ==
  /\ done' = doneNow
  /\ writerState' = writerNow
  /\ failed' = failedNow
  /\ stopped' = stoppedNow
  /\ IF doneNow = Tracks /\ writerNow # "RUNNING"
       THEN /\ threadsDone' = TRUE
            /\ notifier' = IF notifier # "none" THEN notifier
                           ELSE IF failedNow THEN "error"
                           ELSE IF stoppedNow THEN "silent" ELSE "finish"
       ELSE UNCHANGED <<threadsDone, notifier>>

----------------------------------------------------------------------------
(* The track threads *)

\* Between two samples: the loop looks at the stop request there.
AtLoopHead(t) == thread[t] = "loop" /\ call[t] \in {"info", "end"}

Leaves(t, how) ==
  /\ thread' = [thread EXCEPT ![t] = "report"]
  /\ result' = [result EXCEPT ![t] = how]

\* A stopped track puts out an END_OF_STREAM sample that stands for the rest.
LeavesStopped(t) == Leaves(t, "stopped") /\ eosOut' = eosOut \cup {t}

StopsNow(t) ==
  /\ thread[t] = "loop"
  /\ stopRequest[t] = "NOW"
  /\ AtLoopHead(t) \/ (t \in Passthrough /\ call[t] = "read")
  /\ LeavesStopped(t)
  /\ UNCHANGED <<sourceVars, stopRequest, coding, formatted, lastSync, out, writerVars,
                 adding, tracksAdded, stateVars, reported, client>>

\* A sample was put out, or a codec message handled: a paused track ends here
\* if its last sample was a sync sample.
GoesOn(t, sync) ==
  IF stopRequest[t] = "ON_SYNC" /\ sync
    THEN LeavesStopped(t)
    ELSE UNCHANGED <<thread, result, eosOut>>

\* Mutant: a sample is read without a buffer for it.
WantsSampleAlways(t) ==
  /\ thread[t] = "loop"
  /\ \/ call[t] \in {"infoWait", "readWait", "read"}
     \/ call[t] = "info" /\ stopRequest[t] # "NOW" /\ (t \in Passthrough \/ coding[t] < Depth)

\* The thread wants a source sample: it has room for what comes of it.
WantsSample(t) ==
  /\ thread[t] = "loop"
  /\ \/ call[t] \in {"infoWait", "readWait"}
     \/ call[t] = "info" /\ stopRequest[t] # "NOW" /\ (t \in Passthrough \/ coding[t] < Depth)
     \/ call[t] = "read" /\ (t \in Passthrough => out[t] < Buffers)

WaitsOrAsks(t) ==
  /\ WantsSample(t)
  /\ Wait(t) \/ GetInfo(t)
  /\ UNCHANGED <<trackVars, writerVars, adding, tracksAdded, stateVars, reported, client>>

\* PassthroughTrackTranscoder: the sample goes out as it is.
CopiesSample(t, sync) ==
  /\ t \in Passthrough
  /\ WantsSample(t)
  /\ Read(t)
  /\ out' = [out EXCEPT ![t] = @ + 1]
  /\ GoesOn(t, sync)
  /\ UNCHANGED <<stopRequest, coding, formatted, lastSync, writerVars, adding, tracksAdded,
                 stateVars, reported, client>>

\* VideoTrackTranscoder::enqueueInputSample: the sample goes to the decoder.
FeedsCodec(t) ==
  /\ t \notin Passthrough
  /\ WantsSample(t)
  /\ Read(t)
  /\ coding' = [coding EXCEPT ![t] = @ + 1]
  /\ GoesOn(t, lastSync[t])
  /\ UNCHANGED <<stopRequest, formatted, lastSync, out, writerVars, adding,
                 tracksAdded, stateVars, reported, client>>

\* END_OF_STREAM from the source ends a passthrough track; a video track goes
\* on until the codec has put out everything.  From readSampleDataForTrack it
\* is an error.
MeetsEnd(t) ==
  /\ WantsSample(t)
  /\ End(t)
  /\ \/ /\ InRead(t)
        /\ Leaves(t, "error")
        /\ UNCHANGED eosOut
     \/ /\ InInfo(t)
        /\ IF t \in Passthrough
             THEN Leaves(t, "finished") /\ eosOut' = eosOut \cup {t}
             ELSE GoesOn(t, lastSync[t])
  /\ UNCHANGED <<stopRequest, coding, formatted, lastSync, out, writerVars, adding,
                 tracksAdded, stateVars, reported, client>>

\* The encoder tells its output format once it has something to put out.
FormatKnown(t) ==
  /\ t \notin Passthrough
  /\ AtLoopHead(t)
  /\ stopRequest[t] # "NOW"
  /\ t \notin formatted
  /\ coding[t] > 0 \/ call[t] = "end"
  /\ formatted' = formatted \cup {t}
  /\ thread' = [thread EXCEPT ![t] = "format"]
  /\ UNCHANGED <<sourceVars, result, stopRequest, coding, lastSync, out, eosOut,
                 writerVars, adding, tracksAdded, stateVars, reported, client>>

\* VideoTrackTranscoder::dequeueOutputSample.
Encodes(t, sync) ==
  /\ t \notin Passthrough
  /\ AtLoopHead(t)
  /\ stopRequest[t] # "NOW"
  /\ t \in formatted
  /\ coding[t] > 0
  /\ out[t] < Buffers
  /\ coding' = [coding EXCEPT ![t] = @ - 1]
  /\ out' = [out EXCEPT ![t] = @ + 1]
  /\ lastSync' = [lastSync EXCEPT ![t] = sync]
  /\ GoesOn(t, sync)
  /\ UNCHANGED <<sourceVars, stopRequest, formatted, writerVars, adding,
                 tracksAdded, stateVars, reported, client>>

\* END_OF_STREAM from the encoder.
EncodesEnd(t) ==
  /\ t \notin Passthrough
  /\ thread[t] = "loop"
  /\ call[t] = "end"
  /\ stopRequest[t] # "NOW"
  /\ t \in formatted
  /\ coding[t] = 0
  /\ Leaves(t, "finished")
  /\ eosOut' = eosOut \cup {t}
  /\ UNCHANGED <<sourceVars, stopRequest, coding, formatted, lastSync, out, writerVars,
                 adding, tracksAdded, stateVars, reported, client>>

\* The reader, the buffer pool or a codec fails.  A thread that was past the
\* head of its loop when STOP_NOW came still ends with the error.
TrackFails(t) ==
  /\ thread[t] = "loop"
  /\ AtLoopHead(t) \/ (call[t] = "read" /\ WantsSample(t))
  /\ Leaves(t, "error")
  /\ UNCHANGED <<sourceVars, stopRequest, coding, formatted, lastSync, out, eosOut,
                 writerVars, adding, tracksAdded, stateVars, reported, client>>

----------------------------------------------------------------------------
(* onTrackFormatAvailable *)

\* Mutant: access is sequential as soon as a track is there.
AddTrackSequential(t) ==
  /\ thread[t] = "format"
  /\ adding = {}
  /\ tracksAdded' = tracksAdded \cup {t}
  /\ thread' = [thread EXCEPT ![t] = "loop"]
  /\ IF cancelled \/ writerStopped THEN UNCHANGED sourceVars ELSE Enforce
  /\ IF tracksAdded' = Tracks /\ ~writerStopped
       THEN writer' = "STARTED" /\ writerThread' = "loop" /\ writerState' = "RUNNING"
       ELSE UNCHANGED <<writer, writerThread, writerState>>
  /\ UNCHANGED <<result, stopRequest, coding, formatted, lastSync, out, eosOut,
                 writerResult, written, eosWritten, adding, done, failed,
                 stopped, cancelled, writerStopped, threadsDone, notifier,
                 reported, client>>

\* The track is added to the writer; with the last one the writer starts,
\* unless it has been told to stop, and the source becomes sequential.
AddTrack(t) ==
  /\ thread[t] = "format"
  /\ adding = {}
  /\ tracksAdded' = tracksAdded \cup {t}
  /\ thread' = [thread EXCEPT ![t] = "loop"]
  /\ IF tracksAdded' = Tracks /\ ~writerStopped
       THEN /\ IF cancelled THEN UNCHANGED sourceVars ELSE Enforce
            /\ writer' = "STARTED"
            /\ writerThread' = "loop"
            /\ writerState' = "RUNNING"
       ELSE UNCHANGED <<sourceVars, writer, writerThread, writerState>>
  /\ UNCHANGED <<result, stopRequest, coding, formatted, lastSync, out, eosOut,
                 writerResult, written, eosWritten, adding, done, failed,
                 stopped, cancelled, writerStopped, threadsDone, notifier,
                 reported, client>>

\* The muxer does not take the track: the writer is reported to have failed.
AddTrackFails(t) ==
  /\ thread[t] = "format"
  /\ adding = {}
  /\ adding' = {t}
  /\ thread' = [thread EXCEPT ![t] = "addFailed"]
  /\ UNCHANGED <<sourceVars, result, stopRequest, coding, formatted, lastSync, out, eosOut,
                 writerVars, tracksAdded, stateVars, reported, client>>

AddTrackStops(t) ==
  /\ thread[t] = "addFailed"
  /\ RequestStop(FALSE)
  /\ thread' = [thread EXCEPT ![t] = "addRecord"]
  /\ UNCHANGED <<file, got, eos, call, result, coding, formatted, lastSync, out, eosOut,
                 writerThread, writerResult, written, eosWritten, adding,
                 tracksAdded, done, writerState, failed, stopped, threadsDone,
                 notifier, reported, client>>

AddTrackRecords(t) ==
  /\ thread[t] = "addRecord"
  /\ Conclude(done, "DONE", TRUE, stopped)
  /\ adding' = {}
  /\ thread' = [thread EXCEPT ![t] = "loop"]
  /\ UNCHANGED <<sourceVars, result, stopRequest, coding, formatted, lastSync, out, eosOut,
                 writerVars, tracksAdded, cancelled, writerStopped, reported,
                 client>>

----------------------------------------------------------------------------
(* onThreadFinished, from a track *)

TrackStopsAll(t) ==
  /\ thread[t] = "report"
  /\ result[t] = "error"
  /\ RequestStop(FALSE)
  /\ thread' = [thread EXCEPT ![t] = "record"]
  /\ UNCHANGED <<file, got, eos, call, result, coding, formatted, lastSync, out, eosOut,
                 writerThread, writerResult, written, eosWritten, adding,
                 tracksAdded, done, writerState, failed, stopped, threadsDone,
                 notifier, reported, client>>

TrackRecords(t) ==
  /\ \/ thread[t] = "record"
     \/ thread[t] = "report" /\ result[t] # "error"
  /\ Conclude(done \cup {t}, writerState, failed \/ result[t] = "error",
              stopped \/ result[t] = "stopped")
  /\ thread' = [thread EXCEPT ![t] = "gone"]
  /\ UNCHANGED <<sourceVars, result, stopRequest, coding, formatted, lastSync, out, eosOut,
                 writerVars, adding, tracksAdded, cancelled, writerStopped,
                 reported, client>>

----------------------------------------------------------------------------
(* The sample writer *)

WriterLeaves(how) == writerThread' = "report" /\ writerResult' = how

\* A sample is written, its buffer goes back to its track.
WritesSample(t) ==
  /\ writerThread = "loop"
  /\ writer = "STARTED"
  /\ out[t] > 0
  /\ out' = [out EXCEPT ![t] = @ - 1]
  /\ written' = [written EXCEPT ![t] = @ + 1]
  /\ UNCHANGED <<sourceVars, thread, result, stopRequest, coding, formatted, lastSync,
                 eosOut, writer, writerThread, writerResult, eosWritten, adding,
                 tracksAdded, stateVars, reported, client>>

\* Mutant: END_OF_STREAM is not kept behind the samples.
WritesEndAnyTime(t) ==
  /\ writerThread = "loop"
  /\ writer = "STARTED"
  /\ t \in eosOut \ eosWritten
  /\ eosWritten' = eosWritten \cup {t}
  /\ IF eosWritten' = Tracks THEN WriterLeaves("finished")
                             ELSE UNCHANGED <<writerThread, writerResult>>
  /\ UNCHANGED <<sourceVars, trackVars, writer, written, adding, tracksAdded,
                 stateVars, reported, client>>

\* END_OF_STREAM samples come last in mSampleQueue.
WritesEnd(t) ==
  /\ writerThread = "loop"
  /\ writer = "STARTED"
  /\ \A u \in Tracks : out[u] = 0
  /\ t \in eosOut \ eosWritten
  /\ eosWritten' = eosWritten \cup {t}
  /\ IF eosWritten' = Tracks THEN WriterLeaves("finished")
                             ELSE UNCHANGED <<writerThread, writerResult>>
  /\ UNCHANGED <<sourceVars, trackVars, writer, written, adding, tracksAdded,
                 stateVars, reported, client>>

\* The loop finds that stop() has been called.
WriterStops ==
  /\ writerThread = "loop"
  /\ writer = "STOPPED"
  /\ WriterLeaves("stopped")
  /\ UNCHANGED <<sourceVars, trackVars, writer, written, eosWritten, adding,
                 tracksAdded, stateVars, reported, client>>

\* The muxer fails: when it starts, in writing a sample, or when it stops.
MuxerFails ==
  /\ writerThread = "loop"
  /\ \/ written = [t \in Tracks |-> 0] /\ eosWritten = {}
     \/ \E t \in Tracks : out[t] > 0 \/ t \in eosOut \ eosWritten
     \/ writer = "STOPPED"
  /\ WriterLeaves("error")
  /\ UNCHANGED <<sourceVars, trackVars, writer, written, eosWritten, adding,
                 tracksAdded, stateVars, reported, client>>

WriterStopsAll ==
  /\ writerThread = "report"
  /\ writerResult = "error"
  /\ RequestStop(FALSE)
  /\ writerThread' = "record"
  /\ UNCHANGED <<file, got, eos, call, thread, result, coding, formatted, lastSync, out,
                 eosOut, writerResult, written, eosWritten, adding, tracksAdded,
                 done, writerState, failed, stopped, threadsDone, notifier,
                 reported, client>>

WriterRecords ==
  /\ \/ writerThread = "record"
     \/ writerThread = "report" /\ writerResult # "error"
  /\ Conclude(done, "DONE", failed \/ writerResult = "error",
              stopped \/ writerResult = "stopped")
  /\ writerThread' = "gone"
  /\ UNCHANGED <<sourceVars, trackVars, writer, writerResult, written,
                 eosWritten, adding, tracksAdded, cancelled, writerStopped,
                 reported, client>>

----------------------------------------------------------------------------
(* The client and asyncNotificationThread *)

Start ==
  /\ client = "configured"
  /\ client' = "started"
  /\ thread' = [t \in Tracks |-> IF t \in Passthrough THEN "format" ELSE "loop"]
  /\ UNCHANGED <<sourceVars, result, stopRequest, coding, formatted, lastSync, out, eosOut,
                 writerVars, adding, tracksAdded, stateVars, reported>>

\* pause() and cancel() up to waitForThreads.
Stop(onSync) ==
  /\ client = "started"
  /\ RequestStop(onSync)
  /\ client' = IF cancelled THEN "refused" ELSE "checking"
  /\ UNCHANGED <<file, got, eos, call, thread, result, coding, formatted, lastSync, out,
                 eosOut, writerThread, writerResult, written, eosWritten, adding,
                 tracksAdded, done, writerState, failed, stopped, threadsDone,
                 notifier, reported>>

Pause == Stop(TRUE)
Cancel == Stop(FALSE)

\* A turn of the loop of waitForThreads.
WaitForThreads ==
  /\ client = "checking"
  /\ client' = IF threadsDone THEN "returned" ELSE "waiting"
  /\ UNCHANGED <<sourceVars, trackVars, writerVars, adding, tracksAdded,
                 stateVars, reported>>

\* The callback, then notify_all.
Notify ==
  /\ notifier # "none"
  /\ reported = "none"
  /\ reported' = notifier
  /\ client' = IF client = "waiting" THEN "checking" ELSE client
  /\ UNCHANGED <<sourceVars, trackVars, writerVars, adding, tracksAdded, stateVars>>

----------------------------------------------------------------------------

\* What the thread of a track does unless something fails.
LoopStep(t) ==
  \/ StopsNow(t)
  \/ WaitsOrAsks(t)
  \/ \E sync \in BOOLEAN : CopiesSample(t, sync) \/ Encodes(t, sync)
  \/ FeedsCodec(t)
  \/ MeetsEnd(t)
  \/ FormatKnown(t)
  \/ EncodesEnd(t)

FormatStep(t) == AddTrack(t) \/ AddTrackStops(t) \/ AddTrackRecords(t)

TrackThread(t) == LoopStep(t) \/ FormatStep(t) \/ TrackStopsAll(t) \/ TrackRecords(t)

WriterStep ==
  \/ \E t \in Tracks : WritesSample(t) \/ WritesEnd(t)
  \/ WriterStops
  \/ WriterStopsAll
  \/ WriterRecords

Failure == (\E t \in Tracks : TrackFails(t) \/ AddTrackFails(t)) \/ MuxerFails

Next ==
  \/ \E t \in Tracks : TrackThread(t)
  \/ WriterStep
  \/ Failure
  \/ WaitForThreads
  \/ Notify
  \/ Start \/ Pause \/ Cancel

Spec == Init /\ [][Next]_vars

\* Threads that can go on do so; nothing has to fail, nobody has to stop.
FairSpec ==
  /\ Spec
  /\ \A t \in Tracks : WF_vars(TrackThread(t))
  /\ WF_vars(WriterStep)
  /\ WF_vars(WaitForThreads)
  /\ WF_vars(Notify)

----------------------------------------------------------------------------
(* Properties *)

Run == INSTANCE TranscoderRun
         WITH run <- IF client = "configured" THEN "configured"
                     ELSE IF notifier # "none" THEN notifier
                     ELSE IF cancelled /\ client = "started" THEN "faulty"
                     ELSE IF client = "refused" THEN "faulty" ELSE "busy",
              client <- IF client \in {"checking", "waiting"} THEN "stopping" ELSE client

\* What MediaTranscoder.h promises the client: one report at most, none before
\* every thread is done; a run ends in silence only if the client has asked to
\* stop it, and a stop is refused only if the run has failed.
RunImplemented == Run!RunSpec

\* "if all transcoders have stopped but the sample writer has not yet started,
\* it never will": once the run is declared over no thread of it is left, so
\* that "it is safe to release the transcoder instance".
OverMeansOver ==
  threadsDone => /\ \A t \in Tracks : thread[t] = "gone"
                 /\ writerThread \in {"off", "gone"}

\* A run that nobody stopped and that is reported as finished has written every
\* sample of the file.
FinishedIsComplete ==
  (notifier = "finish" /\ ~cancelled) =>
    \A t \in Tracks : written[t] = Cardinality({i \in Samples : file[i] = t})

\* An error that came while the run was being paused.
ErrorInPause == failed /\ ~writerStopped

\* Every run ends and a client that waits in pause or cancel comes back: tracks
\* that wait for their turn, for a buffer or for the writer do not wait for
\* each other.  An error during a pause is excepted.
RunEnds ==
  client # "configured"
    ~> \/ threadsDone /\ client \notin {"checking", "waiting"}
       \/ ErrorInPause

\* "Stop all threads if one reports an error."
ErrorStopsAll == failed ~> threadsDone
=============================================================================
