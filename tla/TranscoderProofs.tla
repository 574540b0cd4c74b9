-------------------------- MODULE TranscoderProofs --------------------------
(***************************************************************************)
(* MediaTranscoder keeps the promises of TranscoderRun to its client, no   *)
(* track holds more samples than it has room for, and a run that is        *)
(* reported as finished has written every sample of the file: for any      *)
(* tracks, files, numbers of buffers and codec depths.  The first of these *)
(* needs only how a loop ends; the others follow the samples.              *)
(***************************************************************************)
EXTENDS MediaTranscoder, FiniteSetTheorems, TLAPS

Working == {"loop", "report", "record"}
FormatSteps == {"format", "addFailed", "addRecord"}
Ways == {"finished", "stopped", "error"}

\* What ties the threads to mThreadStates: a track comes to
\* onTrackFormatAvailable once, so the writer starts once, with every track
\* added, and is RUNNING until its thread is gone.
ThreadInv ==
  /\ thread \in [Tracks -> {"off", "loop", "report", "record", "gone"} \cup FormatSteps]
  /\ result \in [Tracks -> Results]
  /\ done = {t \in Tracks : thread[t] = "gone"}
  /\ tracksAdded \subseteq Tracks
  /\ client = "configured" =>
       /\ \A t \in Tracks : thread[t] = "off"
       /\ tracksAdded = {} /\ writerThread = "off" /\ ~threadsDone
  /\ \A t \in Tracks : thread[t] \in FormatSteps =>
       t \notin tracksAdded /\ (t \in Passthrough \/ t \in formatted)
  /\ \A t \in tracksAdded : t \in Passthrough \/ t \in formatted
  /\ writerThread \in {"off", "gone"} \cup Working
  /\ writerThread \in Working => writerState = "RUNNING"
  /\ writerThread # "off" => tracksAdded = Tracks
  /\ threadsDone \in BOOLEAN
  /\ threadsDone => /\ \A t \in Tracks : thread[t] = "gone"
                    /\ writerThread \in {"off", "gone"}
  /\ threadsDone <=> notifier # "none"

\* What the loop of a track leaves alone, and how it ends.
LoopMoves(t) ==
  /\ thread[t] = "loop"
  /\ UNCHANGED <<formatted, stopRequest, writer, writerThread, writerResult, tracksAdded,
                 stateVars, reported, client>>
  /\ \/ UNCHANGED <<thread, result>>
     \/ \E how \in Ways : Leaves(t, how) /\ (how = "stopped" => stopRequest[t] # "NONE")

LEMMA LoopLemma ==
  ASSUME NEW t \in Tracks,
         \/ StopsNow(t) \/ WaitsOrAsks(t) \/ FeedsCodec(t) \/ MeetsEnd(t) \/ EncodesEnd(t)
         \/ TrackFails(t) \/ \E sync \in BOOLEAN : CopiesSample(t, sync) \/ Encodes(t, sync)
  PROVE  LoopMoves(t)
  <1>1. CASE StopsNow(t) \/ EncodesEnd(t) \/ TrackFails(t)
    BY <1>1 DEF StopsNow, EncodesEnd, TrackFails, LeavesStopped, LoopMoves, writerVars, Ways
  <1>2. CASE WaitsOrAsks(t)
    BY <1>2 DEF WaitsOrAsks, WantsSample, LoopMoves, trackVars, writerVars
  <1>3. ASSUME NEW sync, GoesOn(t, sync)
        PROVE  \/ UNCHANGED <<thread, result>>
               \/ Leaves(t, "stopped") /\ stopRequest[t] # "NONE"
    BY <1>3 DEF GoesOn, LeavesStopped
  <1>4. CASE FeedsCodec(t)
    BY <1>3, <1>4 DEF FeedsCodec, WantsSample, LoopMoves, writerVars, Ways
  <1>5. CASE MeetsEnd(t)
    BY <1>3, <1>5 DEF MeetsEnd, WantsSample, LoopMoves, writerVars, Ways
  <1>6. ASSUME NEW sync \in BOOLEAN, CopiesSample(t, sync) PROVE LoopMoves(t)
    BY <1>3, <1>6 DEF CopiesSample, WantsSample, LoopMoves, writerVars, Ways
  <1>7. ASSUME NEW sync \in BOOLEAN, Encodes(t, sync) PROVE LoopMoves(t)
    BY <1>3, <1>7 DEF Encodes, AtLoopHead, LoopMoves, writerVars, Ways
  <1> QED
    BY <1>1, <1>2, <1>4, <1>5, <1>6, <1>7

\* The same for the writer.
WriterMoves ==
  /\ writerThread = "loop"
  /\ UNCHANGED <<thread, result, formatted, stopRequest, writer, tracksAdded, stateVars,
                 reported, client>>
  /\ \/ UNCHANGED <<writerThread, writerResult>>
     \/ \E how \in Ways : WriterLeaves(how) /\ (how = "stopped" => writer = "STOPPED")

LEMMA WriterLemma ==
  ASSUME \/ WriterStops \/ MuxerFails \/ \E t \in Tracks : WritesSample(t) \/ WritesEnd(t)
  PROVE  WriterMoves
  <1>1. CASE WriterStops \/ MuxerFails
    BY <1>1 DEF WriterStops, MuxerFails, WriterMoves, trackVars, Ways
  <1>2. ASSUME NEW t \in Tracks, WritesSample(t) PROVE WriterMoves
    BY <1>2 DEF WritesSample, WriterMoves
  <1>3. ASSUME NEW t \in Tracks, WritesEnd(t) PROVE WriterMoves
    BY <1>3 DEF WritesEnd, WriterMoves, trackVars, Ways
  <1> QED
    BY <1>1, <1>2, <1>3

----------------------------------------------------------------------------
(* No thread is left when the run is over *)

LEMMA ThreadStep ==
  ASSUME ThreadInv, [Next]_vars
  PROVE  ThreadInv'
  <1> USE DEF FormatSteps, Working, Results
  <1>1. ASSUME NEW t \in Tracks, LoopMoves(t) PROVE ThreadInv'
    <2>1. CASE UNCHANGED <<thread, result>>
      BY <1>1, <2>1 DEF LoopMoves, ThreadInv, stateVars
    <2>2. ASSUME NEW how \in Ways, Leaves(t, how) PROVE ThreadInv'
      BY <1>1, <2>2 DEF LoopMoves, ThreadInv, stateVars, Leaves, Ways
    <2> QED
      BY <1>1, <2>1, <2>2 DEF LoopMoves
  <1>2. ASSUME NEW t \in Tracks, FormatKnown(t) PROVE ThreadInv'
    BY <1>2 DEF FormatKnown, AtLoopHead, ThreadInv, writerVars, stateVars
  <1>3. ASSUME NEW t \in Tracks, AddTrack(t) PROVE ThreadInv'
    BY <1>3 DEF AddTrack, ThreadInv
  <1>4. ASSUME NEW t \in Tracks, AddTrackFails(t) PROVE ThreadInv'
    BY <1>4 DEF AddTrackFails, ThreadInv, writerVars, stateVars
  <1>5. ASSUME NEW t \in Tracks, AddTrackStops(t) PROVE ThreadInv'
    BY <1>5 DEF AddTrackStops, ThreadInv
  <1>6. ASSUME NEW t \in Tracks, AddTrackRecords(t) PROVE ThreadInv'
    BY <1>6 DEF AddTrackRecords, ThreadInv, writerVars, Conclude
  <1>7. ASSUME NEW t \in Tracks, TrackStopsAll(t) PROVE ThreadInv'
    BY <1>7 DEF TrackStopsAll, ThreadInv
  <1>8. ASSUME NEW t \in Tracks, TrackRecords(t) PROVE ThreadInv'
    BY <1>8 DEF TrackRecords, ThreadInv, writerVars, Conclude
  <1>9. CASE WriterMoves
    BY <1>9 DEF WriterMoves, WriterLeaves, ThreadInv, stateVars, Ways
  <1>10. CASE WriterStopsAll
    BY <1>10 DEF WriterStopsAll, ThreadInv
  <1>11. CASE WriterRecords
    BY <1>11 DEF WriterRecords, ThreadInv, trackVars, Conclude
  <1>12. CASE Start
    BY <1>12 DEF Start, ThreadInv, writerVars, stateVars
  <1>13. CASE Pause \/ Cancel
    <2>1. /\ client' # "configured"
          /\ UNCHANGED <<thread, result, formatted, writerThread, tracksAdded, done,
                         writerState, threadsDone, notifier>>
      BY <1>13 DEF Pause, Cancel, Stop
    <2> QED
      BY <2>1 DEF ThreadInv
  <1>14. CASE WaitForThreads \/ Notify
    BY <1>14 DEF WaitForThreads, Notify, ThreadInv, trackVars, writerVars, stateVars
  <1>15. CASE UNCHANGED vars
    BY <1>15 DEF vars, ThreadInv, trackVars, writerVars, stateVars
  <1> QED
    BY <1>1, <1>2, <1>3, <1>4, <1>5, <1>6, <1>7, <1>8, <1>9, <1>10, <1>11, <1>12, <1>13,
       <1>14, <1>15, LoopLemma, WriterLemma
       DEF Next, TrackThread, LoopStep, FormatStep, WriterStep, Failure

LEMMA ThreadInvHolds == Spec => []ThreadInv
  <1>1. Init => ThreadInv
    BY DEF Init, ThreadInv, FormatSteps, Working, Results
  <1>2. ThreadInv /\ [Next]_vars => ThreadInv'
    BY ThreadStep
  <1> QED
    BY <1>1, <1>2, PTL DEF Spec

\* Once onThreadFinished has declared the run over no thread of it is left, and
\* none comes: the writer, in particular, never starts after the last track is
\* done.
THEOREM NoThreadIsLeft == Spec => []OverMeansOver
  <1>1. ThreadInv => OverMeansOver
    BY DEF ThreadInv, OverMeansOver
  <1> QED
    BY <1>1, ThreadInvHolds, PTL
----------------------------------------------------------------------------
(* The client hears of the right end *)

\* A thread that is between the two halves of onThreadFinished after an error.
Failing ==
  \/ \E t \in Tracks : thread[t] \in {"addRecord", "record"}
  \/ writerThread = "record"

\* Nothing stops unless requestStop was called; it was called by the client, or
\* after an error that is, or will be, in mTranscoderStatus.
StopInv ==
  /\ client \in {"configured", "started", "checking", "waiting", "returned", "refused"}
  /\ notifier \in Notices
  /\ cancelled \in BOOLEAN /\ failed \in BOOLEAN /\ stopped \in BOOLEAN
  /\ stopRequest \in [Tracks -> {"NONE", "ON_SYNC", "NOW"}]
  /\ ~cancelled =>
       /\ ~failed /\ ~stopped /\ ~Failing
       /\ \A t \in Tracks : stopRequest[t] = "NONE" /\ result[t] # "stopped"
       /\ writer # "STOPPED" /\ writerResult # "stopped"
  /\ cancelled /\ client \in {"started", "refused"} => failed \/ Failing
  /\ \A t \in Tracks : thread[t] = "record" => result[t] = "error"
  /\ writerThread = "record" => writerResult = "error"
  /\ client = "configured" => ~cancelled
  /\ client \notin {"configured", "started"} => cancelled
  /\ client = "returned" => threadsDone
  /\ notifier # "none" /\ client \in {"started", "refused"} =>
       notifier = IF cancelled THEN "error" ELSE "finish"

LEMMA StopStep ==
  ASSUME ThreadInv, StopInv, [Next]_vars
  PROVE  StopInv'
  <1> USE DEF Failing, FormatSteps, Working, Results, Notices
  <1>1. ASSUME NEW t \in Tracks, LoopMoves(t) PROVE StopInv'
    <2>1. CASE UNCHANGED <<thread, result>>
      BY <1>1, <2>1 DEF LoopMoves, StopInv, stateVars
    <2>2. ASSUME NEW how \in Ways, Leaves(t, how), how = "stopped" => stopRequest[t] # "NONE"
          PROVE  StopInv'
      BY <1>1, <2>2 DEF LoopMoves, ThreadInv, StopInv, stateVars, Leaves, Ways
    <2> QED
      BY <1>1, <2>1, <2>2 DEF LoopMoves
  <1>2. ASSUME NEW t \in Tracks, FormatKnown(t) PROVE StopInv'
    BY <1>2 DEF FormatKnown, AtLoopHead, ThreadInv, StopInv, writerVars, stateVars
  <1>3. ASSUME NEW t \in Tracks, AddTrack(t) PROVE StopInv'
    BY <1>3 DEF AddTrack, ThreadInv, StopInv
  <1>4. ASSUME NEW t \in Tracks, AddTrackFails(t) PROVE StopInv'
    BY <1>4 DEF AddTrackFails, ThreadInv, StopInv, writerVars, stateVars
  <1>5. ASSUME NEW t \in Tracks, AddTrackStops(t) PROVE StopInv'
    BY <1>5 DEF AddTrackStops, ThreadInv, StopInv, RequestStop
  <1>6. ASSUME NEW t \in Tracks, AddTrackRecords(t) PROVE StopInv'
    BY <1>6 DEF AddTrackRecords, ThreadInv, StopInv, writerVars, Conclude
  <1>7. ASSUME NEW t \in Tracks, TrackStopsAll(t) PROVE StopInv'
    BY <1>7 DEF TrackStopsAll, ThreadInv, StopInv, RequestStop
  <1>8. ASSUME NEW t \in Tracks, TrackRecords(t) PROVE StopInv'
    BY <1>8 DEF TrackRecords, ThreadInv, StopInv, writerVars, Conclude
  <1>9. CASE WriterMoves
    BY <1>9 DEF WriterMoves, WriterLeaves, ThreadInv, StopInv, stateVars, Ways
  <1>10. CASE WriterStopsAll
    BY <1>10 DEF WriterStopsAll, ThreadInv, StopInv, RequestStop
  <1>11. CASE WriterRecords
    BY <1>11 DEF WriterRecords, ThreadInv, StopInv, trackVars, Conclude
  <1>12. CASE Start
    BY <1>12 DEF Start, ThreadInv, StopInv, writerVars, stateVars
  <1>13. ASSUME NEW onSync \in BOOLEAN, Stop(onSync) PROVE StopInv'
    BY <1>13 DEF Stop, ThreadInv, StopInv, RequestStop
  <1>14. CASE WaitForThreads \/ Notify
    BY <1>14 DEF WaitForThreads, Notify, ThreadInv, StopInv, trackVars, writerVars, stateVars
  <1>15. CASE UNCHANGED vars
    BY <1>15 DEF vars, StopInv, trackVars, writerVars, stateVars
  <1> QED
    BY <1>1, <1>2, <1>3, <1>4, <1>5, <1>6, <1>7, <1>8, <1>9, <1>10, <1>11, <1>12, <1>13,
       <1>14, <1>15, LoopLemma, WriterLemma
       DEF Next, TrackThread, LoopStep, FormatStep, WriterStep, Failure, Pause, Cancel
\* A step that leaves these alone is none of the run as the client sees it.
LEMMA Unseen ==
  ASSUME UNCHANGED <<notifier, cancelled, client, reported>>
  PROVE  UNCHANGED Run!runVars
  BY DEF Run!runVars

\* requestStop after an error is a fault of the run, unless the client has
\* stopped it, or another thread has failed, before.
LEMMA FaultStep ==
  ASSUME ThreadInv, StopInv, RequestStop(FALSE), UNCHANGED <<notifier, client, reported>>,
         client # "configured", ~threadsDone
  PROVE  [Run!RunNext]_Run!runVars
  <1>1. CASE cancelled
    BY <1>1, Unseen DEF RequestStop
  <1>2. CASE ~cancelled
    <2>1. client = "started" /\ notifier = "none" /\ cancelled'
      BY <1>2 DEF ThreadInv, StopInv, RequestStop
    <2>2. Run!Fault
      BY <1>2, <2>1 DEF Run!Fault
    <2> QED
      BY <2>2 DEF Run!RunNext
  <1> QED
    BY <1>1, <1>2 DEF StopInv

\* The end of onThreadFinished is the end of the run, or not seen.
LEMMA EndStep ==
  ASSUME ThreadInv, StopInv, StopInv', UNCHANGED <<cancelled, client, reported>>,
         client # "configured", notifier' # notifier, notifier = "none"
  PROVE  Run!RunNext
  <1>1. notifier' \in {"finish", "error", "silent"}
    BY DEF StopInv, Notices
  <1>2. Run!End(notifier')
    BY <1>1 DEF Run!End, StopInv
  <1> QED
    BY <1>1, <1>2 DEF Run!RunNext, Run!Over

LEMMA RunStep ==
  ASSUME ThreadInv, StopInv, StopInv', [Next]_vars
  PROVE  [Run!RunNext]_Run!runVars
  <1> USE DEF FormatSteps, Working
  <1>1. ASSUME NEW t \in Tracks,
               LoopMoves(t) \/ FormatKnown(t) \/ AddTrack(t) \/ AddTrackFails(t)
        PROVE  UNCHANGED Run!runVars
    BY <1>1, Unseen DEF LoopMoves, FormatKnown, AddTrack, AddTrackFails, stateVars
  <1>2. CASE WriterMoves \/ UNCHANGED vars
    BY <1>2, Unseen DEF WriterMoves, vars, stateVars
  <1>3. ASSUME NEW t \in Tracks, AddTrackStops(t) \/ TrackStopsAll(t)
        PROVE  [Run!RunNext]_Run!runVars
    <2>1. RequestStop(FALSE) /\ UNCHANGED <<notifier, client, reported>>
      BY <1>3 DEF AddTrackStops, TrackStopsAll
    <2>2. client # "configured" /\ ~threadsDone
      BY <1>3 DEF AddTrackStops, TrackStopsAll, ThreadInv
    <2> QED
      BY <2>1, <2>2, FaultStep
  <1>4. CASE WriterStopsAll
    <2>1. RequestStop(FALSE) /\ UNCHANGED <<notifier, client, reported>>
      BY <1>4 DEF WriterStopsAll
    <2>2. client # "configured" /\ ~threadsDone
      BY <1>4 DEF WriterStopsAll, ThreadInv
    <2> QED
      BY <2>1, <2>2, FaultStep
  <1>5. CASE WriterRecords \/ \E t \in Tracks : AddTrackRecords(t) \/ TrackRecords(t)
    <2>1. UNCHANGED <<cancelled, client, reported>>
      BY <1>5 DEF WriterRecords, AddTrackRecords, TrackRecords
    <2>2. client # "configured" /\ notifier = "none"
      BY <1>5 DEF WriterRecords, AddTrackRecords, TrackRecords, ThreadInv
    <2> QED
      BY <2>1, <2>2, EndStep, Unseen
  <1>6. CASE Start
    <2>1. /\ client = "configured" /\ client' = "started" /\ ~cancelled /\ notifier = "none"
          /\ UNCHANGED <<cancelled, notifier, reported>>
      BY <1>6 DEF Start, stateVars, ThreadInv, StopInv
    <2>2. Run!Start
      BY <2>1 DEF Run!Start
    <2> QED
      BY <2>2 DEF Run!RunNext
  <1>7. ASSUME NEW onSync \in BOOLEAN, Stop(onSync) PROVE Run!RunNext
    <2>1. /\ client = "started" /\ cancelled'
          /\ client' = IF cancelled THEN "refused" ELSE "checking"
          /\ UNCHANGED <<notifier, reported>>
      BY <1>7 DEF Stop, RequestStop
    <2>2. Run!Stop
      BY <2>1 DEF Run!Stop, StopInv
    <2> QED
      BY <2>2 DEF Run!RunNext
  <1>8. CASE WaitForThreads
    <2>1. /\ client = "checking" /\ UNCHANGED <<notifier, cancelled, reported>>
          /\ client' = IF threadsDone THEN "returned" ELSE "waiting"
      BY <1>8 DEF WaitForThreads, stateVars
    <2>2. CASE ~threadsDone
      BY <2>1, <2>2 DEF Run!runVars
    <2>3. CASE threadsDone
      <3>1. notifier \in {"finish", "error", "silent"}
        BY <2>3 DEF ThreadInv, StopInv, Notices
      <3>2. Run!Return
        BY <2>1, <2>3, <3>1 DEF Run!Return, Run!Over
      <3> QED
        BY <3>2 DEF Run!RunNext
    <2> QED
      BY <2>2, <2>3
  <1>9. CASE Notify
    <2>1. /\ notifier # "none" /\ reported = "none" /\ reported' = notifier
          /\ client' = IF client = "waiting" THEN "checking" ELSE client
          /\ UNCHANGED <<notifier, cancelled>>
      BY <1>9 DEF Notify, stateVars
    <2>2. notifier \in {"finish", "error", "silent"} /\ client # "configured"
      BY <2>1 DEF ThreadInv, StopInv, Notices
    <2>3. Run!Report
      BY <2>1, <2>2 DEF Run!Report, Run!Over
    <2> QED
      BY <2>3 DEF Run!RunNext
  <1> QED
    BY <1>1, <1>2, <1>3, <1>4, <1>5, <1>6, <1>7, <1>8, <1>9, LoopLemma, WriterLemma
       DEF Next, TrackThread, LoopStep, FormatStep, WriterStep, Failure, Pause, Cancel

\* MediaTranscoder implements TranscoderRun: the client gets one callback at
\* most, after the last thread is done; no callback at all only if it has
\* paused or cancelled the run; and a pause or cancel is refused only if the
\* run has failed.
THEOREM RunIsImplemented == Spec => RunImplemented
  <1>1. Init => StopInv /\ Run!RunInit
    BY DEF Init, StopInv, Failing, Notices, Run!RunInit
  <1>2. ThreadInv /\ StopInv /\ [Next]_vars => StopInv'
    BY StopStep
  <1>3. ThreadInv /\ StopInv /\ StopInv' /\ [Next]_vars => [Run!RunNext]_Run!runVars
    BY RunStep
  <1> QED
    BY <1>1, <1>2, <1>3, ThreadInvHolds, PTL DEF Spec, RunImplemented, Run!RunSpec
----------------------------------------------------------------------------
(* No buffer or codec holds more than it can *)

\* A track that waits in the reader, or is about to read, has made sure of the
\* place for its sample before: in the codec when it asked for the sample, in
\* the buffer pool when it asked for the data.
RoomInv ==
  \A t \in Tracks :
    /\ t \notin Passthrough /\ call[t] \in {"infoWait", "read", "readWait"} => coding[t] < Depth
    /\ t \in Passthrough /\ call[t] = "readWait" => out[t] < Buffers

DataInv ==
  /\ SourceTypeOK
  /\ coding \in [Tracks -> 0..Depth]
  /\ formatted \in SUBSET Tracks
  /\ lastSync \in [Tracks -> BOOLEAN]
  /\ out \in [Tracks -> 0..Buffers]
  /\ eosOut \in SUBSET Tracks
  /\ writer \in {"INITIALIZED", "STARTED", "STOPPED"}
  /\ writerResult \in Results
  /\ written \in [Tracks -> Nat]
  /\ eosWritten \in SUBSET Tracks
  /\ adding \in SUBSET Tracks
  /\ writerState \in {"PENDING", "RUNNING", "DONE"}
  /\ writerStopped \in BOOLEAN
  /\ reported \in Notices
  /\ RoomInv

LEMMA SampleNumbers ==
  ASSUME SourceTypeOK
  PROVE  /\ Samples \subseteq Nat \ {0} /\ IsFiniteSet(Samples)
         /\ \A i \in Samples : file[i] \in Tracks
  <1>1. file \in Seq(Tracks)
    BY FilesAssumption DEF SourceTypeOK
  <1>2. Samples = 1..Len(file) /\ Len(file) \in Nat
    BY <1>1 DEF Samples
  <1>3. IsFiniteSet(1..Len(file))
    BY <1>2, FS_Interval
  <1> QED
    BY <1>1, <1>2, <1>3

LEMMA SourceTypes ==
  ASSUME SourceTypeOK, Enforce \/ \E t \in Tracks : TrackStep(t)
  PROVE  SourceTypeOK'
  <1>1. CASE Enforce
    BY <1>1 DEF Enforce, SourceTypeOK
  <1>2. ASSUME NEW t \in Tracks, Wait(t) PROVE SourceTypeOK'
    BY <1>2 DEF Wait, SourceTypeOK, Calls
  <1>3. ASSUME NEW t \in Tracks, GetInfo(t) PROVE SourceTypeOK'
    BY <1>3 DEF GetInfo, SourceTypeOK, Calls
  <1>4. ASSUME NEW t \in Tracks, Read(t) PROVE SourceTypeOK'
    <2>1. PICK i \in SamplesLeft(t) :
            got' = [got EXCEPT ![t] = i] /\ eos' = (enforce /\ Unread = {i})
      BY <1>4 DEF Read
    <2>2. i \in Nat
      BY SampleNumbers DEF SamplesLeft
    <2> QED
      BY <1>4, <2>1, <2>2 DEF Read, SourceTypeOK, Calls
  <1>5. ASSUME NEW t \in Tracks, End(t) PROVE SourceTypeOK'
    BY <1>5 DEF End, SourceTypeOK, Calls
  <1> QED
    BY <1>1, <1>2, <1>3, <1>4, <1>5 DEF TrackStep

LEMMA DataStep ==
  ASSUME ThreadInv, StopInv, DataInv, [Next]_vars
  PROVE  DataInv'
  <1> USE TranscoderAssumption DEF Results, Notices, RoomInv
  <1>1. ASSUME NEW t \in Tracks, StopsNow(t) \/ EncodesEnd(t) \/ TrackFails(t) PROVE DataInv'
    BY <1>1 DEF StopsNow, EncodesEnd, TrackFails, LeavesStopped, Leaves, DataInv,
       SourceTypeOK, sourceVars, writerVars, stateVars
  <1>2. ASSUME NEW t \in Tracks, WaitsOrAsks(t) PROVE DataInv'
    <2>1. SourceTypeOK'
      BY <1>2, SourceTypes DEF DataInv, WaitsOrAsks, TrackStep
    <2>2. RoomInv'
      BY <1>2 DEF WaitsOrAsks, WantsSample, Wait, GetInfo, InInfo, DataInv, SourceTypeOK, trackVars
    <2> QED
      BY <1>2, <2>1, <2>2 DEF DataInv, WaitsOrAsks, trackVars, writerVars, stateVars
  <1>3. ASSUME NEW t \in Tracks, NEW sync \in BOOLEAN, CopiesSample(t, sync) PROVE DataInv'
    <2>1. SourceTypeOK' /\ InRead(t) /\ call' = [call EXCEPT ![t] = "info"]
      BY <1>3, SourceTypes DEF DataInv, CopiesSample, TrackStep, Read
    <2>2. out[t] < Buffers
      BY <1>3, <2>1 DEF DataInv, CopiesSample, WantsSample, InRead
    <2>3. out' \in [Tracks -> 0..Buffers]
      BY <1>3, <2>2 DEF DataInv, CopiesSample
    <2>4. RoomInv'
      BY <1>3, <2>1 DEF DataInv, CopiesSample, SourceTypeOK
    <2> QED
      BY <1>3, <2>1, <2>3, <2>4
         DEF DataInv, CopiesSample, GoesOn, LeavesStopped, writerVars, stateVars
  <1>4. ASSUME NEW t \in Tracks, FeedsCodec(t) PROVE DataInv'
    <2>1. SourceTypeOK' /\ InRead(t) /\ call' = [call EXCEPT ![t] = "info"]
      BY <1>4, SourceTypes DEF DataInv, FeedsCodec, TrackStep, Read
    <2>2. coding[t] < Depth
      BY <1>4, <2>1 DEF DataInv, FeedsCodec, InRead
    <2>3. coding' \in [Tracks -> 0..Depth]
      BY <1>4, <2>2 DEF DataInv, FeedsCodec
    <2>4. RoomInv'
      BY <1>4, <2>1 DEF DataInv, FeedsCodec, SourceTypeOK
    <2> QED
      BY <1>4, <2>1, <2>3, <2>4
         DEF DataInv, FeedsCodec, GoesOn, LeavesStopped, writerVars, stateVars
  <1>5. ASSUME NEW t \in Tracks, MeetsEnd(t) PROVE DataInv'
    <2>1. SourceTypeOK' /\ call' = [call EXCEPT ![t] = IF InInfo(t) THEN "end" ELSE "failed"]
      BY <1>5, SourceTypes DEF DataInv, MeetsEnd, TrackStep, End
    <2>2. eosOut' \in SUBSET Tracks
      BY <1>5 DEF MeetsEnd, GoesOn, LeavesStopped, DataInv
    <2> QED
      BY <1>5, <2>1, <2>2 DEF DataInv, MeetsEnd, SourceTypeOK, writerVars, stateVars
  <1>6. ASSUME NEW t \in Tracks, FormatKnown(t) PROVE DataInv'
    BY <1>6 DEF FormatKnown, DataInv, SourceTypeOK, sourceVars, writerVars, stateVars
  <1>7. ASSUME NEW t \in Tracks, NEW sync \in BOOLEAN, Encodes(t, sync) PROVE DataInv'
    <2>1. coding' \in [Tracks -> 0..Depth] /\ out' \in [Tracks -> 0..Buffers]
      BY <1>7 DEF Encodes, DataInv
    <2>2. RoomInv'
      BY <1>7 DEF Encodes, DataInv, sourceVars
    <2> QED
      BY <1>7, <2>1, <2>2 DEF Encodes, GoesOn, LeavesStopped, DataInv, SourceTypeOK,
         sourceVars, writerVars, stateVars
  <1>8. ASSUME NEW t \in Tracks, AddTrack(t) PROVE DataInv'
    <2>1. SourceTypeOK' /\ call' = call
      BY <1>8, SourceTypes DEF AddTrack, DataInv, SourceTypeOK, sourceVars, Enforce
    <2> QED
      BY <1>8, <2>1 DEF AddTrack, DataInv
  <1>9. ASSUME NEW t \in Tracks, AddTrackFails(t) PROVE DataInv'
    BY <1>9 DEF AddTrackFails, DataInv, SourceTypeOK, sourceVars, writerVars, stateVars
  <1>10. ASSUME RequestStop(FALSE) \/ RequestStop(TRUE),
                UNCHANGED <<file, got, eos, call, coding, formatted, lastSync, out, eosOut,
                            writerResult, written, eosWritten, adding, writerState, reported>>
         PROVE  DataInv'
    <2>1. writer' \in {"INITIALIZED", "STARTED", "STOPPED"}
      BY <1>10 DEF RequestStop, DataInv
    <2>2. enforce' \in BOOLEAN /\ writerStopped' \in BOOLEAN
      BY <1>10 DEF RequestStop, DataInv, SourceTypeOK
    <2>3. SourceTypeOK'
      BY <1>10, <2>2 DEF DataInv, SourceTypeOK
    <2> QED
      BY <1>10, <2>1, <2>2, <2>3 DEF DataInv, RoomInv
  <1>11. ASSUME NEW t \in Tracks, AddTrackStops(t) \/ TrackStopsAll(t) PROVE DataInv'
    BY <1>10, <1>11 DEF AddTrackStops, TrackStopsAll
  <1>12. CASE WriterStopsAll \/ Pause \/ Cancel
    BY <1>10, <1>12 DEF WriterStopsAll, Pause, Cancel, Stop
  <1>13. ASSUME NEW t \in Tracks, AddTrackRecords(t) \/ TrackRecords(t) PROVE DataInv'
    BY <1>13 DEF AddTrackRecords, TrackRecords, Conclude, DataInv, SourceTypeOK, sourceVars,
       writerVars
  <1>14. CASE WriterRecords
    BY <1>14 DEF WriterRecords, Conclude, DataInv, SourceTypeOK, sourceVars, trackVars
  <1>15. ASSUME NEW t \in Tracks, WritesSample(t) PROVE DataInv'
    BY <1>15 DEF WritesSample, DataInv, SourceTypeOK, sourceVars, stateVars
  <1>16. ASSUME NEW t \in Tracks, WritesEnd(t) PROVE DataInv'
    BY <1>16 DEF WritesEnd, WriterLeaves, DataInv, SourceTypeOK, sourceVars, trackVars, stateVars
  <1>17. CASE WriterStops \/ MuxerFails
    BY <1>17 DEF WriterStops, MuxerFails, WriterLeaves, DataInv, SourceTypeOK, sourceVars,
       trackVars, stateVars
  <1>18. CASE Start \/ WaitForThreads
    BY <1>18 DEF Start, WaitForThreads, DataInv, SourceTypeOK, sourceVars, trackVars,
       writerVars, stateVars
  <1>19. CASE Notify
    BY <1>19 DEF Notify, DataInv, StopInv, SourceTypeOK, sourceVars, trackVars, writerVars,
       stateVars
  <1>20. CASE UNCHANGED vars
    BY <1>20 DEF vars, DataInv, SourceTypeOK, sourceVars, trackVars, writerVars, stateVars
  <1> QED
    BY <1>1, <1>2, <1>3, <1>4, <1>5, <1>6, <1>7, <1>8, <1>9, <1>11, <1>12, <1>13, <1>14,
       <1>15, <1>16, <1>17, <1>18, <1>19, <1>20
       DEF Next, TrackThread, LoopStep, FormatStep, WriterStep, Failure

LEMMA DataInvHolds == Spec => [](ThreadInv /\ StopInv /\ DataInv)
  <1>1. Init => StopInv
    BY DEF Init, StopInv, Failing, Notices
  <1>2. Init => DataInv
    <2> SUFFICES ASSUME Init PROVE DataInv
      OBVIOUS
    <2>1. SourceTypeOK /\ RoomInv
      BY TranscoderAssumption DEF Init, SourceInit, SourceTypeOK, Calls, RoomInv
    <2>2. coding \in [Tracks -> 0..Depth] /\ out \in [Tracks -> 0..Buffers]
      BY TranscoderAssumption DEF Init
    <2> QED
      BY <2>1, <2>2 DEF Init, DataInv, Notices, Results
  <1>3. ThreadInv /\ StopInv /\ [Next]_vars => StopInv'
    BY StopStep
  <1>4. ThreadInv /\ StopInv /\ DataInv /\ [Next]_vars => DataInv'
    BY DataStep
  <1> QED
    BY <1>1, <1>2, <1>3, <1>4, ThreadInvHolds, PTL DEF Spec

\* The types, with the bounds on what a track holds: a passthrough track never
\* copies a sample without a buffer for it, a codec is never given more than it
\* takes, although a track may wait in the reader in between.
THEOREM TracksStayWithinTheirRoom == Spec => []TranscoderTypeOK
  <1>1. ThreadInv /\ StopInv /\ DataInv => TranscoderTypeOK
    BY DEF ThreadInv, StopInv, DataInv, TranscoderTypeOK, FormatSteps, Working
  <1> QED
    BY <1>1, DataInvHolds, PTL

----------------------------------------------------------------------------
(* A finished run is complete *)

SamplesRead(t) == {i \in Samples : file[i] = t /\ i <= got[t]}

\* Every sample that was read is in the codec, in a buffer or in the file.
CountInv ==
  \A t \in Tracks :
    /\ Cardinality(SamplesRead(t)) = written[t] + out[t] + coding[t]
    /\ t \in Passthrough => coding[t] = 0

\* END_OF_STREAM means what it says as long as nobody has stopped the run: the
\* extractor is past the last sample only if all were read, and no track waits
\* when access is not sequential.
EndInv ==
  /\ enforce /\ eos => Unread = {}
  /\ ~enforce => \A t \in Tracks : call[t] \notin {"infoWait", "readWait"}
  /\ eos => Started
  /\ \A t \in Tracks : call[t] = "end" => SamplesLeft(t) = {}

\* How the tracks and the writer finish in a run that nobody has stopped.
FinishInv ==
  /\ \A t \in Tracks :
       /\ thread[t] \in {"off", "loop"} \cup FormatSteps => result[t] = "none"
       /\ thread[t] = "report" => result[t] # "none"
       /\ thread[t] = "gone" => result[t] = "finished"
       /\ result[t] = "finished" => /\ call[t] = "end" /\ coding[t] = 0
                                    /\ t \in Passthrough \/ t \in formatted
       /\ t \in eosOut => result[t] = "finished"
       /\ t \in eosWritten => t \in eosOut /\ out[t] = 0
       /\ thread[t] \notin {"off"} \cup FormatSteps /\ (t \in Passthrough \/ t \in formatted) =>
            t \in tracksAdded
  /\ ~writerStopped
  /\ tracksAdded = Tracks /\ Tracks # {} => writerThread # "off"
  /\ writerThread \in {"off", "loop"} => writerResult = "none"
  /\ writerThread = "report" => writerResult # "none"
  /\ writerThread = "gone" => writerResult = "finished"
  /\ writerResult = "finished" => eosWritten = Tracks
  /\ notifier = "finish" => done = Tracks
  /\ client = "configured" => formatted = {}

UnstoppedInv == ~cancelled => EndInv /\ FinishInv

\* The loops of the tracks and the writer see the source through its own steps.
LEMMA SourceMoves ==
  ASSUME StopInv, [Next]_vars
  PROVE  \/ cancelled'
         \/ /\ ~cancelled
            /\ UNCHANGED sourceVars \/ Enforce \/ \E t \in Tracks : TrackStep(t)
  <1>1. ASSUME RequestStop(FALSE) \/ RequestStop(TRUE) PROVE cancelled'
    BY <1>1 DEF RequestStop, StopInv
  <1>2. ASSUME NEW t \in Tracks, AddTrackStops(t) \/ TrackStopsAll(t) PROVE cancelled'
    BY <1>1, <1>2 DEF AddTrackStops, TrackStopsAll
  <1>3. CASE WriterStopsAll \/ Pause \/ Cancel
    BY <1>1, <1>3 DEF WriterStopsAll, Pause, Cancel, Stop
  <1>4. ASSUME NEW t \in Tracks, WaitsOrAsks(t) \/ FeedsCodec(t) \/ MeetsEnd(t)
        PROVE  TrackStep(t) /\ cancelled' = cancelled
    BY <1>4 DEF WaitsOrAsks, FeedsCodec, MeetsEnd, TrackStep, stateVars
  <1>5. ASSUME NEW t \in Tracks, NEW sync \in BOOLEAN, CopiesSample(t, sync)
        PROVE  TrackStep(t) /\ cancelled' = cancelled
    BY <1>5 DEF CopiesSample, TrackStep, stateVars
  <1>6. ASSUME NEW t \in Tracks, AddTrack(t)
        PROVE  (UNCHANGED sourceVars \/ Enforce) /\ cancelled' = cancelled
    BY <1>6 DEF AddTrack
  <1>7. ASSUME NEW t \in Tracks, \/ StopsNow(t) \/ FormatKnown(t) \/ EncodesEnd(t)
                                 \/ TrackFails(t) \/ AddTrackFails(t) \/ AddTrackRecords(t)
                                 \/ TrackRecords(t) \/ WritesSample(t) \/ WritesEnd(t)
        PROVE  UNCHANGED <<sourceVars, cancelled>>
    BY <1>7 DEF StopsNow, FormatKnown, EncodesEnd, TrackFails, AddTrackFails, AddTrackRecords,
       TrackRecords, WritesSample, WritesEnd, stateVars
  <1>8. ASSUME NEW t \in Tracks, NEW sync \in BOOLEAN, Encodes(t, sync)
        PROVE  UNCHANGED <<sourceVars, cancelled>>
    BY <1>8 DEF Encodes, stateVars
  <1>9. CASE WriterStops \/ MuxerFails \/ WriterRecords
    BY <1>9 DEF WriterStops, MuxerFails, WriterRecords, stateVars, StopInv
  <1>10. CASE WaitForThreads \/ Notify \/ Start \/ UNCHANGED vars
    BY <1>10 DEF WaitForThreads, Notify, Start, vars, stateVars, StopInv
  <1> QED
    BY <1>2, <1>3, <1>4, <1>5, <1>6, <1>7, <1>8, <1>9, <1>10
       DEF Next, TrackThread, LoopStep, FormatStep, WriterStep, Failure, StopInv

LEMMA EndOfStreamStep ==
  ASSUME SourceTypeOK, EndInv,
         UNCHANGED sourceVars \/ Enforce \/ \E t \in Tracks : TrackStep(t)
  PROVE  EndInv'
  <1>1. CASE UNCHANGED sourceVars
    BY <1>1 DEF sourceVars, EndInv, Unread, Started, SamplesLeft, Samples
  <1>2. CASE Enforce
    <2>1. UNCHANGED <<file, got, call>>
      BY <1>2 DEF Enforce
    <2>2. Unread' = Unread /\ Started' = Started /\ \A t \in Tracks : SamplesLeft(t)' = SamplesLeft(t)
      BY <2>1 DEF Unread, Started, SamplesLeft, Samples
    <2>3. CASE enforce \/ ~Started
      BY <1>2, <2>1, <2>2, <2>3 DEF Enforce, EndInv, SourceTypeOK
    <2>4. CASE ~(enforce \/ ~Started)
      BY <1>2, <2>1, <2>2, <2>4 DEF Enforce, EndInv, SourceTypeOK
    <2> QED
      BY <2>3, <2>4
  <1>3. ASSUME NEW t \in Tracks, Wait(t) PROVE EndInv'
    <2>1. /\ call' = [call EXCEPT ![t] = IF @ = "info" THEN "infoWait" ELSE "readWait"]
          /\ enforce /\ UNCHANGED <<file, got, enforce, eos>>
      BY <1>3 DEF Wait, MustWait
    <2>2. Unread' = Unread /\ \A u \in Tracks : SamplesLeft(u)' = SamplesLeft(u)
      BY <2>1 DEF Unread, SamplesLeft, Samples
    <2>3. Started => Started'
      BY <2>1 DEF Started, SourceTypeOK
    <2> QED
      BY <2>1, <2>2, <2>3 DEF EndInv, SourceTypeOK
  <1>4. ASSUME NEW t \in Tracks, GetInfo(t) PROVE EndInv'
    <2>1. /\ call' = [call EXCEPT ![t] = "read"]
          /\ ~eos' /\ UNCHANGED <<file, got, enforce>>
      BY <1>4 DEF GetInfo
    <2>2. \A u \in Tracks : SamplesLeft(u)' = SamplesLeft(u)
      BY <2>1 DEF SamplesLeft, Samples
    <2> QED
      BY <2>1, <2>2 DEF EndInv, SourceTypeOK
  <1>5. ASSUME NEW t \in Tracks, Read(t) PROVE EndInv'
    <2>1. PICK i \in SamplesLeft(t) :
            got' = [got EXCEPT ![t] = i] /\ eos' = (enforce /\ Unread = {i})
      BY <1>5 DEF Read
    <2>2. call' = [call EXCEPT ![t] = "info"] /\ UNCHANGED <<file, enforce>>
      BY <1>5 DEF Read
    <2>3. i \in Nat \ {0} /\ i \in Samples /\ file[i] = t /\ i > got[t]
      BY SampleNumbers DEF SamplesLeft
    <2>4. Unread' \subseteq Unread \ {i}
      <3> SUFFICES ASSUME NEW j \in Unread' PROVE j \in Unread \ {i}
        OBVIOUS
      <3>1. j \in Samples /\ j > got'[file[j]] /\ file[j] \in Tracks /\ j \in Nat
        BY <2>2, SampleNumbers DEF Unread, Samples
      <3>2. got[t] \in Nat /\ got[file[j]] \in Nat
        BY <3>1 DEF SourceTypeOK
      <3> QED
        BY <2>1, <2>3, <3>1, <3>2 DEF Unread, SourceTypeOK
    <2>5. \A u \in Tracks : u # t => SamplesLeft(u)' = SamplesLeft(u)
      BY <2>1, <2>2 DEF SamplesLeft, Samples, SourceTypeOK
    <2>6. Started'
      BY <2>1, <2>2, <2>3 DEF Started, Samples, SourceTypeOK
    <2>7. enforce' /\ eos' => Unread' = {}
      BY <2>1, <2>2, <2>4
    <2>8. ~enforce' => \A u \in Tracks : call'[u] \notin {"infoWait", "readWait"}
      BY <2>2 DEF EndInv, SourceTypeOK
    <2>9. \A u \in Tracks : call'[u] = "end" => SamplesLeft(u)' = {}
      BY <2>2, <2>5 DEF EndInv, SourceTypeOK
    <2> QED
      BY <2>6, <2>7, <2>8, <2>9 DEF EndInv
  <1>6. ASSUME NEW t \in Tracks, End(t) PROVE EndInv'
    <2>1. /\ call' = [call EXCEPT ![t] = IF InInfo(t) THEN "end" ELSE "failed"]
          /\ eos' = (eos \/ file # <<>>)
          /\ UNCHANGED <<file, got, enforce>>
      BY <1>6 DEF End
    <2>2. Unread' = Unread /\ \A u \in Tracks : SamplesLeft(u)' = SamplesLeft(u)
      BY <2>1 DEF Unread, SamplesLeft, Samples
    <2>3. \/ enforce /\ eos
          \/ ~enforce /\ SamplesLeft(t) = {}
          \/ file = <<>>
      BY <1>6 DEF End, SeesEnd, WaitsForTurn, EndInv, SourceTypeOK
    <2>4. SamplesLeft(t) = {}
      <3>1. CASE enforce /\ eos
        BY <3>1, SampleNumbers DEF EndInv, Unread, SamplesLeft
      <3>2. CASE file = <<>>
        BY <3>2 DEF SamplesLeft, Samples
      <3> QED
        BY <2>3, <3>1, <3>2
    <2>5. enforce' /\ eos' => Unread' = {}
      <3>1. CASE file = <<>>
        BY <2>2, <3>1 DEF Unread, Samples
      <3>2. CASE file # <<>>
        BY <2>1, <2>2, <2>3, <3>2 DEF EndInv
      <3> QED
        BY <3>1, <3>2
    <2>6. eos' => Started'
      <3>1. eos => file # <<>>
        BY DEF EndInv, Started
      <3> QED
        BY <2>1, <3>1 DEF Started, SourceTypeOK
    <2> QED
      BY <2>1, <2>2, <2>4, <2>5, <2>6 DEF EndInv, SourceTypeOK
  <1> QED
    BY <1>1, <1>2, <1>3, <1>4, <1>5, <1>6 DEF TrackStep

\* readSampleDataForTrack hands over one more sample of its track.
LEMMA ReadCounts ==
  ASSUME SourceTypeOK, NEW t \in Tracks, Read(t)
  PROVE  /\ Cardinality(SamplesRead(t)') = Cardinality(SamplesRead(t)) + 1
         /\ \A u \in Tracks : u # t => SamplesRead(u)' = SamplesRead(u)
  <1>1. PICK i \in SamplesLeft(t) :
          IsFirst(i, SamplesLeft(t)) /\ got' = [got EXCEPT ![t] = i]
    BY DEF Read
  <1>2. i \in Nat /\ i \in Samples /\ file[i] = t /\ i > got[t] /\ got[t] \in Nat
    BY SampleNumbers DEF SamplesLeft, SourceTypeOK
  <1>3. UNCHANGED <<file, Samples>>
    BY DEF Read, Samples
  <1>4. SamplesRead(t)' = SamplesRead(t) \cup {i}
    <2>1. got'[t] = i
      BY <1>1 DEF SourceTypeOK
    <2>2. ASSUME NEW j \in Samples, file[j] = t PROVE j <= i <=> j <= got[t] \/ j = i
      BY <1>1, <1>2, <2>2, SampleNumbers DEF IsFirst, SamplesLeft
    <2> QED
      BY <1>2, <1>3, <2>1, <2>2 DEF SamplesRead
  <1>5. IsFiniteSet(SamplesRead(t)) /\ i \notin SamplesRead(t)
    BY <1>2, SampleNumbers, FS_Subset DEF SamplesRead
  <1>6. Cardinality(SamplesRead(t)') = Cardinality(SamplesRead(t)) + 1
    BY <1>4, <1>5, FS_AddElement
  <1>7. ASSUME NEW u \in Tracks, u # t PROVE SamplesRead(u)' = SamplesRead(u)
    BY <1>1, <1>3, <1>7 DEF SamplesRead, SourceTypeOK
  <1> QED
    BY <1>6, <1>7

\* A step that neither reads, nor codes, nor writes a sample.
LEMMA NothingCounted ==
  ASSUME CountInv, UNCHANGED <<file, got, written, out, coding>>
  PROVE  CountInv'
  BY DEF CountInv, SamplesRead, Samples

LEMMA CountStep ==
  ASSUME DataInv, CountInv, [Next]_vars
  PROVE  CountInv'
  <1> DEFINE Counted == <<file, got, written, out, coding>>
  <1>1. ASSUME NEW t \in Tracks, NEW sync \in BOOLEAN, CopiesSample(t, sync) PROVE CountInv'
    <2>1. /\ Read(t) /\ t \in Passthrough
          /\ out' = [out EXCEPT ![t] = @ + 1] /\ UNCHANGED <<written, coding>>
      BY <1>1 DEF CopiesSample, writerVars
    <2> QED
      BY <2>1, ReadCounts DEF CountInv, DataInv
  <1>2. ASSUME NEW t \in Tracks, FeedsCodec(t) PROVE CountInv'
    <2>1. /\ Read(t) /\ t \notin Passthrough
          /\ coding' = [coding EXCEPT ![t] = @ + 1] /\ UNCHANGED <<written, out>>
      BY <1>2 DEF FeedsCodec, writerVars
    <2> QED
      BY <2>1, ReadCounts DEF CountInv, DataInv
  <1>3. ASSUME NEW t \in Tracks, NEW sync \in BOOLEAN, Encodes(t, sync) PROVE CountInv'
    <2>1. /\ t \notin Passthrough /\ UNCHANGED <<file, got, written>>
          /\ coding[t] > 0 /\ coding' = [coding EXCEPT ![t] = @ - 1]
          /\ out' = [out EXCEPT ![t] = @ + 1]
      BY <1>3 DEF Encodes, sourceVars, writerVars
    <2>2. \A u \in Tracks : SamplesRead(u)' = SamplesRead(u)
      BY <2>1 DEF SamplesRead, Samples
    <2>3. \A u \in Tracks : written[u] \in Nat /\ out[u] \in Nat /\ coding[u] \in Nat
      BY TranscoderAssumption DEF DataInv
    <2>4. \A u \in Tracks : out'[u] + coding'[u] = out[u] + coding[u]
      BY <2>1, <2>3 DEF DataInv
    <2>5. \A u \in Tracks : out'[u] \in Nat /\ coding'[u] \in Nat
      BY <2>1, <2>3 DEF DataInv
    <2> QED
      BY <2>1, <2>2, <2>3, <2>4, <2>5 DEF CountInv, DataInv
  <1>4. ASSUME NEW t \in Tracks, WritesSample(t) PROVE CountInv'
    <2>1. /\ UNCHANGED <<file, got, coding>>
          /\ out[t] > 0 /\ out' = [out EXCEPT ![t] = @ - 1]
          /\ written' = [written EXCEPT ![t] = @ + 1]
      BY <1>4 DEF WritesSample, sourceVars
    <2>2. \A u \in Tracks : SamplesRead(u)' = SamplesRead(u)
      BY <2>1 DEF SamplesRead, Samples
    <2> QED
      BY <2>1, <2>2, TranscoderAssumption DEF CountInv, DataInv
  <1>5. ASSUME NEW t \in Tracks, \/ StopsNow(t) \/ WaitsOrAsks(t) \/ MeetsEnd(t) \/ FormatKnown(t)
                                 \/ EncodesEnd(t) \/ TrackFails(t)
        PROVE  UNCHANGED Counted
    BY <1>5 DEF StopsNow, WaitsOrAsks, MeetsEnd, FormatKnown, EncodesEnd, TrackFails, Wait,
       GetInfo, End, sourceVars, trackVars, writerVars
  <1>6. ASSUME NEW t \in Tracks, \/ AddTrack(t) \/ AddTrackFails(t) \/ AddTrackStops(t)
                                 \/ AddTrackRecords(t) \/ TrackStopsAll(t) \/ TrackRecords(t)
        PROVE  UNCHANGED Counted
    BY <1>6 DEF AddTrack, AddTrackFails, AddTrackStops, AddTrackRecords, TrackStopsAll,
       TrackRecords, Enforce, sourceVars, writerVars
  <1>7. CASE WriterStops \/ MuxerFails \/ WriterStopsAll \/ WriterRecords
    BY <1>7, NothingCounted DEF WriterStops, MuxerFails, WriterStopsAll, WriterRecords,
       sourceVars, trackVars
  <1>8. ASSUME NEW t \in Tracks, WritesEnd(t) PROVE UNCHANGED Counted
    BY <1>8 DEF WritesEnd, sourceVars, trackVars
  <1>9. CASE WaitForThreads \/ Notify \/ Start \/ Pause \/ Cancel \/ UNCHANGED vars
    BY <1>9, NothingCounted DEF WaitForThreads, Notify, Start, Pause, Cancel, Stop, vars,
       sourceVars, trackVars, writerVars
  <1> QED
    BY <1>1, <1>2, <1>3, <1>4, <1>5, <1>6, <1>7, <1>8, <1>9, NothingCounted
       DEF Next, TrackThread, LoopStep, FormatStep, WriterStep, Failure

LEMMA FinishStep ==
  ASSUME ThreadInv, StopInv, DataInv, CountInv, ~cancelled, ~cancelled', FinishInv, [Next]_vars
  PROVE  FinishInv'
  <1> USE DEF FormatSteps, Working
  <1>0. ~failed /\ ~stopped /\ ~Failing /\ \A t \in Tracks : stopRequest[t] = "NONE"
    BY DEF StopInv
  <1>1. ASSUME NEW t \in Tracks, StopsNow(t) PROVE FALSE
    BY <1>0, <1>1 DEF StopsNow
  <1>2. ASSUME NEW t \in Tracks, NEW sync, GoesOn(t, sync)
        PROVE  UNCHANGED <<thread, result, eosOut>>
    BY <1>0, <1>2 DEF GoesOn
  <1>3. ASSUME NEW t \in Tracks, EncodesEnd(t) \/ TrackFails(t) PROVE FinishInv'
    BY <1>3 DEF EncodesEnd, TrackFails, Leaves, FinishInv, ThreadInv, sourceVars, writerVars,
       stateVars
  <1>4. ASSUME NEW t \in Tracks, WaitsOrAsks(t) PROVE FinishInv'
    <2>1. /\ thread[t] = "loop" /\ UNCHANGED <<trackVars, writerVars, tracksAdded, stateVars, client>>
          /\ \A u \in Tracks : u # t => call'[u] = call[u]
      BY <1>4 DEF WaitsOrAsks, WantsSample, Wait, GetInfo, DataInv, SourceTypeOK
    <2> QED
      BY <2>1 DEF FinishInv, trackVars, writerVars, stateVars
  <1>5. ASSUME NEW t \in Tracks, NEW sync \in BOOLEAN, CopiesSample(t, sync) PROVE FinishInv'
    <2>1. /\ thread[t] = "loop" /\ out' = [out EXCEPT ![t] = @ + 1]
          /\ UNCHANGED <<thread, result, eosOut, coding, formatted, writerVars, tracksAdded,
                         stateVars, client>>
          /\ call' = [call EXCEPT ![t] = "info"]
      BY <1>2, <1>5 DEF CopiesSample, WantsSample, Read
    <2> QED
      BY <2>1 DEF FinishInv, DataInv, SourceTypeOK, writerVars, stateVars
  <1>6. ASSUME NEW t \in Tracks, FeedsCodec(t) PROVE FinishInv'
    <2>1. /\ thread[t] = "loop" /\ coding' = [coding EXCEPT ![t] = @ + 1]
          /\ UNCHANGED <<thread, result, eosOut, out, formatted, writerVars, tracksAdded,
                         stateVars, client>>
          /\ call' = [call EXCEPT ![t] = "info"]
      BY <1>2, <1>6 DEF FeedsCodec, WantsSample, Read
    <2> QED
      BY <2>1 DEF FinishInv, DataInv, SourceTypeOK, writerVars, stateVars
  <1>7. ASSUME NEW t \in Tracks, MeetsEnd(t) PROVE FinishInv'
    <2>1. /\ thread[t] = "loop"
          /\ UNCHANGED <<coding, out, formatted, writerVars, tracksAdded, stateVars, client>>
          /\ call' = [call EXCEPT ![t] = IF InInfo(t) THEN "end" ELSE "failed"]
      BY <1>7 DEF MeetsEnd, WantsSample, End
    <2>2. \/ UNCHANGED <<thread, result, eosOut>>
          \/ Leaves(t, "error") /\ UNCHANGED eosOut
          \/ /\ t \in Passthrough /\ InInfo(t)
             /\ Leaves(t, "finished") /\ eosOut' = eosOut \cup {t}
      BY <1>2, <1>7 DEF MeetsEnd
    <2>3. t \in Passthrough => coding[t] = 0
      BY DEF CountInv
    <2> QED
      BY <2>1, <2>2, <2>3 DEF FinishInv, ThreadInv, DataInv, SourceTypeOK, Leaves, writerVars,
         stateVars
  <1>8. ASSUME NEW t \in Tracks, FormatKnown(t) PROVE FinishInv'
    BY <1>8 DEF FormatKnown, AtLoopHead, FinishInv, ThreadInv, sourceVars, writerVars, stateVars
  <1>9. ASSUME NEW t \in Tracks, NEW sync \in BOOLEAN, Encodes(t, sync) PROVE FinishInv'
    <2>1. /\ thread[t] = "loop" /\ coding' = [coding EXCEPT ![t] = @ - 1]
          /\ out' = [out EXCEPT ![t] = @ + 1]
          /\ UNCHANGED <<thread, result, eosOut, call, formatted, writerVars, tracksAdded,
                         stateVars, client>>
      BY <1>2, <1>9 DEF Encodes, AtLoopHead, sourceVars
    <2> QED
      BY <2>1 DEF FinishInv, DataInv, SourceTypeOK, writerVars, stateVars
  <1>10. ASSUME NEW t \in Tracks, AddTrack(t) PROVE FinishInv'
    <2>1. call' = call
      BY <1>10 DEF AddTrack, Enforce, sourceVars
    <2> QED
      BY <1>10, <2>1 DEF AddTrack, FinishInv, ThreadInv
  <1>11. ASSUME NEW t \in Tracks, AddTrackFails(t) PROVE FinishInv'
    BY <1>11 DEF AddTrackFails, FinishInv, ThreadInv, sourceVars, writerVars, stateVars
  <1>12. ASSUME RequestStop(FALSE) \/ RequestStop(TRUE) PROVE FALSE
    BY <1>12 DEF RequestStop
  <1>13. ASSUME NEW t \in Tracks, AddTrackStops(t) \/ AddTrackRecords(t) \/ TrackStopsAll(t)
         PROVE  FALSE
    BY <1>0, <1>12, <1>13 DEF AddTrackStops, AddTrackRecords, TrackStopsAll, Failing
  <1>14. ASSUME NEW t \in Tracks, TrackRecords(t) PROVE FinishInv'
    <2>1. thread[t] = "report" /\ result[t] \in {"none", "finished"}
      BY <1>0, <1>14 DEF TrackRecords, Failing, StopInv, ThreadInv, Results
    <2>2. result[t] = "finished"
      BY <2>1 DEF FinishInv
    <2> QED
      BY <1>14, <2>1, <2>2 DEF TrackRecords, Conclude, FinishInv, ThreadInv, sourceVars, writerVars
  <1>15. ASSUME NEW t \in Tracks, WritesSample(t) PROVE FinishInv'
    BY <1>15 DEF WritesSample, FinishInv, DataInv, sourceVars, stateVars
  <1>16. ASSUME NEW t \in Tracks, WritesEnd(t) PROVE FinishInv'
    BY <1>16 DEF WritesEnd, WriterLeaves, FinishInv, DataInv, sourceVars, trackVars, stateVars
  <1>17. CASE WriterStops \/ MuxerFails
    BY <1>17 DEF WriterStops, MuxerFails, WriterLeaves, FinishInv, DataInv, sourceVars, trackVars,
       stateVars
  <1>18. CASE WriterStopsAll \/ Pause \/ Cancel
    BY <1>12, <1>18 DEF WriterStopsAll, Pause, Cancel, Stop
  <1>19. CASE WriterRecords
    <2>1. writerThread = "report" /\ writerResult = "finished"
      BY <1>0, <1>19 DEF WriterRecords, Failing, FinishInv, StopInv, DataInv, Results
    <2> QED
      BY <1>19, <2>1 DEF WriterRecords, Conclude, FinishInv, ThreadInv, sourceVars, trackVars
  <1>20. CASE Start
    BY <1>20 DEF Start, FinishInv, ThreadInv, sourceVars, writerVars, stateVars
  <1>21. CASE WaitForThreads \/ Notify \/ UNCHANGED vars
    BY <1>21 DEF WaitForThreads, Notify, vars, FinishInv, sourceVars, trackVars, writerVars,
       stateVars
  <1> QED
    BY <1>1, <1>3, <1>4, <1>5, <1>6, <1>7, <1>8, <1>9, <1>10, <1>11, <1>13, <1>14, <1>15,
       <1>16, <1>17, <1>18, <1>19, <1>20, <1>21
       DEF Next, TrackThread, LoopStep, FormatStep, WriterStep, Failure

LEMMA UnstoppedStep ==
  ASSUME ThreadInv, StopInv, StopInv', DataInv, CountInv, UnstoppedInv, [Next]_vars
  PROVE  UnstoppedInv'
  <1> SUFFICES ASSUME ~cancelled' PROVE EndInv' /\ FinishInv'
    BY DEF UnstoppedInv
  <1>1. /\ ~cancelled
        /\ UNCHANGED sourceVars \/ Enforce \/ \E t \in Tracks : TrackStep(t)
    BY SourceMoves
  <1>2. EndInv /\ FinishInv
    BY <1>1 DEF UnstoppedInv
  <1>3. EndInv'
    BY <1>1, <1>2, EndOfStreamStep DEF DataInv
  <1>4. FinishInv'
    BY <1>1, <1>2, FinishStep
  <1> QED
    BY <1>3, <1>4

LEMMA InitiallyNothing ==
  ASSUME Init
  PROVE  CountInv /\ UnstoppedInv
  <1>1. SourceTypeOK
    BY DEF Init, SourceInit, SourceTypeOK, Calls
  <1>2. ASSUME NEW t \in Tracks PROVE SamplesRead(t) = {}
    BY <1>1, SampleNumbers DEF SamplesRead, Init, SourceInit
  <1>3. CountInv
    <2> SUFFICES ASSUME NEW t \in Tracks
                 PROVE  /\ Cardinality(SamplesRead(t)) = written[t] + out[t] + coding[t]
                        /\ coding[t] = 0
      BY DEF CountInv
    <2>1. written[t] = 0 /\ out[t] = 0 /\ coding[t] = 0
      BY DEF Init
    <2>2. Cardinality(SamplesRead(t)) = 0
      BY <1>2, FS_EmptySet
    <2> QED
      BY <2>1, <2>2
  <1>4. EndInv
    BY DEF EndInv, Init, SourceInit
  <1>5. FinishInv
    BY DEF FinishInv, Init, SourceInit, FormatSteps
  <1> QED
    BY <1>3, <1>4, <1>5 DEF UnstoppedInv

\* What is reported as finished is complete: every track saw the true end of
\* its samples, the codecs are empty, and the writer has written every buffer
\* before it took the last END_OF_STREAM.
THEOREM FinishedRunsAreComplete == Spec => []FinishedIsComplete
  <1>1. Init => CountInv /\ UnstoppedInv
    BY InitiallyNothing
  <1>2. DataInv /\ CountInv /\ [Next]_vars => CountInv'
    BY CountStep
  <1>3. /\ ThreadInv /\ StopInv /\ StopInv' /\ DataInv /\ CountInv /\ UnstoppedInv
        /\ [Next]_vars
        => UnstoppedInv'
    BY UnstoppedStep
  <1>4. ASSUME ThreadInv, DataInv, CountInv, UnstoppedInv PROVE FinishedIsComplete
    <2> SUFFICES ASSUME notifier = "finish", ~cancelled, NEW t \in Tracks
                 PROVE  written[t] = Cardinality({i \in Samples : file[i] = t})
      BY DEF FinishedIsComplete
    <2>1. EndInv /\ FinishInv
      BY <1>4 DEF UnstoppedInv
    <2>2. \A u \in Tracks : thread[u] = "gone" /\ result[u] = "finished"
      BY <1>4, <2>1 DEF FinishInv, ThreadInv
    <2>3. tracksAdded = Tracks
      BY <1>4, <2>1, <2>2 DEF FinishInv, ThreadInv, FormatSteps
    <2>4. writerThread = "gone"
      BY <1>4, <2>1, <2>3 DEF FinishInv, ThreadInv
    <2>5. out[t] = 0 /\ coding[t] = 0 /\ call[t] = "end"
      BY <2>1, <2>2, <2>4 DEF FinishInv
    <2>6. SamplesRead(t) = {i \in Samples : file[i] = t}
      <3>1. SamplesLeft(t) = {}
        BY <2>1, <2>5 DEF EndInv
      <3>2. got[t] \in Nat /\ Samples \subseteq Nat
        BY <1>4, SampleNumbers DEF DataInv, SourceTypeOK
      <3>3. ASSUME NEW i \in Samples, file[i] = t PROVE i <= got[t]
        BY <3>1, <3>2, <3>3 DEF SamplesLeft
      <3> QED
        BY <3>3 DEF SamplesRead
    <2>7. Cardinality(SamplesRead(t)) = written[t] /\ written[t] \in Nat
      BY <1>4, <2>5 DEF CountInv, DataInv
    <2> QED
      BY <2>6, <2>7
  <1> QED
    BY <1>1, <1>2, <1>3, <1>4, DataInvHolds, PTL DEF Spec
=============================================================================
