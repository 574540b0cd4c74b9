---------------------------- MODULE SampleReader ----------------------------
(***************************************************************************)
(* MediaSampleReaderNDK: one extractor shared by the threads of all tracks.*)
(* It stands on one sample of the file; the cursor of a track remembers    *)
(* where the samples before, at and after its own position are, so that    *)
(* the extractor can be moved back for it.                                 *)
(*                                                                         *)
(* mExtractorMutex is held over loops that advance the extractor; each     *)
(* turn of such a loop is a step of the thread that holds it.  Waiting on  *)
(* mTrackSignals[t] is blocked[t]: a notification ends it, and the thread  *)
(* tests its condition again.  Positions count from 1, and 0 is a position *)
(* that is not set.                                                        *)
(***************************************************************************)
EXTENDS Naturals, Sequences, FiniteSets

CONSTANTS Tracks, Files,
          NoTrack,      \* mExtractorTrackIndex before the first call
          MaxSwitches   \* calls of setEnforceSequentialAccess

ASSUME ReaderAssumption ==
  /\ Files \subseteq Seq(Tracks)
  /\ NoTrack \notin Tracks
  /\ MaxSwitches \in Nat

VARIABLES file,
          extractorTrack,   \* mExtractorTrackIndex
          extractorSample,  \* mExtractorSampleIndex
          cursors,          \* mTrackCursors
          eosReached,       \* mEosReached
          enforceSequential,\* mEnforceSequentialAccess
          call,             \* the call that the thread of each track makes
          holder,           \* the track in a loop that holds mExtractorMutex
          blocked,          \* the tracks that wait for their signal
          got,              \* the last sample returned to each track
          reading,          \* the sample that is being returned, 0 if none
          switcher,         \* the thread that switches the access mode
          eosBefore,        \* mEosReached when switcher took the mutex
          switches

extractorVars == <<extractorTrack, extractorSample, cursors, eosReached>>
switchVars == <<switcher, eosBefore, switches>>
vars == <<file, extractorTrack, extractorSample, cursors, eosReached,
          enforceSequential, call, holder, blocked, got, reading,
          switcher, eosBefore, switches>>

SampleCursor == [previous : Nat, current : Nat, next : Nat]

Calls == {"info", "infoWait", "read", "readWait", "end", "failed"}

ReaderTypeOK ==
  /\ file \in Files
  /\ extractorTrack \in Tracks \cup {NoTrack}
  /\ extractorSample \in Nat \ {0}
  /\ cursors \in [Tracks -> SampleCursor]
  /\ eosReached \in BOOLEAN
  /\ enforceSequential \in BOOLEAN
  /\ call \in [Tracks -> Calls]
  /\ holder \in Tracks \cup {NoTrack}
  /\ blocked \in SUBSET Tracks
  /\ got \in [Tracks -> Nat]
  /\ reading \in Nat
  /\ switcher \in {"idle", "moving", "seeking"}
  /\ eosBefore \in BOOLEAN
  /\ switches \in 0..MaxSwitches

Init ==
  /\ file \in Files
  /\ extractorTrack = NoTrack
  /\ extractorSample = 1
  /\ cursors = [t \in Tracks |-> [previous |-> 0, current |-> 0, next |-> 0]]
  /\ eosReached = FALSE
  /\ enforceSequential = FALSE
  /\ call = [t \in Tracks |-> "info"]
  /\ holder = NoTrack
  /\ blocked = {}
  /\ got = [t \in Tracks |-> 0]
  /\ reading = 0
  /\ switcher = "idle"
  /\ eosBefore = FALSE
  /\ switches = 0

MutexFree == switcher = "idle" /\ holder = NoTrack

----------------------------------------------------------------------------
(* The extractor *)

AtCurrent(t) == cursors[t].current # 0 /\ cursors[t].current = extractorSample

\* The cursor of a track when the extractor comes to its sample i.
Passed(c, i) ==
  IF i <= c.previous THEN c
  ELSE IF c.current = 0 THEN [c EXCEPT !.current = i]
  ELSE IF c.next = 0 /\ i > c.current THEN [c EXCEPT !.next = i]
  ELSE c

\* "next" is found anew whenever the extractor leaves the current sample.
LeaveSample ==
  IF AtCurrent(extractorTrack)
    THEN [cursors EXCEPT ![extractorTrack].next = 0]
    ELSE cursors

HasNext == extractorSample < Len(file)

\* advanceExtractor_l that returns true.
AdvanceExtractor ==
  LET i == extractorSample + 1
  IN /\ HasNext
     /\ extractorSample' = i
     /\ extractorTrack' = file[i]
     /\ cursors' = [LeaveSample EXCEPT ![file[i]] = Passed(@, i)]
     /\ UNCHANGED eosReached

\* advanceExtractor_l that returns false: every waiting thread is notified.
ReachEos ==
  /\ ~HasNext
  /\ extractorSample' = extractorSample + 1
  /\ cursors' = LeaveSample
  /\ eosReached' = TRUE
  /\ UNCHANGED extractorTrack

\* Mutant: the loop of advances stops one sample early.
SeekBackShort(i, t) ==
  /\ extractorSample' = i - 1
  /\ extractorTrack' = t
  /\ eosReached' = FALSE

\* seekExtractorBackwards_l; the seek to the sync sample before the target and
\* the advances from there touch no cursor.
SeekBack(i, t) ==
  /\ extractorSample' = i
  /\ extractorTrack' = t
  /\ eosReached' = FALSE

\* The first call finds the extractor on the first sample.
PrimedCursors ==
  IF extractorTrack = NoTrack /\ file # <<>>
    THEN [cursors EXCEPT ![file[1]].current = 1]
    ELSE cursors

----------------------------------------------------------------------------
(* getSampleInfoForTrack and readSampleDataForTrack *)

\* The thread gets the mutex on its way into a call, or on waking up in one.
InCall(t) ==
  /\ MutexFree
  /\ call[t] \in {"info", "infoWait", "read", "readWait"}
  /\ t \notin blocked

Entering(t) == call[t] \in {"info", "read"}
Asking(t) == call[t] \in {"info", "infoWait"}

\* The track index of the extractor once primeExtractorForTrack_l has run.
PrimedTrack == IF extractorTrack = NoTrack /\ file # <<>> THEN file[1] ELSE extractorTrack

\* The condition of the loop of waitForTrack_l.
NotMyTurn(t) == t # PrimedTrack /\ ~eosReached /\ enforceSequential

\* The call gives up the mutex until the track is signalled.
WaitForTrack(t) ==
  /\ InCall(t)
  /\ file # <<>>
  /\ NotMyTurn(t)
  /\ extractorTrack' = PrimedTrack
  /\ cursors' = PrimedCursors
  /\ blocked' = blocked \cup {t}
  /\ call' = [call EXCEPT ![t] = IF Asking(t) THEN "infoWait" ELSE "readWait"]
  /\ UNCHANGED <<file, extractorSample, eosReached, enforceSequential, holder,
                 got, reading, switchVars>>

\* A call that fails: END_OF_STREAM from info ends the track, from read it is
\* an error of its thread.
Fail(t) == call' = [call EXCEPT ![t] = IF Asking(t) THEN "end" ELSE "failed"]

EndOfStream(t) ==
  /\ InCall(t)
  /\ \/ file = <<>>
     \/ eosReached /\ (enforceSequential \/ ~Entering(t))
  /\ Fail(t)
  /\ UNCHANGED <<file, extractorVars, enforceSequential, holder, blocked, got,
                 reading, switchVars>>

\* Sequential access is enforced and it is the turn of the track.
Served(t) ==
  /\ InCall(t)
  /\ file # <<>>
  /\ enforceSequential
  /\ ~eosReached
  /\ t = PrimedTrack

\* Any track is served: moveToTrack_l comes first.
ServedFreely(t) ==
  /\ InCall(t)
  /\ file # <<>>
  /\ ~enforceSequential
  /\ Entering(t) \/ ~eosReached

\* Mutant: "next" is not forgotten when it becomes the current sample.
ShiftedCursorAhead(c) == [previous |-> c.current, current |-> c.next, next |-> c.next]

\* advanceTrack_l, up to its loop.
ShiftedCursor(c) == [previous |-> c.current, current |-> c.next, next |-> 0]

\* getSampleInfoForTrack returns what the extractor stands on.
InfoInTurn(t) ==
  /\ Asking(t)
  /\ Served(t)
  /\ extractorTrack' = PrimedTrack
  /\ cursors' = PrimedCursors
  /\ call' = [call EXCEPT ![t] = "read"]
  /\ UNCHANGED <<file, extractorSample, eosReached, enforceSequential, holder,
                 blocked, got, reading, switchVars>>

\* readSampleDataForTrack takes what the extractor stands on.
ReadInTurn(t) ==
  /\ ~Asking(t)
  /\ Served(t)
  /\ reading' = extractorSample
  /\ cursors' = [cursors EXCEPT ![t] = ShiftedCursor(@)]
  /\ holder' = t
  /\ UNCHANGED <<file, extractorTrack, extractorSample, eosReached,
                 enforceSequential, call, blocked, got, switchVars>>

\* The sample is handed over and the mutex is released.
Return(t) ==
  /\ call' = [call EXCEPT ![t] = "info"]
  /\ got' = [got EXCEPT ![t] = reading]
  /\ reading' = 0
  /\ holder' = NoTrack

\* A turn of the loop of advanceTrack_l: on to a sample that is current for its
\* track, which is notified.
AdvanceTrack(t) ==
  /\ holder = t
  /\ reading # 0
  /\ \/ /\ AdvanceExtractor
        /\ LET u == extractorTrack'
           IN IF cursors'[u].current = extractorSample'
                THEN /\ blocked' = IF u = t THEN blocked ELSE blocked \ {u}
                     /\ Return(t)
                ELSE UNCHANGED <<call, holder, blocked, got, reading>>
     \/ ReachEos /\ blocked' = {} /\ Return(t)
  /\ UNCHANGED <<file, enforceSequential, switchVars>>

\* The extractor stands on the current sample of t, so the call returns.
Deliver(t, i) ==
  IF Asking(t)
    THEN /\ call' = [call EXCEPT ![t] = "read"]
         /\ cursors' = PrimedCursors
         /\ UNCHANGED got
    ELSE /\ call' = [call EXCEPT ![t] = "info"]
         /\ cursors' = [PrimedCursors EXCEPT ![t] = ShiftedCursor(@)]
         /\ got' = [got EXCEPT ![t] = i]

\* moveToSample_l finds the extractor on the sample, or past it.
MoveAtOnce(t) ==
  LET current == PrimedCursors[t].current
  IN /\ ServedFreely(t)
     /\ current # 0
     /\ \/ /\ extractorSample = current
           /\ extractorTrack' = PrimedTrack
           /\ UNCHANGED <<extractorSample, eosReached>>
        \/ extractorSample > current /\ SeekBack(current, t)
     /\ Deliver(t, current)
     /\ UNCHANGED <<file, enforceSequential, holder, blocked, reading, switchVars>>

\* The sample is ahead: the loop of moveToSample_l begins.
MoveAhead(t) ==
  LET current == PrimedCursors[t].current
  IN /\ ServedFreely(t)
     /\ current = 0 \/ extractorSample < current
     /\ extractorTrack' = PrimedTrack
     /\ cursors' = PrimedCursors
     /\ holder' = t
     /\ UNCHANGED <<file, extractorSample, eosReached, enforceSequential, call,
                    blocked, got, reading, switchVars>>

\* A turn of the loop of moveToSample_l, or its end.
MoveToSample(t) ==
  /\ holder = t
  /\ reading = 0
  /\ \/ /\ AtCurrent(t)
        /\ Deliver(t, extractorSample)
        /\ holder' = NoTrack
        /\ UNCHANGED <<extractorTrack, extractorSample, eosReached, blocked>>
     \/ /\ ~AtCurrent(t)
        /\ AdvanceExtractor
        /\ UNCHANGED <<call, holder, blocked, got>>
     \/ /\ ~AtCurrent(t)
        /\ ReachEos
        /\ Fail(t)
        /\ blocked' = {}
        /\ holder' = NoTrack
        /\ UNCHANGED got
  /\ UNCHANGED <<file, enforceSequential, reading, switchVars>>

----------------------------------------------------------------------------
(* setEnforceSequentialAccess *)

\* The last known position of a track.
LastKnown(t) == IF cursors[t].current # 0 THEN cursors[t].current ELSE cursors[t].previous

IsEarliest(t) ==
  /\ LastKnown(t) # 0
  /\ \A u \in Tracks : LastKnown(u) # 0 => LastKnown(t) <= LastKnown(u)

\* Mutant: nobody is woken.
SetFreeSilently ==
  /\ MutexFree
  /\ switches < MaxSwitches
  /\ switches' = switches + 1
  /\ enforceSequential' = FALSE
  /\ UNCHANGED <<file, extractorVars, call, holder, blocked, got, reading, switcher, eosBefore>>

\* Threads that wait for their turn are woken.
SetFree ==
  /\ MutexFree
  /\ switches < MaxSwitches
  /\ switches' = switches + 1
  /\ enforceSequential' = FALSE
  /\ blocked' = IF enforceSequential THEN {} ELSE blocked
  /\ UNCHANGED <<file, extractorVars, call, holder, got, reading, switcher, eosBefore>>

\* The extractor has nowhere to go.
SetSequential ==
  /\ MutexFree
  /\ switches < MaxSwitches
  /\ enforceSequential \/ extractorTrack = NoTrack
  /\ switches' = switches + 1
  /\ enforceSequential' = TRUE
  /\ UNCHANGED <<file, extractorVars, call, holder, blocked, got, reading,
                 switcher, eosBefore>>

\* The extractor has to go to the track farthest behind.
BeginSequential ==
  /\ MutexFree
  /\ switches < MaxSwitches
  /\ ~enforceSequential
  /\ extractorTrack # NoTrack
  /\ \E t \in Tracks :
       /\ IsEarliest(t)
       /\ IF extractorSample > LastKnown(t)
            THEN SeekBack(LastKnown(t), t) /\ switcher' = "seeking"
            ELSE UNCHANGED <<extractorTrack, extractorSample, eosReached>>
                 /\ switcher' = "moving"
  /\ switches' = switches + 1
  /\ eosBefore' = eosReached
  /\ UNCHANGED <<file, cursors, enforceSequential, call, holder, blocked, got,
                 reading>>

\* A turn of the two loops: to the earliest position, then to a sample that is
\* current for its track.
PlaceExtractor ==
  /\ switcher # "idle"
  /\ \/ /\ switcher = "moving"
        /\ \E t \in Tracks :
             /\ IsEarliest(t)
             /\ \/ /\ extractorSample = LastKnown(t)
                   /\ switcher' = "seeking"
                   /\ UNCHANGED extractorVars
                \/ /\ extractorSample # LastKnown(t)
                   /\ AdvanceExtractor
                   /\ UNCHANGED switcher
        /\ UNCHANGED <<enforceSequential, blocked>>
     \/ /\ switcher = "seeking"
        /\ \/ /\ AtCurrent(extractorTrack)
              /\ enforceSequential' = TRUE
              /\ switcher' = "idle"
              /\ UNCHANGED <<extractorVars, blocked>>
           \/ /\ ~AtCurrent(extractorTrack)
              /\ AdvanceExtractor
              /\ UNCHANGED <<switcher, enforceSequential, blocked>>
           \/ /\ ~AtCurrent(extractorTrack)
              /\ ReachEos
              /\ switcher' = "idle"
              /\ blocked' = {}
              /\ UNCHANGED enforceSequential
  /\ UNCHANGED <<file, call, holder, got, reading, eosBefore, switches>>

----------------------------------------------------------------------------

TrackStep(t) ==
  \/ WaitForTrack(t)
  \/ EndOfStream(t)
  \/ InfoInTurn(t)
  \/ ReadInTurn(t)
  \/ AdvanceTrack(t)
  \/ MoveAtOnce(t)
  \/ MoveAhead(t)
  \/ MoveToSample(t)

Switch == SetFree \/ SetSequential \/ BeginSequential \/ PlaceExtractor

Next == (\E t \in Tracks : TrackStep(t)) \/ Switch

Spec == Init /\ [][Next]_vars

\* A thread that can run does so; a loop under the mutex goes on.
Fairness == (\A t \in Tracks : WF_vars(TrackStep(t))) /\ WF_vars(PlaceExtractor)

FairSpec == Spec /\ Fairness

----------------------------------------------------------------------------
(* Properties *)

Source == INSTANCE SampleSource
            WITH enforce <- enforceSequential,
                 eos <- IF switcher = "idle" THEN eosReached ELSE eosBefore

\* However the threads and the switches of the access mode interleave, each
\* track is given its own samples in file order, each once, and END_OF_STREAM
\* only as the source promises: the reader, with its cursors and seeks, is a
\* sample source.
SourceImplemented == Source!SourceSpec

\* A thread whose turn has come, or that waits for nothing any more, is not left
\* waiting: no signal is missing, and no loop under the mutex goes on for ever.
CallsReturn == Source!SourceFairness

\* "AMEDIA_ERROR_END_OF_STREAM if there are no more samples to read from the
\* track": what getSampleInfoForTrack and readSampleDataForTrack return.
EndOnlyAtEnd ==
  \A t \in Tracks :
    call[t] \in {"end", "failed"} => \A i \in DOMAIN file : file[i] = t => i <= got[t]
=============================================================================
