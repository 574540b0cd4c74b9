------------------------- MODULE SampleReaderProofs -------------------------
(***************************************************************************)
(* MediaSampleReaderNDK is a sample source, for any file, any tracks and   *)
(* any interleaving of their threads with switches of the access mode.     *)
(***************************************************************************)
EXTENDS SampleReader, TLAPS

----------------------------------------------------------------------------
(* The cursors *)

\* The samples of track t behind position p.
After(t, p) == {i \in DOMAIN file : file[i] = t /\ i > p}

First(i, S) == i \in S /\ \A j \in S : i <= j

\* A cursor of track t that knows what lies up to position seen: previous is a
\* sample of the track, current and next are the first two behind it, or were
\* not come across yet.
CursorOK(c, t, seen) ==
  /\ c \in SampleCursor
  /\ c.previous # 0 => c.previous \in DOMAIN file /\ file[c.previous] = t
  /\ c.current # 0 => First(c.current, After(t, c.previous))
  /\ c.current = 0 => c.next = 0 /\ \A i \in After(t, c.previous) : i > seen
  /\ c.next # 0 => First(c.next, After(t, c.current))
  /\ c.current # 0 /\ c.next = 0 => \A i \in After(t, c.current) : i > seen

\* How far the extractor has come: nowhere before the first call.
Seen == IF extractorTrack = NoTrack THEN 0 ELSE extractorSample

\* The last sample of a track that was read, the one under way included.
Position(t) == IF holder = t /\ reading # 0 THEN reading ELSE got[t]

CursorInv ==
  \A t \in Tracks : CursorOK(cursors[t], t, Seen) /\ cursors[t].previous = Position(t)

----------------------------------------------------------------------------
(* The extractor *)

\* The extractor knows the track of the sample it stands on; it was not touched
\* before the first call.
ExtractorInv ==
  /\ extractorTrack # NoTrack => /\ file # <<>>
                                 /\ extractorSample \in DOMAIN file =>
                                      file[extractorSample] = extractorTrack
  /\ extractorTrack = NoTrack =>
       /\ extractorSample = 1 /\ ~eosReached /\ MutexFree
       /\ \A t \in Tracks : /\ cursors[t].current = 0 /\ got[t] = 0
                            /\ file # <<>> => call[t] = "info"
  /\ extractorTrack # NoTrack /\ holder = NoTrack =>
       \E t \in Tracks : call[t] # "info" \/ got[t] # 0
  /\ eosReached => extractorSample > Len(file)

\* What the thread that holds mExtractorMutex relies on.
HolderInv ==
  /\ holder # NoTrack \/ reading = 0
  /\ holder # NoTrack =>
       /\ switcher = "idle"
       /\ call[holder] \in {"info", "infoWait", "read", "readWait"}
  \* moveToSample_l has not passed the sample
  /\ holder # NoTrack /\ reading = 0 =>
       /\ ~enforceSequential
       /\ cursors[holder].current = 0 \/ extractorSample <= cursors[holder].current
  \* advanceTrack_l has passed no sample that is not read
  /\ reading # 0 =>
       /\ enforceSequential /\ ~eosReached /\ call[holder] \in {"read", "readWait"}
       /\ First(reading, Source!Unread) /\ file[reading] = holder
       /\ reading <= extractorSample
       /\ \A i \in Source!Unread : i = reading \/ i > extractorSample
  \* setEnforceSequentialAccess has passed none either
  /\ switcher # "idle" => ~enforceSequential
  /\ switcher = "seeking" =>
       extractorSample \in DOMAIN file /\ \A i \in Source!Unread : i >= extractorSample

\* While access is sequential the extractor stands on the next sample.
TurnInv ==
  enforceSequential /\ ~eosReached /\ MutexFree /\ file # <<>> =>
    First(extractorSample, Source!Unread)

ReaderInv == ReaderTypeOK /\ CursorInv /\ ExtractorInv /\ HolderInv /\ TurnInv

----------------------------------------------------------------------------
(* What the steps of the extractor do to the cursors *)

LEMMA FileLemma ==
  ASSUME ReaderTypeOK
  PROVE  /\ file \in Seq(Tracks) /\ Len(file) \in Nat /\ DOMAIN file = 1..Len(file)
         /\ \A i \in DOMAIN file : file[i] \in Tracks
         /\ file = <<>> <=> Len(file) = 0
  <1>1. file \in Seq(Tracks)
    BY ReaderAssumption DEF ReaderTypeOK
  <1> QED
    BY <1>1

LEMMA AfterLemma ==
  ASSUME ReaderTypeOK, NEW t, NEW q, NEW i \in After(t, q)
  PROVE  i \in Nat \ {0} /\ i \in DOMAIN file /\ i <= Len(file) /\ file[i] = t /\ i > q
  BY FileLemma DEF After

\* A cursor knows as much of any position before.
LEMMA CursorBack ==
  ASSUME ReaderTypeOK, NEW c, NEW t, NEW seen \in Nat, CursorOK(c, t, seen),
         NEW e \in Nat, e <= seen
  PROVE  CursorOK(c, t, e)
  <1>1. ASSUME NEW q, NEW i \in After(t, q), i > seen PROVE i > e
    BY <1>1, AfterLemma
  <1> QED
    BY <1>1 DEF CursorOK

\* The extractor comes to a sample of another track, or to none.
LEMMA CursorElsewhere ==
  ASSUME ReaderTypeOK, NEW c, NEW t, NEW e \in Nat, CursorOK(c, t, e),
         e + 1 \in DOMAIN file => file[e + 1] # t
  PROVE  CursorOK(c, t, e + 1)
  <1>1. ASSUME NEW q, NEW i \in After(t, q), i > e PROVE i > e + 1
    BY <1>1, AfterLemma
  <1> QED
    BY <1>1 DEF CursorOK

\* The extractor comes to a sample of the track.
LEMMA CursorPassed ==
  ASSUME ReaderTypeOK, NEW c, NEW t, NEW e \in Nat, CursorOK(c, t, e),
         e + 1 \in DOMAIN file, file[e + 1] = t
  PROVE  /\ CursorOK(Passed(c, e + 1), t, e + 1)
         /\ Passed(c, e + 1).previous = c.previous
         /\ c.current # 0 => Passed(c, e + 1).current = c.current
         /\ c.current = 0 => Passed(c, e + 1).current \in {0, e + 1}
         /\ c.current = 0 /\ e + 1 > c.previous => Passed(c, e + 1).current = e + 1
  <1>0. c \in SampleCursor /\ c.previous \in Nat /\ c.current \in Nat /\ c.next \in Nat
    BY DEF CursorOK, SampleCursor
  <1>1. ASSUME NEW q \in Nat, \A i \in After(t, q) : i > e, e + 1 > q
        PROVE  First(e + 1, After(t, q))
    <2>1. e + 1 \in After(t, q)
      BY <1>1 DEF After
    <2>2. ASSUME NEW i \in After(t, q) PROVE e + 1 <= i
      BY <1>1, <2>2, AfterLemma
    <2> QED
      BY <2>1, <2>2 DEF First
  <1>2. ASSUME NEW i \in After(t, e + 1) PROVE i > e + 1
    BY <1>2, AfterLemma
  <1>3. CASE e + 1 <= c.previous
    <2>1. ASSUME NEW q \in Nat, c.previous <= q, NEW i \in After(t, q) PROVE i > e + 1
      BY <1>0, <1>3, <2>1, AfterLemma
    <2>2. c.current # 0 => c.previous <= c.current
      BY <1>0, AfterLemma DEF CursorOK, First
    <2>3. Passed(c, e + 1) = c
      BY <1>3 DEF Passed
    <2> QED
      BY <1>0, <1>3, <2>1, <2>2, <2>3 DEF CursorOK
  <1>4. CASE e + 1 > c.previous /\ c.current = 0
    <2>1. Passed(c, e + 1) = [c EXCEPT !.current = e + 1]
      BY <1>0, <1>4 DEF Passed
    <2>2. /\ Passed(c, e + 1) \in SampleCursor
          /\ Passed(c, e + 1).previous = c.previous
          /\ Passed(c, e + 1).current = e + 1
          /\ Passed(c, e + 1).next = 0
      BY <1>0, <1>4, <2>1 DEF SampleCursor, CursorOK
    <2>3. First(e + 1, After(t, c.previous))
      BY <1>0, <1>1, <1>4 DEF CursorOK
    <2> QED
      BY <1>2, <1>4, <2>2, <2>3 DEF CursorOK
  <1>5. CASE e + 1 > c.previous /\ c.current # 0 /\ c.next = 0 /\ e + 1 > c.current
    <2>1. Passed(c, e + 1) = [c EXCEPT !.next = e + 1]
      BY <1>0, <1>5 DEF Passed
    <2>2. /\ Passed(c, e + 1) \in SampleCursor
          /\ Passed(c, e + 1).previous = c.previous
          /\ Passed(c, e + 1).current = c.current
          /\ Passed(c, e + 1).next = e + 1
      BY <1>0, <1>5, <2>1 DEF SampleCursor
    <2>3. First(e + 1, After(t, c.current))
      BY <1>0, <1>1, <1>5 DEF CursorOK
    <2> QED
      BY <1>5, <2>2, <2>3 DEF CursorOK
  <1>6. CASE e + 1 > c.previous /\ c.current # 0 /\ ~(c.next = 0 /\ e + 1 > c.current)
    <2>1. Passed(c, e + 1) = c
      BY <1>0, <1>6 DEF Passed
    <2>2. ASSUME c.next = 0, NEW i \in After(t, c.current) PROVE i > e + 1
      BY <1>0, <1>6, <2>2, AfterLemma
    <2> QED
      BY <1>6, <2>1, <2>2 DEF CursorOK
  <1> QED
    BY <1>0, <1>3, <1>4, <1>5, <1>6

\* The extractor leaves the current sample.
LEMMA CursorLeft ==
  ASSUME ReaderTypeOK, NEW c, NEW t, NEW e \in Nat, CursorOK(c, t, e), c.current = e, e # 0
  PROVE  CursorOK([c EXCEPT !.next = 0], t, e)
  <1>1. /\ [c EXCEPT !.next = 0] \in SampleCursor
        /\ [c EXCEPT !.next = 0].previous = c.previous
        /\ [c EXCEPT !.next = 0].current = e
        /\ [c EXCEPT !.next = 0].next = 0
    BY DEF CursorOK, SampleCursor
  <1>2. ASSUME NEW i \in After(t, e) PROVE i > e
    BY AfterLemma
  <1> QED
    BY <1>1, <1>2 DEF CursorOK

\* advanceTrack_l takes the current sample.
LEMMA CursorShifted ==
  ASSUME ReaderTypeOK, NEW c, NEW t, NEW e \in Nat, CursorOK(c, t, e), c.current = e, e # 0
  PROVE  CursorOK(ShiftedCursor(c), t, e) /\ ShiftedCursor(c).previous = e
  <1>1. /\ ShiftedCursor(c) \in SampleCursor
        /\ ShiftedCursor(c).previous = e
        /\ ShiftedCursor(c).current = c.next
        /\ ShiftedCursor(c).next = 0
    BY DEF CursorOK, SampleCursor, ShiftedCursor
  <1>2. ASSUME NEW i \in After(t, e) PROVE i > e
    BY AfterLemma
  <1>3. e \in DOMAIN file /\ file[e] = t
    BY AfterLemma DEF CursorOK, First
  <1>4. ASSUME c.next # 0, NEW i \in After(t, c.next) PROVE i > e
    <2>1. c.next > e /\ c.next \in Nat
      BY <1>4, AfterLemma DEF CursorOK, First
    <2> QED
      BY <1>4, <2>1, AfterLemma
  <1> QED
    BY <1>1, <1>2, <1>3, <1>4 DEF CursorOK

----------------------------------------------------------------------------
(* Where the extractor stands *)

LEMMA UnreadLemma ==
  ASSUME ReaderTypeOK
  PROVE  /\ \A t \in Tracks : Source!SamplesLeft(t) = After(t, got[t])
         /\ \A i : i \in Source!Unread <=> i \in DOMAIN file /\ i > got[file[i]]
         /\ \A i \in Source!Unread : /\ i \in Nat \ {0} /\ i <= Len(file) /\ file[i] \in Tracks
                                     /\ i \in After(file[i], got[file[i]])
         /\ \A t \in Tracks : After(t, got[t]) \subseteq Source!Unread
  BY FileLemma DEF Source!SamplesLeft, Source!Unread, Source!Samples, After

LEMMA Primed ==
  ASSUME ReaderInv, MutexFree, file # <<>>
  PROVE  /\ PrimedTrack \in Tracks
         /\ extractorSample \in DOMAIN file => file[extractorSample] = PrimedTrack
         /\ PrimedCursors \in [Tracks -> SampleCursor]
         /\ \A t \in Tracks : /\ CursorOK(PrimedCursors[t], t, extractorSample)
                              /\ PrimedCursors[t].previous = got[t]
  <1> USE DEF ReaderInv
  <1>0. \A t \in Tracks : Position(t) = got[t]
    BY ReaderAssumption DEF MutexFree, Position, ReaderTypeOK
  <1>1. CASE extractorTrack # NoTrack
    BY <1>0, <1>1 DEF PrimedTrack, PrimedCursors, Seen, CursorInv, ExtractorInv, ReaderTypeOK
  <1>2. CASE extractorTrack = NoTrack
    <2>1. extractorSample = 1 /\ Seen = 0 /\ \A t \in Tracks : cursors[t].current = 0 /\ got[t] = 0
      BY <1>2 DEF ExtractorInv, Seen
    <2>2. 1 \in DOMAIN file /\ file[1] \in Tracks
      BY FileLemma
    <2>3. \A t \in Tracks : CursorOK(cursors[t], t, 0) /\ cursors[t].previous = 0
      BY <1>0, <2>1 DEF CursorInv
    <2>4. cursors \in [Tracks -> SampleCursor]
      BY DEF ReaderTypeOK
    <2>5. PrimedCursors = [cursors EXCEPT ![file[1]] = Passed(@, 0 + 1)]
      <3>1. Passed(cursors[file[1]], 0 + 1) = [cursors[file[1]] EXCEPT !.current = 1]
        BY <2>1, <2>2, <2>3 DEF Passed
      <3> QED
        BY <1>2, <2>2, <2>4, <3>1 DEF PrimedCursors
    <2>6. ASSUME NEW t \in Tracks
          PROVE  /\ CursorOK(PrimedCursors[t], t, 0 + 1) /\ PrimedCursors[t].previous = 0
      <3>1. CASE t = file[1]
        BY <2>2, <2>3, <2>4, <2>5, <3>1, CursorPassed
      <3>2. CASE t # file[1]
        BY <2>2, <2>3, <2>4, <2>5, <3>2, CursorElsewhere
      <3> QED
        BY <3>1, <3>2
    <2>7. PrimedCursors \in [Tracks -> SampleCursor]
      BY <2>4, <2>5, <2>6 DEF CursorOK
    <2> QED
      BY <1>2, <2>1, <2>2, <2>6, <2>7 DEF PrimedTrack
  <1> QED
    BY <1>1, <1>2

\* A cursor that knows the extractor's sample, which is the first of all that
\* are not read, has it as its current sample.
LEMMA CurrentIsNext ==
  ASSUME ReaderTypeOK, NEW t \in Tracks, NEW c, NEW e \in DOMAIN file, CursorOK(c, t, e),
         file[e] = t, e > c.previous,
         \A i \in After(t, c.previous) : i >= e
  PROVE  c.current = e
  <1>1. e \in After(t, c.previous) /\ e \in Nat
    BY FileLemma DEF After
  <1>2. c.current # 0
    BY <1>1 DEF CursorOK
  <1>3. c.current \in After(t, c.previous) /\ c.current <= e /\ c.current \in Nat
    BY <1>1, <1>2, AfterLemma DEF CursorOK, First
  <1> QED
    BY <1>1, <1>3

\* Sequential access: the extractor stands on the sample whose turn it is.
LEMMA OnNext ==
  ASSUME ReaderInv, MutexFree, enforceSequential, ~eosReached, file # <<>>
  PROVE  /\ First(extractorSample, Source!Unread)
         /\ extractorSample \in DOMAIN file /\ file[extractorSample] = PrimedTrack
         /\ PrimedCursors[PrimedTrack].current = extractorSample
         /\ \A t \in Tracks : Source!HasTurn(t) <=> t = PrimedTrack
  <1> USE DEF ReaderInv
  <1>1. First(extractorSample, Source!Unread)
    BY DEF TurnInv
  <1>2. extractorSample \in DOMAIN file /\ extractorSample > got[file[extractorSample]]
    BY <1>1, UnreadLemma DEF First
  <1>3. file[extractorSample] = PrimedTrack /\ PrimedTrack \in Tracks
    BY <1>2, Primed
  <1>4. \A i \in After(PrimedTrack, got[PrimedTrack]) : i >= extractorSample
    BY <1>1, <1>3, UnreadLemma DEF First, ReaderTypeOK
  <1>5. PrimedCursors[PrimedTrack].current = extractorSample
    BY <1>2, <1>3, <1>4, Primed, CurrentIsNext
  <1>6. \A t \in Tracks : Source!HasTurn(t) <=> t = PrimedTrack
    <2>1. ASSUME NEW i, Source!IsFirst(i, Source!Unread) PROVE i = extractorSample
      BY <1>1, <2>1, UnreadLemma DEF First, Source!IsFirst
    <2> QED
      BY <1>1, <1>3, <2>1 DEF First, Source!IsFirst, Source!HasTurn
  <1> QED
    BY <1>1, <1>2, <1>3, <1>5, <1>6

LEMMA LeaveLemma ==
  ASSUME ReaderInv, extractorTrack # NoTrack
  PROVE  /\ LeaveSample \in [Tracks -> SampleCursor]
         /\ \A t \in Tracks : /\ CursorOK(LeaveSample[t], t, extractorSample)
                              /\ LeaveSample[t].previous = cursors[t].previous
                              /\ LeaveSample[t].current = cursors[t].current
  <1> USE DEF ReaderInv
  <1>1. /\ cursors \in [Tracks -> SampleCursor] /\ extractorSample \in Nat \ {0}
        /\ extractorTrack \in Tracks
        /\ \A t \in Tracks : CursorOK(cursors[t], t, extractorSample)
    BY DEF ReaderTypeOK, CursorInv, Seen
  <1>2. CASE AtCurrent(extractorTrack)
    <2>1. LeaveSample = [cursors EXCEPT ![extractorTrack].next = 0]
      BY <1>2 DEF LeaveSample
    <2>2. CursorOK([cursors[extractorTrack] EXCEPT !.next = 0], extractorTrack, extractorSample)
      BY <1>1, <1>2, CursorLeft DEF AtCurrent
    <2> QED
      BY <1>1, <2>1, <2>2 DEF SampleCursor
  <1>3. CASE ~AtCurrent(extractorTrack)
    BY <1>1, <1>3 DEF LeaveSample
  <1> QED
    BY <1>2, <1>3

\* advanceExtractor_l: the cursors know the sample that it comes to, and only
\* the current sample of its own track may be set by it.
LEMMA Advanced ==
  ASSUME ReaderInv, extractorTrack # NoTrack, AdvanceExtractor
  PROVE  /\ extractorSample' = extractorSample + 1 /\ extractorSample' \in DOMAIN file
         /\ extractorTrack' = file[extractorSample'] /\ extractorTrack' \in Tracks
         /\ eosReached' = eosReached
         /\ cursors' \in [Tracks -> SampleCursor]
         /\ \A t \in Tracks :
              /\ CursorOK(cursors'[t], t, extractorSample')
              /\ cursors'[t].previous = cursors[t].previous
              /\ cursors[t].current # 0 => cursors'[t].current = cursors[t].current
              /\ cursors[t].current = 0 => cursors'[t].current \in {0, extractorSample'}
  <1> DEFINE i == extractorSample + 1
  <1>1. /\ i \in DOMAIN file /\ file[i] \in Tracks /\ extractorSample \in Nat
        /\ extractorSample' = i /\ extractorTrack' = file[i] /\ eosReached' = eosReached
        /\ cursors' = [LeaveSample EXCEPT ![file[i]] = Passed(@, i)]
    BY FileLemma DEF ReaderInv, ReaderTypeOK, AdvanceExtractor, HasNext
  <1>2. ASSUME NEW t \in Tracks
        PROVE  /\ CursorOK(cursors'[t], t, i)
               /\ cursors'[t].previous = cursors[t].previous
               /\ cursors[t].current # 0 => cursors'[t].current = cursors[t].current
               /\ cursors[t].current = 0 => cursors'[t].current \in {0, i}
    <2>1. CASE t = file[i]
      <3>1. cursors'[t] = Passed(LeaveSample[t], i)
        BY <1>1, <2>1, LeaveLemma
      <3> QED
        BY <1>1, <2>1, <3>1, LeaveLemma, CursorPassed DEF ReaderInv
    <2>2. CASE t # file[i]
      <3>1. cursors'[t] = LeaveSample[t]
        BY <1>1, <2>2, LeaveLemma
      <3> QED
        BY <1>1, <2>2, <3>1, LeaveLemma, CursorElsewhere DEF ReaderInv
    <2> QED
      BY <2>1, <2>2
  <1>3. cursors' \in [Tracks -> SampleCursor]
    BY <1>1, <1>2, LeaveLemma DEF CursorOK
  <1> QED
    BY <1>1, <1>2, <1>3

\* advanceExtractor_l at the end of the file.
LEMMA EosReachedLemma ==
  ASSUME ReaderInv, extractorTrack # NoTrack, ReachEos
  PROVE  /\ extractorSample' = extractorSample + 1 /\ extractorSample >= Len(file)
         /\ extractorTrack' = extractorTrack /\ extractorTrack \in Tracks
         /\ eosReached' = TRUE
         /\ cursors' \in [Tracks -> SampleCursor]
         /\ \A t \in Tracks :
              /\ CursorOK(cursors'[t], t, extractorSample')
              /\ cursors'[t].previous = cursors[t].previous
              /\ cursors'[t].current = cursors[t].current
  <1>1. extractorSample \in Nat /\ Len(file) \in Nat
    BY FileLemma DEF ReaderInv, ReaderTypeOK
  <1>2. extractorSample + 1 \notin DOMAIN file /\ extractorSample >= Len(file)
    BY <1>1, FileLemma DEF ReaderInv, ReachEos, HasNext
  <1>3. cursors' = LeaveSample /\ extractorSample' = extractorSample + 1
    BY DEF ReachEos
  <1>4. \A t \in Tracks : CursorOK(LeaveSample[t], t, extractorSample + 1)
    BY <1>1, <1>2, LeaveLemma, CursorElsewhere DEF ReaderInv
  <1> QED
    BY <1>2, <1>3, <1>4, LeaveLemma DEF ReachEos, ReaderInv, ReaderTypeOK

----------------------------------------------------------------------------
(* The steps *)

LEMMA CursorsKept ==
  ASSUME file' = file,
         \A t \in Tracks : /\ CursorOK(cursors'[t], t, Seen')
                           /\ cursors'[t].previous = Position(t)'
  PROVE  CursorInv'
  <1> SUFFICES ASSUME NEW t \in Tracks
               PROVE  CursorOK(cursors[t], t, Seen)' /\ (cursors[t].previous = Position(t))'
    BY DEF CursorInv
  <1>1. CursorOK(cursors'[t], t, Seen') /\ cursors'[t].previous = Position(t)'
    OBVIOUS
  <1>2. CursorOK(cursors[t], t, Seen)'
    BY <1>1 DEF CursorOK, After
  <1> QED
    BY <1>1, <1>2

LEMMA UnreadKept ==
  ASSUME UNCHANGED <<file, got>>
  PROVE  /\ Source!Unread' = Source!Unread
         /\ UNCHANGED extractorSample =>
              First(extractorSample, Source!Unread)' = First(extractorSample, Source!Unread)
  BY DEF Source!Unread, Source!Samples, First

\* A step that leaves the mutex free, with the extractor on its way.
LEMMA Settled ==
  ASSUME ReaderTypeOK', file' = file, file # <<>>,
         holder' = NoTrack, reading' = 0, switcher' = "idle",
         extractorTrack' \in Tracks,
         extractorSample' \in DOMAIN file => file[extractorSample'] = extractorTrack',
         eosReached' => extractorSample' > Len(file),
         \A t \in Tracks : /\ CursorOK(cursors'[t], t, extractorSample')
                           /\ cursors'[t].previous = got'[t],
         \E t \in Tracks : call'[t] # "info" \/ got'[t] # 0,
         enforceSequential' /\ ~eosReached' => First(extractorSample, Source!Unread)'
  PROVE  ReaderInv'
  <1>1. extractorTrack' # NoTrack
    BY ReaderAssumption
  <1>2. CursorInv'
    BY <1>1, CursorsKept DEF Seen, Position
  <1>3. ExtractorInv'
    BY <1>1 DEF ExtractorInv
  <1>4. HolderInv'
    BY DEF HolderInv
  <1>5. TurnInv'
    BY DEF TurnInv
  <1> QED
    BY <1>2, <1>3, <1>4, <1>5 DEF ReaderInv

LEMMA WaitStep ==
  ASSUME ReaderInv, NEW t \in Tracks, WaitForTrack(t)
  PROVE  ReaderInv' /\ [Source!SourceNext]_Source!sourceVars
  <1>1. /\ MutexFree /\ file # <<>> /\ NotMyTurn(t)
        /\ call[t] \in {"info", "infoWait", "read", "readWait"}
        /\ extractorTrack' = PrimedTrack /\ cursors' = PrimedCursors
        /\ blocked' = blocked \cup {t}
        /\ call' = [call EXCEPT ![t] = IF Asking(t) THEN "infoWait" ELSE "readWait"]
        /\ UNCHANGED <<file, extractorSample, eosReached, enforceSequential, holder,
                       got, reading, switcher, eosBefore, switches>>
    BY DEF WaitForTrack, InCall, switchVars
  <1>2. ReaderTypeOK'
    BY <1>1, Primed DEF ReaderInv, ReaderTypeOK, Calls
  <1>3. enforceSequential' /\ ~eosReached' => First(extractorSample, Source!Unread)'
    BY <1>1, OnNext, UnreadKept
  <1>4. \E u \in Tracks : call'[u] # "info" \/ got'[u] # 0
    BY <1>1 DEF ReaderInv, ReaderTypeOK
  <1>5. ReaderInv'
    BY <1>1, <1>2, <1>3, <1>4, Primed, Settled DEF MutexFree, ReaderInv, ExtractorInv, HolderInv
  <1>6. CASE Entering(t)
    <2>1. Source!MustWait(t)
      BY <1>1, OnNext DEF NotMyTurn, MutexFree, Source!MustWait
    <2>2. Source!Wait(t)
      BY <1>1, <1>6, <2>1 DEF Source!Wait, Entering, Asking, MutexFree, ReaderInv, ReaderTypeOK
    <2> QED
      BY <1>5, <2>2 DEF Source!SourceNext, Source!TrackStep
  <1>7. CASE ~Entering(t)
    BY <1>1, <1>5, <1>7 DEF Entering, Asking, ReaderInv, ReaderTypeOK, Source!sourceVars
  <1> QED
    BY <1>5, <1>6, <1>7

LEMMA EndOfStreamStep ==
  ASSUME ReaderInv, NEW t \in Tracks, EndOfStream(t)
  PROVE  ReaderInv' /\ Source!SourceNext
  <1>1. /\ MutexFree
        /\ call[t] \in {"info", "infoWait", "read", "readWait"}
        /\ file = <<>> \/ (file # <<>> /\ eosReached /\ (enforceSequential \/ ~Entering(t)))
        /\ call' = [call EXCEPT ![t] = IF Asking(t) THEN "end" ELSE "failed"]
        /\ UNCHANGED <<file, extractorTrack, extractorSample, cursors, eosReached,
                       enforceSequential, holder, blocked, got, reading, switcher,
                       eosBefore, switches>>
    BY DEF EndOfStream, InCall, Fail, extractorVars, switchVars
  <1>2. ReaderTypeOK'
    BY <1>1 DEF ReaderInv, ReaderTypeOK, Calls
  <1>3. CursorInv'
    BY <1>1, CursorsKept DEF ReaderInv, CursorInv, Seen, Position
  <1>4. ExtractorInv'
    BY <1>1 DEF ReaderInv, ExtractorInv, ReaderTypeOK, MutexFree
  <1>5. HolderInv' /\ TurnInv'
    BY <1>1, UnreadKept DEF ReaderInv, HolderInv, TurnInv, MutexFree
  <1>6. Source!End(t)
    BY <1>1 DEF Source!End, Source!Calling, Source!InInfo, Source!InRead, Source!MustWait,
       Source!SeesEnd, Source!WaitsForTurn, MutexFree, Entering, Asking, ReaderInv, ReaderTypeOK
  <1> QED
    BY <1>2, <1>3, <1>4, <1>5, <1>6 DEF ReaderInv, Source!SourceNext, Source!TrackStep

LEMMA InfoInTurnStep ==
  ASSUME ReaderInv, NEW t \in Tracks, InfoInTurn(t)
  PROVE  ReaderInv' /\ Source!SourceNext
  <1>1. /\ MutexFree /\ file # <<>> /\ enforceSequential /\ ~eosReached /\ t = PrimedTrack
        /\ call[t] \in {"info", "infoWait"}
        /\ extractorTrack' = PrimedTrack /\ cursors' = PrimedCursors
        /\ call' = [call EXCEPT ![t] = "read"]
        /\ UNCHANGED <<file, extractorSample, eosReached, enforceSequential, holder,
                       blocked, got, reading, switcher, eosBefore, switches>>
    BY DEF InfoInTurn, Served, InCall, Asking, switchVars
  <1>2. ReaderTypeOK'
    BY <1>1, Primed DEF ReaderInv, ReaderTypeOK, Calls
  <1>3. First(extractorSample, Source!Unread)'
    BY <1>1, OnNext, UnreadKept
  <1>4. \E u \in Tracks : call'[u] # "info" \/ got'[u] # 0
    BY <1>1 DEF ReaderInv, ReaderTypeOK
  <1>5. ReaderInv'
    BY <1>1, <1>2, <1>3, <1>4, Primed, Settled DEF MutexFree, ReaderInv, HolderInv
  <1>6. Source!HasTurn(t)
    BY <1>1, OnNext
  <1>7. Source!GetInfo(t)
    BY <1>1, <1>6 DEF Source!GetInfo, Source!InInfo, Source!MustWait, Source!SeesEnd,
       Source!WaitsForTurn, MutexFree, ReaderInv, ReaderTypeOK
  <1> QED
    BY <1>5, <1>7 DEF Source!SourceNext, Source!TrackStep

LEMMA ReadInTurnStep ==
  ASSUME ReaderInv, NEW t \in Tracks, ReadInTurn(t)
  PROVE  ReaderInv' /\ UNCHANGED Source!sourceVars
  <1>1. /\ MutexFree /\ file # <<>> /\ enforceSequential /\ ~eosReached /\ t = PrimedTrack
        /\ call[t] \in {"read", "readWait"}
        /\ reading' = extractorSample /\ holder' = t
        /\ cursors' = [cursors EXCEPT ![t] = ShiftedCursor(@)]
        /\ UNCHANGED <<file, extractorTrack, extractorSample, eosReached,
                       enforceSequential, call, blocked, got, switcher, eosBefore, switches>>
    BY DEF ReadInTurn, Served, InCall, Asking, switchVars
  <1>2. extractorTrack # NoTrack /\ t # NoTrack
    BY <1>1, ReaderAssumption DEF ReaderInv, ExtractorInv
  <1>3. PrimedCursors = cursors /\ PrimedTrack = extractorTrack /\ Seen = extractorSample
    BY <1>2 DEF PrimedCursors, PrimedTrack, Seen
  <1>4. /\ First(extractorSample, Source!Unread) /\ extractorSample \in DOMAIN file
        /\ file[extractorSample] = t /\ cursors[t].current = extractorSample
    BY <1>1, <1>3, OnNext
  <1>5. extractorSample \in Nat \ {0} /\ cursors \in [Tracks -> SampleCursor]
    BY DEF ReaderInv, ReaderTypeOK
  <1>6. ASSUME NEW u \in Tracks
        PROVE  /\ CursorOK(cursors'[u], u, extractorSample)
               /\ cursors'[u].previous = IF u = t THEN extractorSample ELSE got[u]
    <2>1. CursorOK(cursors[u], u, extractorSample) /\ cursors[u].previous = got[u]
      BY <1>1, <1>3, Primed
    <2>2. CASE u = t
      <3>1. cursors'[u] = ShiftedCursor(cursors[u])
        BY <1>1, <1>5, <2>2
      <3> QED
        BY <1>4, <1>5, <2>1, <2>2, <3>1, CursorShifted DEF ReaderInv
    <2>3. CASE u # t
      BY <1>1, <1>5, <2>1, <2>3
    <2> QED
      BY <2>2, <2>3
  <1>7. ReaderTypeOK'
    BY <1>1, <1>5, <1>6 DEF ReaderInv, ReaderTypeOK, CursorOK
  <1>8. CursorInv'
    BY <1>1, <1>2, <1>3, <1>5, <1>6, CursorsKept DEF Seen, Position
  <1>9. ExtractorInv'
    BY <1>1, <1>2 DEF ReaderInv, ExtractorInv
  <1>10. \A i \in Source!Unread : i = extractorSample \/ i > extractorSample
    BY <1>4, <1>5, UnreadLemma DEF First, ReaderInv
  <1>11. HolderInv'
    BY <1>1, <1>2, <1>4, <1>5, <1>10, UnreadKept DEF HolderInv, First, MutexFree
  <1>12. TurnInv'
    BY <1>1, <1>2 DEF TurnInv, MutexFree
  <1> QED
    BY <1>1, <1>7, <1>8, <1>9, <1>11, <1>12 DEF ReaderInv, Source!sourceVars

\* A turn of a loop that advances the extractor and keeps the mutex.
LEMMA Advancing ==
  ASSUME ReaderInv, extractorTrack # NoTrack, ~MutexFree, AdvanceExtractor,
         UNCHANGED <<file, enforceSequential, call, holder, blocked, got, reading, switcher,
                     eosBefore, switches>>,
         HolderInv'
  PROVE  ReaderInv' /\ UNCHANGED Source!sourceVars
  <1> USE DEF ReaderInv
  <1>1. ReaderTypeOK'
    BY Advanced DEF ReaderTypeOK
  <1>2. extractorTrack' # NoTrack
    BY Advanced, ReaderAssumption
  <1>3. CursorInv'
    BY <1>2, Advanced, CursorsKept DEF CursorInv, Seen, Position
  <1>4. ~eosReached
    BY FileLemma, Advanced DEF ExtractorInv, ReaderTypeOK
  <1>5. ExtractorInv'
    BY <1>2, <1>4, Advanced DEF ExtractorInv
  <1>6. TurnInv'
    BY DEF TurnInv, MutexFree
  <1> QED
    BY <1>1, <1>3, <1>5, <1>6, Advanced DEF Source!sourceVars

\* The end of advanceTrack_l: the sample is the first of all that are not read.
LEMMA ReadReturns ==
  ASSUME ReaderInv, NEW t \in Tracks, holder = t, reading # 0, Return(t),
         UNCHANGED <<file, enforceSequential, switcher>>,
         eosReached' = (Source!Unread = {reading})
  PROVE  Source!SourceNext
  <1> USE DEF ReaderInv
  <1>0. t # NoTrack
    BY ReaderAssumption
  <1>1. /\ enforceSequential /\ ~eosReached /\ call[t] \in {"read", "readWait"}
        /\ First(reading, Source!Unread) /\ file[reading] = t /\ switcher = "idle"
    BY <1>0 DEF HolderInv
  <1>2. reading \in DOMAIN file /\ reading > got[t]
    BY <1>1, UnreadLemma DEF First
  <1>3. Source!HasTurn(t)
    BY <1>1 DEF First, Source!HasTurn, Source!IsFirst
  <1>4. /\ reading \in Source!SamplesLeft(t)
        /\ Source!IsFirst(reading, Source!SamplesLeft(t))
    <2>1. reading \in Source!SamplesLeft(t)
      BY <1>1, <1>2 DEF Source!SamplesLeft, Source!Samples
    <2>2. Source!SamplesLeft(t) \subseteq Source!Unread
      BY UnreadLemma
    <2> QED
      BY <1>1, <2>1, <2>2 DEF First, Source!IsFirst
  <1>5. file # <<>>
    BY <1>2
  <1>6. Source!Read(t)
    BY <1>1, <1>3, <1>4, <1>5 DEF Source!Read, Source!InRead, Source!MustWait, Source!SeesEnd,
       Source!WaitsForTurn, Return, ReaderTypeOK
  <1> QED
    BY <1>6 DEF Source!SourceNext, Source!TrackStep

LEMMA AdvanceTrackStep ==
  ASSUME ReaderInv, NEW t \in Tracks, AdvanceTrack(t)
  PROVE  ReaderInv' /\ [Source!SourceNext]_Source!sourceVars
  <1> USE DEF ReaderInv
  <1>1. /\ holder = t /\ reading # 0 /\ t # NoTrack /\ ~MutexFree
        /\ UNCHANGED <<file, enforceSequential, switcher, eosBefore, switches>>
    BY ReaderAssumption DEF AdvanceTrack, MutexFree, switchVars
  <1>2. extractorTrack # NoTrack /\ file # <<>>
    BY <1>1 DEF ExtractorInv
  <1>3. /\ enforceSequential /\ ~eosReached /\ switcher = "idle"
        /\ First(reading, Source!Unread) /\ file[reading] = t
        /\ reading <= extractorSample
        /\ \A i \in Source!Unread : i = reading \/ i > extractorSample
    BY <1>1 DEF HolderInv
  <1>4. /\ reading \in DOMAIN file /\ reading \in Nat \ {0} /\ reading > got[t]
        /\ extractorSample \in Nat /\ got \in [Tracks -> Nat]
    BY <1>3, UnreadLemma DEF First, ReaderTypeOK
  <1>5. \A u \in Tracks : cursors[u].previous = IF u = t THEN reading ELSE got[u]
    BY <1>1 DEF CursorInv, Position
  <1>6. ASSUME NEW u \in Tracks, NEW i \in After(u, cursors[u].previous)
        PROVE  i \in Source!Unread /\ i > extractorSample
    <2>1. i \in DOMAIN file /\ i \in Nat /\ file[i] = u /\ i > cursors[u].previous
      BY <1>6, AfterLemma
    <2>2. i > got[u] /\ i # reading
      BY <1>3, <1>4, <1>5, <2>1
    <2> QED
      BY <1>3, <2>1, <2>2, UnreadLemma
  <1>7. ASSUME Return(t)
        PROVE  /\ holder' = NoTrack /\ reading' = 0
               /\ got' \in [Tracks -> Nat] /\ call' \in [Tracks -> Calls]
               /\ \A u \in Tracks : got'[u] = cursors[u].previous
               /\ got'[t] # 0
               /\ Source!Unread' \subseteq Source!Unread \ {reading}
    <2>1. /\ holder' = NoTrack /\ reading' = 0 /\ got' = [got EXCEPT ![t] = reading]
          /\ call' = [call EXCEPT ![t] = "info"]
      BY <1>7 DEF Return
    <2>2. \A u \in Tracks : got'[u] = cursors[u].previous
      BY <1>4, <1>5, <2>1
    <2>3. got' \in [Tracks -> Nat] /\ call' \in [Tracks -> Calls]
      BY <1>4, <2>1 DEF ReaderTypeOK, Calls
    <2>4. ASSUME NEW i \in Source!Unread' PROVE i \in Source!Unread \ {reading}
      <3>1. i \in DOMAIN file /\ i > got'[file[i]] /\ file[i] \in Tracks /\ i \in Nat
        BY <1>1, FileLemma DEF Source!Unread, Source!Samples
      <3> QED
        BY <1>3, <1>4, <2>1, <3>1, UnreadLemma
    <2> QED
      BY <1>4, <2>1, <2>2, <2>3, <2>4
  <1>8. CASE /\ AdvanceExtractor
             /\ cursors'[extractorTrack'].current = extractorSample'
             /\ blocked' \in {blocked, blocked \ {extractorTrack'}} /\ Return(t)
    <2> DEFINE u == extractorTrack'
               e == extractorSample'
    <2>1. /\ e = extractorSample + 1 /\ e \in DOMAIN file /\ u \in Tracks /\ file[e] = u
          /\ ~eosReached' /\ e \in Nat \ {0}
      BY <1>2, <1>3, <1>4, <1>8, Advanced
    <2>2. e \in After(u, got'[u])
      BY <1>2, <1>7, <1>8, <2>1, Advanced DEF CursorOK, First
    <2>3. e \in Source!Unread'
      BY <1>1, <2>1, <2>2 DEF After, Source!Unread, Source!Samples
    <2>4. First(extractorSample, Source!Unread)'
      <3>1. ASSUME NEW i \in Source!Unread' PROVE e <= i
        BY <1>3, <1>4, <1>7, <1>8, <2>1, <3>1, UnreadLemma
      <3> QED
        BY <2>3, <3>1 DEF First
    <2>5. ReaderTypeOK'
      BY <1>1, <1>2, <1>7, <1>8, <2>1, Advanced DEF ReaderTypeOK
    <2>6. ReaderInv'
      BY <1>1, <1>2, <1>3, <1>7, <1>8, <2>1, <2>4, <2>5, Advanced, Settled
    <2>7. Source!Unread # {reading}
      BY <1>7, <1>8, <2>3
    <2>8. eosReached' = (Source!Unread = {reading})
      <3>1. eosReached' = FALSE
        BY <1>2, <1>3, <1>8, Advanced DEF ReaderTypeOK
      <3> QED
        BY <2>7, <3>1
    <2> QED
      BY <1>1, <1>8, <2>6, <2>8, ReadReturns
  <1>9. CASE /\ AdvanceExtractor
             /\ cursors'[extractorTrack'].current # extractorSample'
             /\ UNCHANGED <<call, holder, blocked, got, reading>>
    <2> DEFINE e == extractorSample'
    <2>1. /\ e = extractorSample + 1 /\ e \in DOMAIN file /\ file[e] \in Tracks
          /\ extractorTrack' = file[e] /\ eosReached' = eosReached
      BY <1>2, <1>9, Advanced
    <2>2. e \notin Source!Unread
      <3> SUFFICES ASSUME e \in Source!Unread PROVE FALSE
        OBVIOUS
      <3> DEFINE u == file[e]
                 c == cursors'[u]
      <3>1. CursorOK(c, u, e) /\ c.previous = cursors[u].previous
        BY <1>2, <1>9, <2>1, Advanced
      <3>2. e > c.previous
        BY <1>3, <1>4, <1>5, <2>1, <3>1, UnreadLemma
      <3>3. \A i \in After(u, c.previous) : i >= e
        BY <1>4, <1>6, <2>1, <3>1, UnreadLemma
      <3>4. c.current = e
        BY <2>1, <3>1, <3>2, <3>3, CurrentIsNext
      <3> QED
        BY <1>9, <2>1, <3>4
    <2>3. \A i \in Source!Unread : i = reading \/ i > e
      BY <1>3, <1>4, <2>1, <2>2, UnreadLemma
    <2>4. HolderInv'
      BY <1>1, <1>3, <1>4, <1>9, <2>1, <2>3, UnreadKept DEF HolderInv, First
    <2> QED
      BY <1>1, <1>2, <1>9, <2>4, Advancing
  <1>10. CASE ReachEos /\ blocked' = {} /\ Return(t)
    <2>1. Source!Unread = {reading}
      BY <1>2, <1>3, <1>4, <1>10, EosReachedLemma, UnreadLemma, FileLemma DEF First
    <2>2. ReaderTypeOK'
      <3>1. extractorSample' \in Nat \ {0} /\ eosReached' \in BOOLEAN
        BY <1>2, <1>4, <1>10, EosReachedLemma
      <3>2. reading' \in Nat /\ holder' \in Tracks \cup {NoTrack} /\ blocked' \in SUBSET Tracks
        BY <1>7, <1>10
      <3> QED
        BY <1>1, <1>2, <1>7, <1>10, <3>1, <3>2, EosReachedLemma DEF ReaderTypeOK
    <2>3. extractorSample' \notin DOMAIN file /\ extractorSample' > Len(file)
      BY <1>2, <1>4, <1>10, EosReachedLemma, FileLemma
    <2>4. ReaderInv'
      BY <1>1, <1>2, <1>3, <1>7, <1>10, <2>2, <2>3, EosReachedLemma, Settled
    <2>5. eosReached' = (Source!Unread = {reading})
      BY <1>2, <1>10, <2>1, EosReachedLemma
    <2> QED
      BY <1>1, <1>10, <2>4, <2>5, ReadReturns
  <1> QED
    BY <1>8, <1>9, <1>10 DEF AdvanceTrack

\* A call that returns while access is free: it has the first sample that is
\* left of its track.
LEMMA FreeCallReturns ==
  ASSUME ReaderInv, NEW t \in Tracks, NEW i, First(i, After(t, got[t])), file # <<>>,
         switcher = "idle", switcher' = "idle", ~enforceSequential,
         call[t] \in {"info", "infoWait", "read", "readWait"}, Entering(t) \/ ~eosReached,
         eosReached' = FALSE, UNCHANGED <<file, enforceSequential>>, Deliver(t, i)
  PROVE  Source!SourceNext
  <1> USE DEF ReaderInv
  <1>1. /\ i \in Source!SamplesLeft(t)
        /\ Source!IsFirst(i, Source!SamplesLeft(t))
    BY UnreadLemma DEF First, Source!IsFirst
  <1>2. ~Source!MustWait(t) /\ ~Source!SeesEnd(t)
    BY <1>1 DEF Source!MustWait, Source!SeesEnd, Source!WaitsForTurn, Entering
  <1>3. CASE Asking(t)
    <2>1. Source!GetInfo(t)
      BY <1>2, <1>3 DEF Source!GetInfo, Source!InInfo, Asking, Deliver
    <2> QED
      BY <2>1 DEF Source!SourceNext, Source!TrackStep
  <1>4. CASE ~Asking(t)
    <2>1. Source!InRead(t) /\ call' = [call EXCEPT ![t] = "info"] /\ got' = [got EXCEPT ![t] = i]
      BY <1>4 DEF Source!InRead, Asking, Deliver
    <2>2. FALSE = (enforceSequential /\ Source!Unread = {i})
      OBVIOUS
    <2>3. Source!Read(t)
      BY <1>1, <1>2, <2>1, <2>2 DEF Source!Read
    <2> QED
      BY <2>3 DEF Source!SourceNext, Source!TrackStep
  <1> QED
    BY <1>3, <1>4

LEMMA FreeCallSettles ==
  ASSUME ReaderInv, NEW t \in Tracks, NEW i \in DOMAIN file, Deliver(t, i),
         PrimedCursors \in [Tracks -> SampleCursor],
         \A u \in Tracks : /\ CursorOK(PrimedCursors[u], u, i)
                           /\ PrimedCursors[u].previous = got[u],
         PrimedCursors[t].current = i,
         extractorSample' = i, extractorTrack' \in Tracks, file[i] = extractorTrack',
         eosReached' = FALSE, ~enforceSequential, file # <<>>,
         UNCHANGED <<file, enforceSequential, blocked, eosBefore, switches>>,
         holder' = NoTrack, reading' = 0, switcher' = "idle"
  PROVE  ReaderInv'
  <1> USE DEF ReaderInv
  <1>1. i \in Nat \ {0}
    BY FileLemma
  <1>2. CASE Asking(t)
    <2>1. /\ call' = [call EXCEPT ![t] = "read"] /\ cursors' = PrimedCursors /\ got' = got
      BY <1>2 DEF Deliver
    <2>2. ReaderTypeOK'
      BY <1>1, <2>1 DEF ReaderTypeOK, Calls
    <2>3. \E u \in Tracks : call'[u] # "info" \/ got'[u] # 0
      BY <2>1 DEF ReaderTypeOK
    <2> QED
      BY <2>1, <2>2, <2>3, Settled
  <1>3. CASE ~Asking(t)
    <2>1. /\ call' = [call EXCEPT ![t] = "info"]
          /\ cursors' = [PrimedCursors EXCEPT ![t] = ShiftedCursor(@)]
          /\ got' = [got EXCEPT ![t] = i]
      BY <1>3 DEF Deliver
    <2>2. ASSUME NEW u \in Tracks
          PROVE  CursorOK(cursors'[u], u, i) /\ cursors'[u].previous = got'[u]
      <3>1. CASE u = t
        <4>1. cursors'[u] = ShiftedCursor(PrimedCursors[u]) /\ got'[u] = i
          BY <2>1, <3>1 DEF ReaderTypeOK
        <4> QED
          BY <1>1, <3>1, <4>1, CursorShifted
      <3>2. CASE u # t
        BY <2>1, <3>2 DEF ReaderTypeOK
      <3> QED
        BY <3>1, <3>2
    <2>3. cursors' \in [Tracks -> SampleCursor]
      BY <2>1, <2>2 DEF CursorOK
    <2>4. ReaderTypeOK'
      BY <1>1, <2>1, <2>3 DEF ReaderTypeOK, Calls
    <2>5. \E u \in Tracks : call'[u] # "info" \/ got'[u] # 0
      BY <1>1, <2>1 DEF ReaderTypeOK
    <2> QED
      BY <2>2, <2>4, <2>5, Settled
  <1> QED
    BY <1>2, <1>3

LEMMA MoveAtOnceStep ==
  ASSUME ReaderInv, NEW t \in Tracks, MoveAtOnce(t)
  PROVE  ReaderInv' /\ Source!SourceNext
  <1> USE DEF ReaderInv
  <1> DEFINE i == PrimedCursors[t].current
  <1>1. /\ MutexFree /\ file # <<>> /\ ~enforceSequential /\ (Entering(t) \/ ~eosReached)
        /\ call[t] \in {"info", "infoWait", "read", "readWait"}
        /\ i # 0 /\ Deliver(t, i)
        /\ UNCHANGED <<file, enforceSequential, holder, blocked, reading, switcher,
                       eosBefore, switches>>
    BY DEF MoveAtOnce, ServedFreely, InCall, switchVars
  <1>2. /\ PrimedTrack \in Tracks
        /\ extractorSample \in DOMAIN file => file[extractorSample] = PrimedTrack
        /\ PrimedCursors \in [Tracks -> SampleCursor]
        /\ \A u \in Tracks : /\ CursorOK(PrimedCursors[u], u, extractorSample)
                             /\ PrimedCursors[u].previous = got[u]
    BY <1>1, Primed
  <1>3. First(i, After(t, got[t]))
    BY <1>1, <1>2 DEF CursorOK
  <1>4. i \in DOMAIN file /\ file[i] = t /\ i \in Nat /\ i <= Len(file)
    BY <1>3, AfterLemma DEF First
  <1>5. holder' = NoTrack /\ reading' = 0 /\ switcher = "idle" /\ switcher' = "idle"
    BY <1>1 DEF MutexFree, HolderInv
  <1>6. /\ extractorSample \in Nat /\ i <= extractorSample
        /\ extractorSample' = i /\ extractorTrack' \in Tracks /\ file[i] = extractorTrack'
        /\ eosReached' = FALSE
    <2>1. CASE /\ extractorSample = i /\ extractorTrack' = PrimedTrack
               /\ UNCHANGED <<extractorSample, eosReached>>
      <3>1. ~eosReached
        BY <1>4, <2>1, FileLemma DEF ExtractorInv
      <3> QED
        BY <1>2, <1>4, <2>1, <3>1 DEF ReaderTypeOK
    <2>2. CASE extractorSample > i /\ SeekBack(i, t)
      BY <1>4, <2>2 DEF SeekBack, ReaderTypeOK
    <2> QED
      BY <2>1, <2>2 DEF MoveAtOnce
  <1>7. \A u \in Tracks : CursorOK(PrimedCursors[u], u, i)
    BY <1>2, <1>4, <1>6, CursorBack
  <1>8. ReaderInv'
    BY <1>1, <1>2, <1>4, <1>5, <1>6, <1>7, FreeCallSettles
  <1> HIDE DEF i
  <1> QED
    BY <1>1, <1>3, <1>5, <1>6, <1>8, FreeCallReturns

LEMMA MoveAheadStep ==
  ASSUME ReaderInv, NEW t \in Tracks, MoveAhead(t)
  PROVE  ReaderInv' /\ UNCHANGED Source!sourceVars
  <1> USE DEF ReaderInv
  <1>1. /\ MutexFree /\ file # <<>> /\ ~enforceSequential
        /\ call[t] \in {"info", "infoWait", "read", "readWait"}
        /\ PrimedCursors[t].current = 0 \/ extractorSample < PrimedCursors[t].current
        /\ extractorTrack' = PrimedTrack /\ cursors' = PrimedCursors /\ holder' = t
        /\ UNCHANGED <<file, extractorSample, eosReached, enforceSequential, call, blocked,
                       got, reading, switcher, eosBefore, switches>>
    BY DEF MoveAhead, ServedFreely, InCall, switchVars
  <1>2. t # NoTrack /\ PrimedTrack # NoTrack /\ reading = 0 /\ switcher = "idle"
    BY <1>1, ReaderAssumption, Primed DEF MutexFree, HolderInv
  <1>3. ReaderTypeOK'
    BY <1>1, Primed DEF ReaderTypeOK
  <1>4. CursorInv'
    BY <1>1, <1>2, Primed, CursorsKept DEF Seen, Position
  <1>5. ExtractorInv'
    BY <1>1, <1>2, Primed DEF ExtractorInv
  <1>6. HolderInv'
    <2>1. cursors'[t].current = 0 \/ extractorSample' <= cursors'[t].current
      BY <1>1, <1>3, Primed DEF ReaderTypeOK, SampleCursor
    <2> QED
      BY <1>1, <1>2, <2>1 DEF HolderInv
  <1>7. TurnInv'
    BY <1>1 DEF TurnInv
  <1> QED
    BY <1>1, <1>3, <1>4, <1>5, <1>6, <1>7 DEF Source!sourceVars

LEMMA MoveToSampleStep ==
  ASSUME ReaderInv, NEW t \in Tracks, MoveToSample(t)
  PROVE  ReaderInv' /\ [Source!SourceNext]_Source!sourceVars
  <1> USE DEF ReaderInv
  <1>1. /\ holder = t /\ reading = 0 /\ t # NoTrack /\ ~MutexFree
        /\ UNCHANGED <<file, enforceSequential, reading, switcher, eosBefore, switches>>
    BY ReaderAssumption DEF MoveToSample, MutexFree, switchVars
  <1>2. extractorTrack # NoTrack /\ file # <<>> /\ extractorTrack \in Tracks
    BY <1>1 DEF ExtractorInv, ReaderTypeOK
  <1>3. /\ ~enforceSequential /\ switcher = "idle"
        /\ call[t] \in {"info", "infoWait", "read", "readWait"}
        /\ cursors[t].current = 0 \/ extractorSample <= cursors[t].current
    BY <1>1 DEF HolderInv
  <1>4. /\ PrimedCursors = cursors /\ Seen = extractorSample
        /\ cursors \in [Tracks -> SampleCursor]
        /\ \A u \in Tracks : /\ CursorOK(cursors[u], u, extractorSample)
                             /\ cursors[u].previous = got[u]
    BY <1>1, <1>2 DEF PrimedCursors, Seen, CursorInv, Position, ReaderTypeOK
  <1>5. extractorSample \in Nat \ {0} /\ cursors[t].current \in Nat
    BY <1>4 DEF ReaderTypeOK, SampleCursor
  <1>6. CASE /\ AtCurrent(t) /\ Deliver(t, extractorSample) /\ holder' = NoTrack
             /\ UNCHANGED <<extractorTrack, extractorSample, eosReached, blocked>>
    <2>1. First(extractorSample, After(t, got[t])) /\ cursors[t].current = extractorSample
      BY <1>4, <1>6 DEF AtCurrent, CursorOK
    <2>2. extractorSample \in DOMAIN file /\ extractorSample <= Len(file)
      BY <2>1, AfterLemma DEF First
    <2>3. eosReached = FALSE /\ file[extractorSample] = extractorTrack
      BY <1>2, <2>2, FileLemma DEF ExtractorInv, ReaderTypeOK
    <2>4. ReaderInv'
      BY <1>1, <1>2, <1>3, <1>4, <1>6, <2>1, <2>2, <2>3, FreeCallSettles
    <2> QED
      BY <1>1, <1>2, <1>3, <1>6, <2>1, <2>3, <2>4, FreeCallReturns
  <1>7. CASE ~AtCurrent(t) /\ AdvanceExtractor /\ UNCHANGED <<call, holder, blocked, got>>
    <2>1. cursors'[t].current = 0 \/ extractorSample' <= cursors'[t].current
      BY <1>2, <1>3, <1>5, <1>7, Advanced DEF AtCurrent
    <2>2. HolderInv'
      BY <1>1, <1>3, <1>7, <2>1 DEF HolderInv
    <2> QED
      BY <1>1, <1>2, <1>7, <2>2, Advancing
  <1>8. CASE /\ ~AtCurrent(t) /\ ReachEos /\ Fail(t) /\ blocked' = {} /\ holder' = NoTrack
             /\ UNCHANGED got
    <2>1. /\ extractorSample' = extractorSample + 1 /\ extractorSample >= Len(file)
          /\ extractorTrack' = extractorTrack /\ eosReached' = TRUE
          /\ cursors' \in [Tracks -> SampleCursor]
          /\ \A u \in Tracks : /\ CursorOK(cursors'[u], u, extractorSample')
                               /\ cursors'[u].previous = got[u]
      BY <1>2, <1>4, <1>8, EosReachedLemma
    <2>2. call' = [call EXCEPT ![t] = IF Asking(t) THEN "end" ELSE "failed"]
      BY <1>8 DEF Fail
    <2>3. ReaderTypeOK'
      <3>1. extractorSample' \in Nat \ {0} /\ eosReached' \in BOOLEAN /\ blocked' \in SUBSET Tracks
        BY <1>5, <1>8, <2>1
      <3>2. call' \in [Tracks -> Calls]
        BY <2>2 DEF ReaderTypeOK, Calls
      <3> QED
        BY <1>1, <1>8, <2>1, <3>1, <3>2 DEF ReaderTypeOK
    <2>4. extractorSample' \notin DOMAIN file /\ extractorSample' > Len(file)
      BY <1>5, <2>1, FileLemma
    <2>5. \E u \in Tracks : call'[u] # "info" \/ got'[u] # 0
      BY <2>2 DEF ReaderTypeOK
    <2>6. ReaderInv'
      BY <1>1, <1>2, <1>3, <1>8, <2>1, <2>3, <2>4, <2>5, Settled
    <2>7. Source!SamplesLeft(t) = {}
      <3>1. cursors[t].current = 0
        <4> SUFFICES ASSUME cursors[t].current # 0 PROVE FALSE
          OBVIOUS
        <4>1. cursors[t].current \in After(t, cursors[t].previous)
          BY <1>4 DEF CursorOK, First
        <4>2. cursors[t].current <= Len(file) /\ Len(file) \in Nat
          BY <4>1, AfterLemma, FileLemma
        <4> QED
          BY <1>3, <1>5, <1>8, <2>1, <4>2 DEF AtCurrent
      <3>2. \A i \in After(t, got[t]) : i > extractorSample
        BY <1>4, <3>1 DEF CursorOK
      <3>3. After(t, got[t]) = {}
        BY <1>5, <2>1, <3>2, AfterLemma, FileLemma
      <3> QED
        BY <3>3, UnreadLemma
    <2>8. Source!End(t)
      BY <1>1, <1>2, <1>3, <1>8, <2>1, <2>2, <2>7 DEF Source!End, Source!Calling, Source!InInfo,
         Source!InRead, Source!MustWait, Source!SeesEnd, Asking
    <2> QED
      BY <2>6, <2>8 DEF Source!SourceNext, Source!TrackStep
  <1> QED
    BY <1>6, <1>7, <1>8 DEF MoveToSample

LEMMA SetFreeStep ==
  ASSUME ReaderInv, SetFree
  PROVE  ReaderInv' /\ Source!SourceNext
  <1> USE DEF ReaderInv
  <1>1. /\ MutexFree /\ switches < MaxSwitches /\ switches' = switches + 1
        /\ enforceSequential' = FALSE
        /\ blocked' \in {{}, blocked}
        /\ UNCHANGED <<file, extractorTrack, extractorSample, cursors, eosReached, call, holder,
                       got, reading, switcher, eosBefore>>
    BY DEF SetFree, extractorVars
  <1>2. ReaderTypeOK'
    <2>1. switches' \in 0..MaxSwitches
      BY <1>1, ReaderAssumption DEF ReaderTypeOK
    <2>2. blocked' \in SUBSET Tracks
      BY <1>1 DEF ReaderTypeOK
    <2> QED
      BY <1>1, <2>1, <2>2 DEF ReaderTypeOK
  <1>3. CursorInv'
    BY <1>1, CursorsKept DEF CursorInv, Seen, Position
  <1>4. ExtractorInv' /\ HolderInv' /\ TurnInv'
    BY <1>1 DEF ExtractorInv, HolderInv, TurnInv, MutexFree
  <1>5. Source!Lift
    BY <1>1 DEF Source!Lift
  <1> QED
    BY <1>2, <1>3, <1>4, <1>5 DEF Source!SourceNext

LEMMA SetSequentialStep ==
  ASSUME ReaderInv, SetSequential
  PROVE  ReaderInv' /\ Source!SourceNext
  <1> USE DEF ReaderInv
  <1>1. /\ MutexFree /\ switches < MaxSwitches /\ switches' = switches + 1
        /\ enforceSequential \/ extractorTrack = NoTrack
        /\ enforceSequential' = TRUE
        /\ UNCHANGED <<file, extractorTrack, extractorSample, cursors, eosReached, call, holder,
                       blocked, got, reading, switcher, eosBefore>>
    BY DEF SetSequential, extractorVars
  <1>2. ReaderTypeOK'
    BY <1>1, ReaderAssumption DEF ReaderTypeOK
  <1>3. CursorInv'
    BY <1>1, CursorsKept DEF CursorInv, Seen, Position
  <1>4. ExtractorInv' /\ HolderInv'
    BY <1>1 DEF ExtractorInv, HolderInv, MutexFree
  <1>5. TurnInv'
    <2> SUFFICES ASSUME ~eosReached, file # <<>> PROVE First(extractorSample, Source!Unread)
      BY <1>1, UnreadKept DEF TurnInv
    <2>1. CASE enforceSequential
      BY <1>1, <2>1 DEF TurnInv
    <2>2. CASE extractorTrack = NoTrack
      <3>1. extractorSample = 1 /\ \A t \in Tracks : got[t] = 0
        BY <2>2 DEF ExtractorInv
      <3>2. 1 \in DOMAIN file /\ file[1] \in Tracks
        BY FileLemma
      <3>3. 1 \in Source!Unread
        BY <3>1, <3>2, UnreadLemma
      <3> QED
        BY <3>1, <3>3, UnreadLemma DEF First
    <2> QED
      BY <1>1, <2>1, <2>2
  <1>6. enforceSequential \/ ~Source!Started
    BY <1>1 DEF Source!Started, ExtractorInv
  <1>7. Source!Enforce
    BY <1>1, <1>6 DEF Source!Enforce
  <1> QED
    BY <1>2, <1>3, <1>4, <1>5, <1>7 DEF Source!SourceNext

\* No sample before the earliest known position of all tracks is left, if the
\* extractor has come that far.
LEMMA EarliestLemma ==
  ASSUME ReaderInv, extractorTrack # NoTrack, MutexFree \/ switcher # "idle",
         NEW t \in Tracks, IsEarliest(t), LastKnown(t) <= extractorSample
  PROVE  /\ LastKnown(t) \in DOMAIN file /\ file[LastKnown(t)] = t
         /\ LastKnown(t) \in Nat \ {0}
         /\ \A i \in Source!Unread : i >= LastKnown(t)
  <1> USE DEF ReaderInv
  <1>1. holder = NoTrack /\ \A u \in Tracks : Position(u) = got[u]
    BY ReaderAssumption DEF MutexFree, HolderInv, Position
  <1>2. \A u \in Tracks : /\ CursorOK(cursors[u], u, extractorSample)
                          /\ cursors[u].previous = got[u]
                          /\ LastKnown(u) \in Nat
    BY <1>1 DEF CursorInv, Seen, ReaderTypeOK, LastKnown, SampleCursor
  <1>3. LastKnown(t) \in DOMAIN file /\ file[LastKnown(t)] = t /\ LastKnown(t) # 0
    <2>1. CASE cursors[t].current # 0
      BY <1>2, <2>1, AfterLemma DEF LastKnown, CursorOK, First
    <2>2. CASE cursors[t].current = 0
      BY <1>2, <2>2 DEF LastKnown, IsEarliest, CursorOK
    <2> QED
      BY <2>1, <2>2
  <1>4. ASSUME NEW i \in Source!Unread PROVE i >= LastKnown(t)
    <2> DEFINE u == file[i]
    <2>1. u \in Tracks /\ i \in Nat /\ i \in After(u, got[u])
      BY UnreadLemma
    <2>2. CASE cursors[u].current # 0
      <3>1. LastKnown(u) <= i /\ LastKnown(u) # 0
        BY <1>2, <2>1, <2>2 DEF CursorOK, First, LastKnown
      <3> QED
        BY <1>2, <2>1, <3>1 DEF IsEarliest
    <2>3. CASE cursors[u].current = 0
      <3>1. i > extractorSample /\ extractorSample \in Nat
        BY <1>2, <2>1, <2>3 DEF CursorOK, ReaderTypeOK
      <3> QED
        BY <1>2, <2>1, <3>1
    <2> QED
      BY <2>2, <2>3
  <1> QED
    BY <1>2, <1>3, <1>4

LEMMA BeginSequentialStep ==
  ASSUME ReaderInv, BeginSequential
  PROVE  ReaderInv' /\ UNCHANGED Source!sourceVars
  <1> USE DEF ReaderInv
  <1>1. /\ MutexFree /\ switches < MaxSwitches /\ switches' = switches + 1
        /\ ~enforceSequential /\ extractorTrack # NoTrack
        /\ eosBefore' = eosReached
        /\ UNCHANGED <<file, cursors, enforceSequential, call, holder, blocked, got, reading>>
    BY DEF BeginSequential
  <1>2. PICK t \in Tracks :
          /\ IsEarliest(t)
          /\ IF extractorSample > LastKnown(t)
               THEN SeekBack(LastKnown(t), t) /\ switcher' = "seeking"
               ELSE /\ UNCHANGED <<extractorTrack, extractorSample, eosReached>>
                    /\ switcher' = "moving"
    BY DEF BeginSequential
  <1>3. extractorSample \in Nat \ {0} /\ LastKnown(t) \in Nat /\ reading = 0 /\ file # <<>>
    BY <1>1 DEF ReaderTypeOK, LastKnown, SampleCursor, HolderInv, MutexFree, ExtractorInv
  <1>4. /\ extractorSample' \in Nat \ {0} /\ extractorSample' <= extractorSample
        /\ extractorTrack' \in Tracks /\ eosReached' \in BOOLEAN
        /\ extractorSample' \in DOMAIN file => file[extractorSample'] = extractorTrack'
        /\ eosReached' => extractorSample' > Len(file)
        /\ switcher' \in {"moving", "seeking"}
        /\ switcher' = "seeking" => /\ extractorSample' \in DOMAIN file
                                    /\ \A i \in Source!Unread : i >= extractorSample'
    <2>1. CASE extractorSample > LastKnown(t)
      <3>1. /\ extractorSample' = LastKnown(t) /\ extractorTrack' = t /\ eosReached' = FALSE
            /\ switcher' = "seeking"
        BY <1>2, <2>1 DEF SeekBack
      <3>2. LastKnown(t) <= extractorSample
        BY <1>3, <2>1
      <3>3. /\ LastKnown(t) \in DOMAIN file /\ file[LastKnown(t)] = t
            /\ LastKnown(t) \in Nat \ {0}
            /\ \A i \in Source!Unread : i >= LastKnown(t)
        BY <1>1, <1>2, <3>2, EarliestLemma
      <3> HIDE <1>2
      <3> QED
        BY <3>1, <3>2, <3>3
    <2>2. CASE ~(extractorSample > LastKnown(t))
      BY <1>1, <1>2, <1>3, <2>2 DEF ExtractorInv, ReaderTypeOK
    <2> QED
      BY <2>1, <2>2
  <1>5. ReaderTypeOK'
    BY <1>1, <1>4, ReaderAssumption DEF ReaderTypeOK
  <1>6. CursorInv'
    <2>1. \A u \in Tracks : CursorOK(cursors[u], u, extractorSample)
      BY <1>1 DEF CursorInv, Seen
    <2>2. \A u \in Tracks : CursorOK(cursors[u], u, extractorSample')
      BY <1>3, <1>4, <2>1, CursorBack
    <2>3. extractorTrack' # NoTrack
      BY <1>4, ReaderAssumption
    <2> QED
      BY <1>1, <2>2, <2>3, CursorsKept DEF CursorInv, Seen, Position
  <1>7. ExtractorInv'
    BY <1>1, <1>3, <1>4, ReaderAssumption DEF ExtractorInv, MutexFree
  <1>8. HolderInv'
    BY <1>1, <1>3, <1>4, UnreadKept DEF HolderInv, MutexFree
  <1>9. TurnInv'
    BY <1>1 DEF TurnInv
  <1> QED
    BY <1>1, <1>4, <1>5, <1>6, <1>7, <1>8, <1>9 DEF Source!sourceVars, MutexFree

LEMMA PlaceExtractorStep ==
  ASSUME ReaderInv, PlaceExtractor
  PROVE  ReaderInv' /\ [Source!SourceNext]_Source!sourceVars
  <1> USE DEF ReaderInv
  <1>1. /\ switcher # "idle" /\ ~MutexFree
        /\ UNCHANGED <<file, call, holder, got, reading, eosBefore, switches>>
    BY DEF PlaceExtractor, MutexFree
  <1>2. holder = NoTrack /\ reading = 0 /\ ~enforceSequential
    BY <1>1 DEF HolderInv
  <1>3. /\ extractorTrack # NoTrack /\ extractorTrack \in Tracks /\ file # <<>>
        /\ extractorSample \in DOMAIN file => file[extractorSample] = extractorTrack
    BY <1>1 DEF ExtractorInv, ReaderTypeOK
  <1>4. /\ extractorSample \in Nat \ {0} /\ cursors \in [Tracks -> SampleCursor]
        /\ \A u \in Tracks : /\ CursorOK(cursors[u], u, extractorSample)
                             /\ cursors[u].previous = got[u]
    BY <1>2, <1>3 DEF CursorInv, Seen, Position, ReaderTypeOK
  <1>5. \E u \in Tracks : call[u] # "info" \/ got[u] # 0
    BY <1>2, <1>3 DEF ExtractorInv
  <1>6. CASE /\ switcher = "moving" /\ UNCHANGED <<enforceSequential, blocked>>
             /\ \E t \in Tracks : /\ IsEarliest(t) /\ extractorSample = LastKnown(t)
                                  /\ switcher' = "seeking" /\ UNCHANGED extractorVars
    <2>1. PICK t \in Tracks : IsEarliest(t) /\ extractorSample = LastKnown(t)
      BY <1>6
    <2>2. UNCHANGED <<extractorTrack, extractorSample, cursors, eosReached>> /\ switcher' = "seeking"
      BY <1>6 DEF extractorVars
    <2>3. LastKnown(t) <= extractorSample
      BY <1>4, <2>1
    <2>4. extractorSample \in DOMAIN file /\ \A i \in Source!Unread : i >= extractorSample
      BY <1>1, <1>3, <2>1, <2>3, EarliestLemma
    <2>5. ReaderTypeOK'
      BY <1>1, <1>6, <2>2 DEF ReaderTypeOK
    <2>6. CursorInv'
      BY <1>1, <2>2, CursorsKept DEF CursorInv, Seen, Position
    <2>7. ExtractorInv' /\ TurnInv'
      BY <1>1, <1>2, <1>3, <1>6, <2>2 DEF ExtractorInv, TurnInv
    <2>8. HolderInv'
      BY <1>1, <1>2, <1>6, <2>2, <2>4, UnreadKept DEF HolderInv
    <2> QED
      BY <1>1, <1>6, <2>2, <2>5, <2>6, <2>7, <2>8 DEF Source!sourceVars
  <1>7. CASE /\ switcher = "moving" /\ UNCHANGED <<enforceSequential, blocked>>
             /\ AdvanceExtractor /\ UNCHANGED switcher
    <2>1. HolderInv'
      BY <1>1, <1>2, <1>7 DEF HolderInv
    <2> QED
      BY <1>1, <1>3, <1>7, <2>1, Advancing
  <1>8. ASSUME switcher = "seeking"
        PROVE  /\ extractorSample \in DOMAIN file /\ file[extractorSample] = extractorTrack
               /\ eosReached = FALSE
               /\ \A i \in Source!Unread : i >= extractorSample
               /\ AtCurrent(extractorTrack) <=> extractorSample \in Source!Unread
    <2> USE <1>8
    <2> DEFINE c == cursors[extractorTrack]
    <2>1. /\ extractorSample \in DOMAIN file /\ \A i \in Source!Unread : i >= extractorSample
      BY DEF HolderInv
    <2>2. file[extractorSample] = extractorTrack
      BY <1>3, <2>1
    <2>3. eosReached = FALSE
      BY <2>1, FileLemma DEF ExtractorInv, ReaderTypeOK
    <2>4. CursorOK(c, extractorTrack, extractorSample) /\ c.previous = got[extractorTrack]
      BY <1>3, <1>4
    <2>5. ASSUME AtCurrent(extractorTrack) PROVE extractorSample \in Source!Unread
      <3>1. extractorSample \in After(extractorTrack, got[extractorTrack])
        BY <2>4, <2>5 DEF AtCurrent, CursorOK, First
      <3> QED
        BY <1>3, <3>1, UnreadLemma
    <2>6. ASSUME extractorSample \in Source!Unread PROVE AtCurrent(extractorTrack)
      <3>1. extractorSample > c.previous
        BY <2>2, <2>4, <2>6, UnreadLemma
      <3>2. \A i \in After(extractorTrack, c.previous) : i >= extractorSample
        BY <1>3, <2>1, <2>4, UnreadLemma
      <3>3. c.current = extractorSample
        BY <1>3, <2>1, <2>2, <2>4, <3>1, <3>2, CurrentIsNext
      <3> QED
        BY <1>4, <3>3 DEF AtCurrent
    <2> QED
      BY <2>1, <2>2, <2>3, <2>5, <2>6
  <1>9. Source!Started
    BY <1>3, <1>5 DEF Source!Started
  <1>10. CASE /\ switcher = "seeking" /\ AtCurrent(extractorTrack)
              /\ enforceSequential' = TRUE /\ switcher' = "idle"
              /\ UNCHANGED <<extractorVars, blocked>>
    <2>1. UNCHANGED <<extractorTrack, extractorSample, cursors, eosReached, blocked>>
      BY <1>10 DEF extractorVars
    <2>2. First(extractorSample, Source!Unread)
      BY <1>4, <1>8, <1>10, UnreadLemma DEF First
    <2>3. First(extractorSample, Source!Unread)'
      BY <1>1, <2>1, <2>2, UnreadKept
    <2>4. ReaderTypeOK'
      BY <1>1, <1>10, <2>1 DEF ReaderTypeOK
    <2>5. eosReached' = FALSE
      BY <1>8, <1>10, <2>1
    <2>6. ReaderInv'
      BY <1>1, <1>2, <1>3, <1>4, <1>5, <1>10, <2>1, <2>3, <2>4, <2>5, Settled
    <2>7. (Source!Unread = {}) = FALSE /\ (Source!Unread # {}) = TRUE
      BY <2>2 DEF First
    <2>8. Source!Enforce
      BY <1>1, <1>2, <1>9, <1>10, <2>5, <2>7 DEF Source!Enforce
    <2> QED
      BY <2>6, <2>8 DEF Source!SourceNext
  <1>11. CASE /\ switcher = "seeking" /\ ~AtCurrent(extractorTrack) /\ AdvanceExtractor
              /\ UNCHANGED <<switcher, enforceSequential, blocked>>
    <2>1. extractorSample' = extractorSample + 1 /\ extractorSample' \in DOMAIN file
      BY <1>3, <1>11, Advanced
    <2>2. \A i \in Source!Unread : i >= extractorSample'
      BY <1>4, <1>8, <1>11, <2>1, UnreadLemma
    <2>3. HolderInv'
      BY <1>1, <1>2, <1>11, <2>1, <2>2, UnreadKept DEF HolderInv
    <2> QED
      BY <1>1, <1>3, <1>11, <2>3, Advancing
  <1>12. CASE /\ switcher = "seeking" /\ ~AtCurrent(extractorTrack) /\ ReachEos
              /\ switcher' = "idle" /\ blocked' = {} /\ UNCHANGED enforceSequential
    <2>1. /\ extractorSample' = extractorSample + 1 /\ extractorSample >= Len(file)
          /\ extractorTrack' = extractorTrack /\ eosReached' = TRUE
          /\ cursors' \in [Tracks -> SampleCursor]
          /\ \A u \in Tracks : /\ CursorOK(cursors'[u], u, extractorSample')
                               /\ cursors'[u].previous = got[u]
      BY <1>3, <1>4, <1>12, EosReachedLemma
    <2>2. ReaderTypeOK'
      <3>1. extractorSample' \in Nat \ {0} /\ eosReached' \in BOOLEAN /\ blocked' \in SUBSET Tracks
        BY <1>4, <1>12, <2>1
      <3> QED
        BY <1>1, <1>12, <2>1, <3>1 DEF ReaderTypeOK
    <2>3. extractorSample' \notin DOMAIN file /\ extractorSample' > Len(file)
      BY <1>4, <2>1, FileLemma
    <2>4. ReaderInv'
      BY <1>1, <1>2, <1>3, <1>5, <1>12, <2>1, <2>2, <2>3, Settled
    <2>5. Source!Unread = {}
      BY <1>4, <1>8, <1>12, <2>1, UnreadLemma, FileLemma
    <2>6. (Source!Unread = {}) = TRUE /\ (Source!Unread # {}) = FALSE
      BY <2>5
    <2>7. enforceSequential = FALSE /\ enforceSequential' = FALSE
      BY <1>2, <1>12 DEF ReaderTypeOK
    <2>8. Source!Enforce
      BY <1>1, <1>9, <1>12, <2>1, <2>6, <2>7 DEF Source!Enforce
    <2> QED
      BY <2>4, <2>8 DEF Source!SourceNext
  <1> QED
    BY <1>6, <1>7, <1>10, <1>11, <1>12 DEF PlaceExtractor

----------------------------------------------------------------------------
(* The reader *)

LEMMA ReaderStarts ==
  ASSUME Init
  PROVE  ReaderInv /\ Source!SourceInit
  <1>1. ReaderTypeOK
    <2>1. 0 \in 0..MaxSwitches
      BY ReaderAssumption
    <2>2. cursors \in [Tracks -> SampleCursor]
      BY DEF Init, SampleCursor
    <2>3. extractorSample \in Nat \ {0} /\ reading \in Nat /\ got \in [Tracks -> Nat]
      BY DEF Init
    <2>4. blocked \in SUBSET Tracks /\ call \in [Tracks -> Calls]
      BY DEF Init, Calls
    <2> QED
      BY <2>1, <2>2, <2>3, <2>4 DEF Init, ReaderTypeOK
  <1>2. CursorInv
    <2> SUFFICES ASSUME NEW t \in Tracks
                 PROVE  CursorOK(cursors[t], t, Seen) /\ cursors[t].previous = Position(t)
      BY DEF CursorInv
    <2>1. cursors[t] = [previous |-> 0, current |-> 0, next |-> 0] /\ Seen = 0 /\ Position(t) = 0
      BY DEF Init, Seen, Position
    <2>2. CursorOK(cursors[t], t, 0)
      BY <2>1 DEF CursorOK, SampleCursor, After
    <2> QED
      BY <2>1, <2>2
  <1>3. ExtractorInv
    BY <1>1, FileLemma DEF Init, ExtractorInv, MutexFree
  <1>4. HolderInv /\ TurnInv
    BY DEF Init, HolderInv, TurnInv
  <1>5. Source!SourceInit
    BY DEF Init, Source!SourceInit
  <1> QED
    BY <1>1, <1>2, <1>3, <1>4, <1>5 DEF ReaderInv

LEMMA ReaderStutters ==
  ASSUME ReaderInv, UNCHANGED vars
  PROVE  ReaderInv' /\ UNCHANGED Source!sourceVars
  <1>1. UNCHANGED <<file, extractorTrack, extractorSample, cursors, eosReached,
                    enforceSequential, call, holder, blocked, got, reading,
                    switcher, eosBefore, switches>>
    BY DEF vars
  <1>2. ReaderTypeOK'
    BY <1>1 DEF ReaderInv, ReaderTypeOK
  <1>3. CursorInv'
    BY <1>1, CursorsKept DEF ReaderInv, CursorInv, Seen, Position
  <1>4. ExtractorInv' /\ HolderInv' /\ TurnInv'
    BY <1>1, UnreadKept DEF ReaderInv, ExtractorInv, HolderInv, TurnInv, MutexFree, First
  <1> QED
    BY <1>1, <1>2, <1>3, <1>4 DEF ReaderInv, Source!sourceVars

LEMMA ReaderSteps ==
  ASSUME ReaderInv, [Next]_vars
  PROVE  ReaderInv' /\ [Source!SourceNext]_Source!sourceVars
  <1>1. ASSUME NEW t \in Tracks, TrackStep(t)
        PROVE  ReaderInv' /\ [Source!SourceNext]_Source!sourceVars
    BY <1>1, WaitStep, EndOfStreamStep, InfoInTurnStep, ReadInTurnStep, AdvanceTrackStep,
       MoveAtOnceStep, MoveAheadStep, MoveToSampleStep DEF TrackStep
  <1>2. ASSUME Switch
        PROVE  ReaderInv' /\ [Source!SourceNext]_Source!sourceVars
    BY <1>2, SetFreeStep, SetSequentialStep, BeginSequentialStep, PlaceExtractorStep DEF Switch
  <1>3. ASSUME UNCHANGED vars
        PROVE  ReaderInv' /\ [Source!SourceNext]_Source!sourceVars
    BY <1>3, ReaderStutters
  <1> QED
    BY <1>1, <1>2, <1>3 DEF Next

\* The cursors of the tracks, the position of the extractor and the thread that
\* holds mExtractorMutex fit together, whatever the threads do.
THEOREM ReaderStateIsKept == Spec => []ReaderInv
  <1>1. Init => ReaderInv
    BY ReaderStarts
  <1>2. ReaderInv /\ [Next]_vars => ReaderInv'
    BY ReaderSteps
  <1> QED
    BY <1>1, <1>2, PTL DEF Spec

\* No position, cursor or switch count leaves its range: the extractor never
\* comes to stand before the first sample.
THEOREM ReaderTypesAreKept == Spec => []ReaderTypeOK
  <1>1. ReaderInv => ReaderTypeOK
    BY DEF ReaderInv
  <1> QED
    BY <1>1, ReaderStateIsKept, PTL

\* MediaSampleReaderNDK implements the sample source: with one extractor that is
\* moved about for all tracks, each track is still given its own samples in file
\* order, each once, in its turn while access is sequential, and END_OF_STREAM
\* only as the source promises.
THEOREM ReaderIsASource == Spec => SourceImplemented
  <1>1. Init => Source!SourceInit
    BY ReaderStarts
  <1>2. ReaderInv /\ [Next]_vars => [Source!SourceNext]_Source!sourceVars
    BY ReaderSteps
  <1> QED
    BY <1>1, <1>2, ReaderStateIsKept, PTL DEF Spec, SourceImplemented, Source!SourceSpec
=============================================================================
