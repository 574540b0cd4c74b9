---------------------------- MODULE SampleSource ----------------------------
(***************************************************************************)
(* What MediaSampleReader.h promises to the threads that read the tracks   *)
(* of one media file: each track gets its own samples, in file order, each *)
(* once.  While sequential access is enforced a track is served only when  *)
(* the next sample of the file is its own.                                 *)
(*                                                                         *)
(* A sample is its position in the file.  got[t] is the last sample that   *)
(* track t has read, 0 if none.  A track thread calls getSampleInfoForTrack*)
(* and readSampleDataForTrack in turn; call[t] is the call that it makes   *)
(* next, or waits in.                                                      *)
(***************************************************************************)
EXTENDS Naturals, Sequences

CONSTANTS Tracks,  \* the selected tracks
          Files    \* the media files: sequences of the tracks of the samples

ASSUME FilesAssumption == Files \subseteq Seq(Tracks)

VARIABLES file,     \* the file, chosen once
          got,      \* the last sample read of each track
          enforce,  \* mEnforceSequentialAccess
          eos,      \* mEosReached: the extractor was moved past the last sample
          call      \* where the thread of each track is

sourceVars == <<file, got, enforce, eos, call>>

Calls == {"info", "infoWait", "read", "readWait", "end", "failed"}

SourceTypeOK ==
  /\ file \in Files
  /\ got \in [Tracks -> Nat]
  /\ enforce \in BOOLEAN
  /\ eos \in BOOLEAN
  /\ call \in [Tracks -> Calls]

Samples == DOMAIN file

SamplesLeft(t) == {i \in Samples : file[i] = t /\ i > got[t]}

\* The samples that no thread has read yet.
Unread == {i \in Samples : i > got[file[i]]}

IsFirst(i, S) == i \in S /\ \A j \in S : i <= j

\* The next sample of the file is one of track t.
HasTurn(t) == \E i \in Unread : IsFirst(i, Unread) /\ file[i] = t

InInfo(t) == call[t] \in {"info", "infoWait"}
InRead(t) == call[t] \in {"read", "readWait"}
Calling(t) == InInfo(t) \/ InRead(t)

\* waitForTrack_l is on the way of this call.
WaitsForTurn(t) == enforce \/ call[t] \in {"infoWait", "readWait"}

MustWait(t) == enforce /\ file # <<>> /\ ~eos /\ ~HasTurn(t)

\* END_OF_STREAM is what the call returns.
SeesEnd(t) ==
  \/ WaitsForTurn(t) /\ eos
  \/ ~enforce /\ SamplesLeft(t) = {}
  \/ file = <<>>

SourceInit ==
  /\ file \in Files
  /\ got = [t \in Tracks |-> 0]
  /\ enforce = FALSE
  /\ eos = FALSE
  /\ call = [t \in Tracks |-> "info"]

\* The call has to wait for its turn.
Wait(t) ==
  /\ call[t] \in {"info", "read"}
  /\ MustWait(t)
  /\ call' = [call EXCEPT ![t] = IF @ = "info" THEN "infoWait" ELSE "readWait"]
  /\ UNCHANGED <<file, got, enforce, eos>>

\* getSampleInfoForTrack finds the next sample of the track.
GetInfo(t) ==
  /\ InInfo(t)
  /\ ~MustWait(t)
  /\ ~SeesEnd(t)
  /\ eos' = FALSE
  /\ call' = [call EXCEPT ![t] = "read"]
  /\ UNCHANGED <<file, got, enforce>>

\* readSampleDataForTrack hands it over and advances the track.
Read(t) ==
  /\ InRead(t)
  /\ ~MustWait(t)
  /\ ~SeesEnd(t)
  /\ \E i \in SamplesLeft(t) :
       /\ IsFirst(i, SamplesLeft(t))
       /\ got' = [got EXCEPT ![t] = i]
       /\ eos' = (enforce /\ Unread = {i})
  /\ call' = [call EXCEPT ![t] = "info"]
  /\ UNCHANGED <<file, enforce>>

\* A call returns END_OF_STREAM: in getSampleInfoForTrack the track is over, in
\* readSampleDataForTrack its thread takes it for an error.
End(t) ==
  /\ Calling(t)
  /\ ~MustWait(t)
  /\ SeesEnd(t)
  /\ eos' = (eos \/ file # <<>>)
  /\ call' = [call EXCEPT ![t] = IF InInfo(t) THEN "end" ELSE "failed"]
  /\ UNCHANGED <<file, got, enforce>>

\* setEnforceSequentialAccess(false).
Lift ==
  /\ enforce' = FALSE
  /\ UNCHANGED <<file, got, eos, call>>

\* Some call has positioned the extractor.
Started == file # <<>> /\ \E t \in Tracks : call[t] # "info" \/ got[t] # 0

\* setEnforceSequentialAccess(true); it fails when all has been read.
Enforce ==
  /\ IF enforce \/ ~Started
       THEN enforce' = TRUE /\ eos' = eos
       ELSE /\ enforce' = (Unread # {})
            /\ eos' = (Unread = {})
  /\ UNCHANGED <<file, got, call>>

TrackStep(t) == Wait(t) \/ GetInfo(t) \/ Read(t) \/ End(t)

SourceNext ==
  \/ \E t \in Tracks : TrackStep(t)
  \/ Lift
  \/ Enforce

SourceSpec == SourceInit /\ [][SourceNext]_sourceVars

\* A thread whose call can return will return from it.
SourceFairness == \A t \in Tracks : WF_sourceVars(TrackStep(t))
=============================================================================
