--------------------------- MODULE MCSampleReader ---------------------------
(***************************************************************************)
(* Instance of SampleReader: every file of at most MaxSamples samples.     *)
(***************************************************************************)
EXTENDS SampleReader

CONSTANTS MaxSamples

MCFiles == UNION {[1..n -> Tracks] : n \in 0..MaxSamples}
=============================================================================
