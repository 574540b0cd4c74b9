-------------------------- MODULE MCMediaTranscoder --------------------------
(***************************************************************************)
(* Instance of MediaTranscoder: a passthrough track and a video track,     *)
(* with files in which either may be the first and the last.               *)
(***************************************************************************)
EXTENDS MediaTranscoder

CONSTANTS p, v

MCFiles == {<<p, p, v>>, <<v, p, v>>, <<v, p>>}
=============================================================================
