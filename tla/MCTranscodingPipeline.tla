----------------------- MODULE MCTranscodingPipeline -----------------------
(* TLC instances of TranscodingPipeline. *)
EXTENDS TranscodingPipeline

(* The calls of the last step are an output: no action reads them. *)
StateView == <<schedVars, policyVars, uidHistory, transcoderReady, watchdogVars, lockVars,
               wrapperVars, submitted, moves>>
=============================================================================
