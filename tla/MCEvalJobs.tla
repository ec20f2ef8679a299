------------------------------ MODULE MCEvalJobs ------------------------------
(* An evaluation job of a few trials, executions and invocations. *)
EXTENDS EvalJobs
=============================================================================
