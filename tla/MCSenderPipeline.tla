-------------------------- MODULE MCSenderPipeline --------------------------
(* Constants of the runs of SenderPipeline.                                *)
EXTENDS SenderPipeline

\* With the budget of 2: a light chunk, one above the budget, and one without
\* payload that holds a streamed file.
MCWeight == <<1, 3, 0>>
MCLateWeight == <<0, 0, 2>>
=============================================================================
