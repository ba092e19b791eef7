------------------------------- MODULE Totals -------------------------------
(***************************************************************************)
(* The sum of a sequence of sizes: what the byte accounts of the two       *)
(* pipelines (queued_bytes of PipelineContextSender and of                 *)
(* PipelineContextReceiver) are to hold.                                   *)
(***************************************************************************)
EXTENDS Integers, Sequences

Total(s) ==
    LET sum[i \in 0..Len(s)] == IF i = 0 THEN 0 ELSE sum[i - 1] + s[i]
    IN  sum[Len(s)]

\* The sizes stay within a limit; one that is above it may only be there alone,
\* next to nothing but empty ones.
Within(s, limit) == Total(s) <= limit \/ \E i \in DOMAIN s : s[i] = Total(s)
=============================================================================
