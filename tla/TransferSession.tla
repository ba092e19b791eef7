-------------------------- MODULE TransferSession --------------------------
(***************************************************************************)
(* What one receiving session of the server promises, whatever the number  *)
(* of threads it runs on.  Files are accepted from the stream and stored   *)
(* in the order they were accepted.  Only when every accepted file has     *)
(* been stored and the stream ended well is the session sealed; only a     *)
(* sealed session commits the deferred deletion, publishes the files held  *)
(* back by --delay-updates, and answers the sender with a verdict.         *)
(* A failure at any point is final: nothing is removed, published or       *)
(* acknowledged after it.                                                  *)
(***************************************************************************)
EXTENDS Naturals, Sequences

CONSTANTS
    FileRecord,     \* what a stored entry is described by
    Verdicts        \* the terminal statuses a completed transfer may carry

VARIABLES
    accepted,       \* entries taken from the stream, in order
    stored,         \* entries the disk writer has dealt with, in order
    stage,          \* "streaming", "sealed", "answered" or "failed"
    removed,        \* the deferred (commit) deletion has run
    published,      \* --delay-updates publication: "no", "partial" or "all"
    answer          \* the terminal status sent, or "none"

vars == <<accepted, stored, stage, removed, published, answer>>

Init ==
    /\ accepted = <<>>
    /\ stored = <<>>
    /\ stage = "streaming"
    /\ removed = FALSE
    /\ published = "no"
    /\ answer = "none"

Accept ==
    /\ stage = "streaming"
    /\ Len(accepted') = Len(accepted) + 1
    /\ LET f == accepted'[Len(accepted')]
       IN  f \in FileRecord /\ accepted' = Append(accepted, f)
    /\ UNCHANGED <<stored, stage, removed, published, answer>>

Store ==
    /\ stage = "streaming"
    /\ Len(stored) < Len(accepted)
    /\ stored' = Append(stored, accepted[Len(stored) + 1])
    /\ UNCHANGED <<accepted, stage, removed, published, answer>>

Seal ==
    /\ stage = "streaming"
    /\ stored = accepted
    /\ stage' = "sealed"
    /\ UNCHANGED <<accepted, stored, removed, published, answer>>

\* The deletion runs before the publication, and may fail half way.
Remove ==
    /\ stage = "sealed"
    /\ published = "no"
    /\ removed' = TRUE
    /\ stage' \in {"sealed", "failed"}
    /\ UNCHANGED <<accepted, stored, published, answer>>

\* A publication that breaks off is not rolled back.
Publish ==
    /\ stage = "sealed"
    /\ published = "no"
    /\ \/ published' = "all" /\ stage' = "sealed"
       \/ published' = "partial" /\ stage' = "failed"
    /\ UNCHANGED <<accepted, stored, removed, answer>>

Answer ==
    /\ stage = "sealed"
    /\ stage' = "answered"
    /\ answer' \in Verdicts
    /\ UNCHANGED <<accepted, stored, removed, published>>

Fail ==
    /\ stage \in {"streaming", "sealed"}
    /\ stage' = "failed"
    /\ UNCHANGED <<accepted, stored, removed, published, answer>>

\* A failed session may still tell the sender so.
Refuse ==
    /\ stage = "failed"
    /\ answer = "none"
    /\ answer' = "ERROR_DETAIL"
    /\ UNCHANGED <<accepted, stored, stage, removed, published>>

Next == Accept \/ Store \/ Seal \/ Remove \/ Publish \/ Answer \/ Fail \/ Refuse

Spec == Init /\ [][Next]_vars
=============================================================================
