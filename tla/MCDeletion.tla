----------------------------- MODULE MCDeletion -----------------------------
(* The trees and configurations of the run of Deletion.                    *)
EXTENDS Deletion, TLC

\* Two directories at the top, three names below them, one directory deeper.
MCPaths == {<<1>>, <<2>>, <<1, 1>>, <<1, 2>>, <<2, 1>>}

WellFormed(t) == \A p \in MCPaths : t[p] # "none" /\ Len(p) > 1 => t[Parent(p)] = "dir"

MCTrees == {t \in [MCPaths -> TreeKinds] : WellFormed(t) /\ t[<<2, 1>>] # "dir"}

\* Files at both depths, an empty directory, a mount point, nothing at all.
Src(a, b, aa, ab, ba) ==
    (<<1>> :> a) @@ (<<2>> :> b) @@ (<<1, 1>> :> aa) @@ (<<1, 2>> :> ab) @@ (<<2, 1>> :> ba)
MCSources ==
    {Src("dir", "none", "file", "none", "none"), Src("dir", "file", "none", "none", "none"),
     Src("file", "dir", "none", "none", "file"), Src("dir", "none", "dir", "none", "none"),
     Src("mount", "none", "none", "none", "none"), Src("none", "none", "none", "none", "none")}

Base == [timing |-> "after", use_delete |-> TRUE, missing_args |-> FALSE,
         force |-> FALSE, rehearse |-> FALSE, delay_updates |-> FALSE,
         max_delete |-> -1, basis |-> {}, protected |-> {}, rules |-> {},
         stuck |-> {}, scope |-> "full", synced |-> {Root}, missing |-> <<>>]

Timings == {"before", "after", "during", "delay"}
AtEachTiming(variants) == {[o EXCEPT !.timing = t] : o \in variants, t \in Timings}

MCOptions ==
    AtEachTiming(
      {[Base EXCEPT !.max_delete = n] : n \in 0..2} \cup
      {[Base EXCEPT !.rehearse = TRUE],
       [Base EXCEPT !.force = TRUE],
       [Base EXCEPT !.delay_updates = TRUE],
       [Base EXCEPT !.protected = {<<1, 2>>}, !.rehearse = TRUE],
       [Base EXCEPT !.basis = {<<2>>}],
       [Base EXCEPT !.rules = {<<1, 1>>}, !.rehearse = TRUE],
       [Base EXCEPT !.rules = {<<1>>}],
       [Base EXCEPT !.stuck = {<<1, 1>>}],
       [Base EXCEPT !.scope = "relative", !.synced = {<<1>>}],
       [Base EXCEPT !.scope = "files_from", !.synced = {<<1>>}],
       [Base EXCEPT !.missing_args = TRUE, !.missing = <<<<2>>, <<1, 2>>>>],
       [Base EXCEPT !.missing_args = TRUE, !.missing = <<<<2>>, <<1>>>>, !.max_delete = 2]}) \cup
    {[Base EXCEPT !.use_delete = FALSE, !.missing_args = TRUE, !.force = f,
                  !.missing = <<<<1>>, <<2, 1>>>>, !.stuck = s] :
       f \in BOOLEAN, s \in {{}, {<<1>>}, {<<1, 2>>}}}
=============================================================================
