------------------------------ MODULE Deletion ------------------------------
(***************************************************************************)
(* The receiver's deletions of one transfer: the whole-tree walk of a      *)
(* delete manifest, the per-directory plans of --delete-during and         *)
(* --delete-delay, the exact removals of --delete-missing-args, their      *)
(* order around the storing of the data, and the one --max-delete budget   *)
(* they share.  A walk is a stack of directory frames; every step makes at *)
(* most one change to the destination, and another program may create a    *)
(* file there between two steps.                                           *)
(***************************************************************************)
EXTENDS Integers, Sequences, FiniteSets, Functions

CONSTANTS
    Paths,          \* the paths that may exist: non-empty sequences of names,
                    \* names being integers in byte order
    Sources,        \* source trees: [Paths -> SourceKinds]
    Trees,          \* destination trees at the start: [Paths -> TreeKinds]
    Options,        \* configurations, see Configs
    StageName,      \* the name of the --delay-updates staging directory
    ServerLimit,    \* MAX_SERVER_DELETE_COUNT and DELETE_PLAN_SERVER_LIMIT
    MaxForeign      \* bound: files other programs create during the session

\* "mount": a directory that is transmitted but not traversed (-x, --dirs).
SourceKinds == {"none", "file", "dir", "mount"}
TreeKinds == {"none", "file", "dir"}
Root == <<>>

\* path_at_or_under, and the parts of a path.
AtOrUnder(p, d) == Len(d) <= Len(p) /\ SubSeq(p, 1, Len(d)) = d
Below(p, d) == AtOrUnder(p, d) /\ p # d
Parent(p) == SubSeq(p, 1, Len(p) - 1)
Name(p) == p[Len(p)]

\* A configuration.  "missing" and "force" are the options of the missing
\* arguments; basis, protected, rules and stuck hold the paths of the basis
\* directories, of what the sender excluded, of the receiver's protect rules and
\* of what cannot be unlinked; synced holds the directories that were read.
Configs ==
    [timing : {"before", "after", "during", "delay"},
     use_delete : BOOLEAN, missing_args : BOOLEAN, force : BOOLEAN,
     rehearse : BOOLEAN, delay_updates : BOOLEAN, max_delete : Int,
     basis : SUBSET Paths, protected : SUBSET Paths, rules : SUBSET Paths,
     stuck : SUBSET Paths, scope : {"full", "relative", "files_from"},
     synced : SUBSET (Paths \cup {Root}), missing : Seq(Paths)]

\* A run of the whole tree is scoped to the root.
ASSUME DeletionAssumption ==
    /\ IsFiniteSet(Paths)
    /\ \A p \in Paths : p \in Seq(Int) /\ p # Root /\ (Len(p) > 1 => Parent(p) \in Paths)
    /\ Sources \subseteq [Paths -> SourceKinds] /\ Trees \subseteq [Paths -> TreeKinds]
    /\ \A o \in Options : o \in Configs /\ (o.scope = "full" => o.synced = {Root})
    /\ StageName \in Int /\ ServerLimit \in Nat /\ MaxForeign \in Nat

VARIABLES
    source,         \* what the sender transmits
    opts,           \* the negotiated configuration
    tree,           \* the destination
    todo,           \* jobs of the session that are left
    stack,          \* frames of the running walk, innermost last
    deleted,        \* entries charged to the budget
    deferred,       \* --delete-delay: the snapshot
    limit_hit, ok,
    listed,         \* paths the dry run reported
    removed,        \* history: [path, kind, by] in order
    foreign,        \* files other programs created
    phase           \* "running", "done", "failed"

vars == <<source, opts, tree, todo, stack, deleted, deferred, limit_hit, ok,
          listed, removed, foreign, phase>>
session == <<source, opts>>

IsDirectory(k) == k \in {"dir", "mount"}
Under(p, S) == \E q \in S : AtOrUnder(p, q)
StrictlyUnder(p, S) == \E q \in S : Below(p, q)
DirIn(t, d) == d = Root \/ (d \in Paths /\ t[d] = "dir")
Children(t, d) ==
    {p \in Paths : t[p] # "none" /\ Len(p) = Len(d) + 1 /\ AtOrUnder(p, d)}

\* Among siblings: delete_dir_entry_cmp_desc and delete_dir_entry_cmp_asc.
Greatest(S) == {p \in S : \A q \in S : Name(q) <= Name(p)}
Least(S) == {p \in S : \A q \in S : Name(p) <= Name(q)}
\* Order of the scan: depth first, by name.
ScanOrder(p, q) ==
    \/ Below(q, p)
    \/ \E i \in 1..Len(p) : /\ i <= Len(q) /\ p[i] < q[i]
                            /\ \A j \in 1..(i - 1) : p[j] = q[j]

-----------------------------------------------------------------------------
(* What is kept, what is shielded, what is in scope                        *)

\* The manifest lists the files and the directories without content.
Keeps ==
    {p \in Paths : \/ source[p] \in {"file", "mount"}
                   \/ source[p] = "dir" /\ Children(source, p) = {}}

keep_is_dir(p) == p \in Keeps \/ \E k \in Keeps : Below(k, p)
keep_is_file(p) == p \in Keeps

\* delete_skips_build.  The staging directory is an entry for direct children of
\* the receive root only.
Staging == IF opts.delay_updates THEN {<<StageName>>} ELSE {}
PathUnderSkipPrefix(p, prefixes) ==
    (Len(p) = 1 /\ p \in Staging) \/ Under(p, prefixes)

BadRuleProtects(walk, p) == walk # "list" /\ p \in opts.rules

\* filter_rules_apply_side on the receiver's side of the protect rules.
RuleProtects(walk, p) == p \in opts.rules

\* Whether a walk leaves p alone without looking at the keep-set.  The removal of
\* a missing argument's directory walks it without any protection.
Shielded(walk, p) ==
    /\ walk # "nested"
    /\ \/ PathUnderSkipPrefix(p, opts.basis \cup opts.protected)
       \/ RuleProtects(walk, p)

BadPlanIsAllowed(d) == TRUE

\* plan_is_allowed: the directories a plan may be sent for.
PlanIsAllowed(d) ==
    CASE opts.scope = "full"     -> TRUE
      [] opts.scope = "relative" -> Under(d, opts.synced)
      [] OTHER                   -> d \in opts.synced

\* scanner_record_synced_dir: plan_dirs holds the directories that were read.
Traversed(k) == k = "dir"

\* delete_plan_send_all: the root's plan, then one per traversed directory, in
\* the order of the scan.
PlanDirs ==
    LET dirs == {d \in Paths : Traversed(source[d]) /\ PlanIsAllowed(d)}
    IN  {(IF PlanIsAllowed(Root) THEN <<Root>> ELSE <<>>) \o list :
           list \in {s \in [1..Cardinality(dirs) -> dirs] :
                       \A i, j \in DOMAIN s : i < j => ScanOrder(s[i], s[j])}}

\* A client's --max-delete replaces the server's bound when it is smaller.
Limit ==
    IF opts.max_delete >= 0 /\ opts.max_delete < ServerLimit
      THEN opts.max_delete ELSE ServerLimit

BadBudgetAvailable == deleted + 1 < Limit

BudgetAvailable == deleted < Limit

-----------------------------------------------------------------------------
(* The jobs of a session                                                   *)

Jobs(op, paths) == [i \in 1..Len(paths) |-> [op |-> op, path |-> paths[i]]]

\* --delete-before acts on the manifest before the data, --delete-after and a
\* run without --delete after it; the plans come before the data and
\* --delete-delay commits its snapshot, then the missing arguments, at the end.
\* The publication of --delay-updates follows every deletion.
\* opts.rehearse: the same command was run with --dry-run first.
Agenda(dirs) ==
    LET missing == IF opts.missing_args THEN Jobs("missing", opts.missing) ELSE <<>>
        extras  == IF opts.use_delete THEN Jobs("extras", <<Root>>) ELSE <<>>
        plans   == Jobs("plan", dirs)
        store   == Jobs("store", <<Root>>)
    IN  (IF opts.rehearse THEN Jobs("list", <<Root>>) ELSE <<>>) \o
        (CASE opts.timing = "before" -> missing \o extras \o store
           [] opts.timing = "after"  -> store \o missing \o extras
           [] opts.timing = "during" -> missing \o plans \o store
           [] opts.timing = "delay"  -> plans \o store \o Jobs("commit", <<Root>>) \o missing)
        \o (IF opts.delay_updates THEN Jobs("publish", <<Root>>) ELSE <<>>)

\* The source and the configuration agree: what is missing or excluded is not
\* transmitted; a scoped run transmits what its scope says.
Consistent ==
    /\ \A p \in Paths : source[p] # "none" =>
         /\ Len(p) > 1 => source[Parent(p)] = "dir"
         /\ ~Under(p, opts.protected \cup Range(opts.missing) \cup Staging)
         /\ opts.scope = "relative" =>
              \E w \in opts.synced : AtOrUnder(p, w) \/ AtOrUnder(w, p)
    /\ \A d \in opts.synced \ {Root} : source[d] = "dir"
    /\ opts.scope = "files_from" =>
         \A p \in Paths : source[p] = "dir" /\ Under(p, opts.synced) => p \in opts.synced

Init ==
    /\ source \in Sources /\ tree \in Trees /\ opts \in Options
    /\ Consistent
    /\ \E dirs \in PlanDirs : todo = Agenda(dirs)
    /\ stack = <<>> /\ deleted = 0 /\ deferred = <<>> /\ limit_hit = FALSE /\ ok = TRUE
    /\ listed = <<>> /\ removed = <<>> /\ foreign = {} /\ phase = "running"

-----------------------------------------------------------------------------
(* Walking a directory                                                     *)

\* delete_plan_sender_add: the keep lists of the plan of p's directory.
InKeepDirs(p) == IsDirectory(source[p])
InKeepFiles(p) == source[p] = "file"

\* Sequential frames of delete_walk_fd ("extras", "list", "nested") and of
\* process_children ("plan").  keeps: the frame has a plan's keep lists; force:
\* remove now even under --delete-delay; extra: the directory is itself to go.
IsExtra(f, p) ==
    CASE f.walk = "nested" -> TRUE
      [] f.walk = "plan"   -> f.keeps => (IF tree[p] = "dir" THEN ~InKeepDirs(p) ELSE ~InKeepFiles(p))
      [] OTHER -> /\ f.deletable
                  /\ IF tree[p] = "dir" THEN p \notin opts.synced /\ ~keep_is_dir(p)
                                        ELSE ~keep_is_file(p)

BadKeptDirs(walk, dirs) == {}

\* Pass 3 of delete_walk_fd; a kept directory gets a plan of its own otherwise.
KeptDirs(walk, dirs) == IF walk = "plan" THEN {} ELSE dirs

\* The classification at the head of both walkers.
Frame(f) ==
    LET open  == {p \in Children(tree, f.dir) : ~Shielded(f.walk, p)}
        extra == {p \in open : IsExtra(f, p)}
        dirs  == {p \in open : tree[p] = "dir"}
    IN  [walk |-> f.walk, dir |-> f.dir, deletable |-> f.deletable, keeps |-> f.keeps,
         force |-> f.force, extra |-> f.extra,
         dirs |-> extra \cap dirs, files |-> extra \ dirs,
         kept |-> KeptDirs(f.walk, dirs \ extra),
         survives |-> extra # Children(tree, f.dir)]

\* The frame of a walk's first directory.
BaseFrame(walk, d) ==
    Frame([walk |-> walk, dir |-> d, keeps |-> walk = "plan", force |-> FALSE,
           deletable |-> walk = "nested" \/ d \in opts.synced, extra |-> FALSE])

\* Children of a type the source does not have there block the data.
Forced(f, p) == f.force \/ (f.keeps /\ (InKeepDirs(p) \/ InKeepFiles(p)))

ChildFrame(f, p, extra) ==
    Frame([walk |-> f.walk, dir |-> p, keeps |-> FALSE, force |-> Forced(f, p),
           deletable |-> f.deletable \/ p \in opts.synced, extra |-> extra])

\* What becomes of an extra entry when its turn comes.
Outcome(walk, force, p) ==
    IF walk = "list" THEN "listed"
    ELSE IF walk = "plan" /\ opts.timing = "delay" /\ ~force
      THEN IF Len(deferred) < ServerLimit THEN "deferred" ELSE "capped"
    ELSE IF ~BudgetAvailable THEN "limit"
    ELSE IF p \in opts.stuck THEN "stuck"                      \* EACCES, EIO
    ELSE IF tree[p] = "dir" /\ Children(tree, p) # {} THEN "notempty"
    ELSE "removed"

RemoveEntry(p) ==
    /\ tree' = [q \in Paths |-> IF AtOrUnder(q, p) THEN "none" ELSE tree[q]]
    /\ removed' = Append(removed, [path |-> p, kind |-> tree[p], by |-> Head(todo).op])
    /\ deleted' = deleted + 1

Apply(outcome, p) ==
    /\ IF outcome = "removed" THEN RemoveEntry(p) ELSE UNCHANGED <<tree, removed, deleted>>
    /\ listed' = IF outcome = "listed" THEN Append(listed, p) ELSE listed
    /\ deferred' = IF outcome = "deferred" THEN Append(deferred, p) ELSE deferred
    /\ limit_hit' = (limit_hit \/ outcome \in {"limit", "capped"})
    /\ ok' = (ok /\ outcome # "stuck")

\* Whether the directory that holds the entry must stay.  A plan's walk finds the
\* budget spent again when it comes to the directory of a file it skipped.
Survives(outcome, walk, kind) ==
    \/ outcome \in {"stuck", "notempty"}
    \/ outcome = "limit" /\ (kind = "dir" \/ walk # "plan")

Top == stack[Len(stack)]

\* Pass 1 for one extra subdirectory: its contents first.
EnterExtraDir ==
    /\ stack # <<>> /\ Top.dirs # {}
    /\ \E p \in Greatest(Top.dirs) :
          stack' = Append([stack EXCEPT ![Len(stack)].dirs = @ \ {p}], ChildFrame(Top, p, TRUE))
    /\ UNCHANGED <<session, tree, todo, deleted, deferred, limit_hit, ok, listed,
                   removed, foreign, phase>>

\* Pass 2 for one extra file.
RemoveExtraFile ==
    /\ stack # <<>> /\ Top.dirs = {} /\ Top.files # {}
    /\ \E p \in Greatest(Top.files) :
         LET outcome == Outcome(Top.walk, Forced(Top, p), p)
         IN  /\ Apply(outcome, p)
             /\ stack' = [stack EXCEPT ![Len(stack)] =
                    [Top EXCEPT !.files = @ \ {p},
                                !.survives = @ \/ Survives(outcome, Top.walk, "file")]]
    /\ UNCHANGED <<session, todo, foreign, phase>>

\* Pass 3 for one kept subdirectory.
EnterKeptDir ==
    /\ stack # <<>> /\ Top.dirs = {} /\ Top.files = {} /\ Top.kept # {}
    /\ \E p \in Least(Top.kept) :
          stack' = Append([stack EXCEPT ![Len(stack)].kept = @ \ {p}], ChildFrame(Top, p, FALSE))
    /\ UNCHANGED <<session, tree, todo, deleted, deferred, limit_hit, ok, listed,
                   removed, foreign, phase>>

\* The end of a directory: it goes too when it is an extra and nothing in it
\* stays.  The directory of a missing argument is removed as a tree.
LeaveDir ==
    /\ stack # <<>> /\ Top.dirs = {} /\ Top.files = {} /\ Top.kept = {}
    /\ LET p == Top.dir
           last == Len(stack) = 1
           outcome ==
             IF last /\ Top.walk = "nested"
               THEN IF ~ok THEN "stuck" ELSE IF ~BudgetAvailable THEN "limit"
                    ELSE IF p \in opts.stuck THEN "stuck" ELSE "removed"
             ELSE IF Top.extra /\ ~Top.survives THEN Outcome(Top.walk, Top.force, p)
             ELSE "kept"
           stays == outcome = "kept" \/ Survives(outcome, Top.walk, "dir")
       IN  /\ Apply(outcome, p)
           /\ IF last
                THEN /\ stack' = <<>> /\ todo' = Tail(todo)
                     /\ phase' = IF ok' THEN phase ELSE "failed"
                ELSE /\ stack' = [SubSeq(stack, 1, Len(stack) - 1) EXCEPT ![Len(stack) - 1].survives = @ \/ stays]
                     /\ UNCHANGED <<todo, phase>>
    /\ UNCHANGED <<session, foreign>>

-----------------------------------------------------------------------------
(* The jobs                                                                *)

Job(op) == phase = "running" /\ stack = <<>> /\ todo # <<>> /\ Head(todo).op = op

\* delete_extras_limited_observed, and delete_extras_list for the dry run.
StartWalk ==
    /\ \E op \in {"extras", "list"} :
         /\ Job(op)
         /\ stack' = <<BaseFrame(op, Root)>>
    /\ UNCHANGED <<session, tree, todo, deleted, deferred, limit_hit, ok, listed,
                   removed, foreign, phase>>

\* apply_plan_dir: an absent destination directory has nothing to delete.
ApplyPlan ==
    /\ Job("plan")
    /\ IF DirIn(tree, Head(todo).path)
         THEN stack' = <<BaseFrame("plan", Head(todo).path)>> /\ UNCHANGED todo
         ELSE todo' = Tail(todo) /\ UNCHANGED stack
    /\ UNCHANGED <<session, tree, deleted, deferred, limit_hit, ok, listed, removed,
                   foreign, phase>>

\* One iteration of delete_missing_args_budgeted_observed.
DeleteMissingArg ==
    /\ Job("missing")
    /\ LET p == Head(todo).path
           outcome ==
             IF PathUnderSkipPrefix(p, opts.basis) \/ tree[p] = "none" THEN "kept"
             ELSE IF ~BudgetAvailable THEN "limit"
             ELSE IF tree[p] = "dir" /\ Children(tree, p) # {}
               THEN IF opts.use_delete \/ opts.force THEN "walk" ELSE "kept"
             ELSE IF p \in opts.stuck THEN "stuck"
             ELSE "removed"
       IN  /\ Apply(outcome, p)
           /\ IF outcome = "walk"
                THEN stack' = <<BaseFrame("nested", p)>> /\ UNCHANGED todo
                ELSE todo' = Tail(todo) /\ UNCHANGED stack
           /\ phase' = IF ok' THEN phase ELSE "failed"
    /\ UNCHANGED <<session, foreign>>

\* delete_plan_session_commit goes through the snapshot.
StartCommit ==
    /\ Job("commit")
    /\ todo' = Jobs("deferred", deferred) \o Tail(todo)
    /\ UNCHANGED <<session, tree, stack, deleted, deferred, limit_hit, ok, listed,
                   removed, foreign, phase>>

\* apply_deferred_path: a directory is walked again, all of it being extra now.
ApplyDeferredPath ==
    /\ Job("deferred")
    /\ LET p == Head(todo).path
           outcome ==
             IF tree[p] = "none" THEN "kept"
             ELSE IF ~BudgetAvailable THEN "limit"
             ELSE IF tree[p] = "dir" THEN "walk"
             ELSE Outcome("plan", TRUE, p)
       IN  /\ Apply(outcome, p)
           /\ IF outcome = "walk"
                THEN /\ stack' = <<Frame([walk |-> "plan", dir |-> p, keeps |-> FALSE,
                             force |-> TRUE, deletable |-> TRUE, extra |-> TRUE])>>
                     /\ UNCHANGED todo
                ELSE todo' = Tail(todo) /\ UNCHANGED stack
           /\ phase' = IF ok' THEN phase ELSE "failed"
    /\ UNCHANGED <<session, foreign>>

\* The data of the transfer is stored; under --delay-updates the files are only
\* staged, and published at the end.  An entry's directories are made on the way.
\* A file replaces a directory only with --force, which removes that tree; a
\* directory never replaces a file.
StoreSource ==
    /\ \E op \in {"store", "publish"} :
         LET stored == {p \in Keeps : /\ op = "publish" => source[p] = "file"
                                      /\ op = "store" /\ opts.delay_updates =>
                                           IsDirectory(source[p])}
             made == {p \in Paths : \E q \in stored : AtOrUnder(q, p)}
             files == {p \in stored : source[p] = "file"}
             blocked == \/ \E p \in files : tree[p] = "dir" /\ ~opts.force
                        \/ \E p \in made \ files : tree[p] = "file"
         IN  /\ Job(op)
             /\ IF blocked
                  THEN phase' = "failed" /\ UNCHANGED <<tree, todo>>
                  ELSE /\ tree' = [p \in Paths |->
                             IF p \in files THEN "file"
                             ELSE IF p \in made THEN "dir"
                             ELSE IF StrictlyUnder(p, files) THEN "none"
                             ELSE tree[p]]
                       /\ todo' = Tail(todo) /\ UNCHANGED phase
    /\ UNCHANGED <<session, stack, deleted, deferred, limit_hit, ok, listed, removed, foreign>>

Finish ==
    /\ phase = "running" /\ todo = <<>>
    /\ phase' = "done"
    /\ UNCHANGED <<session, tree, todo, stack, deleted, deferred, limit_hit, ok,
                   listed, removed, foreign>>

\* Another program creates a file in the destination.
ForeignCreate(p) ==
    /\ phase = "running" /\ Cardinality(foreign) < MaxForeign
    /\ tree[p] = "none" /\ DirIn(tree, Parent(p))
    /\ tree' = [tree EXCEPT ![p] = "file"] /\ foreign' = foreign \cup {p}
    /\ UNCHANGED <<session, todo, stack, deleted, deferred, limit_hit, ok, listed,
                   removed, phase>>

Over == phase # "running" /\ UNCHANGED vars

Next ==
    \/ StartWalk \/ ApplyPlan \/ DeleteMissingArg \/ StartCommit \/ ApplyDeferredPath
    \/ StoreSource \/ EnterExtraDir \/ RemoveExtraFile \/ EnterKeptDir \/ LeaveDir
    \/ Finish \/ Over
    \/ \E p \in Paths : ForeignCreate(p)

Spec == Init /\ [][Next]_vars

-----------------------------------------------------------------------------
(* Properties                                                              *)

\* The type of every variable; the budget is never overdrawn past the server's
\* bound.
TypeOK ==
    /\ source \in [Paths -> SourceKinds] /\ tree \in [Paths -> TreeKinds]
    /\ opts \in Configs
    /\ deleted \in 0..ServerLimit
    /\ deferred \in Seq(Paths) /\ Len(deferred) <= ServerLimit
    /\ listed \in Seq(Paths) /\ foreign \subseteq Paths
    /\ limit_hit \in BOOLEAN /\ ok \in BOOLEAN
    /\ phase \in {"running", "done", "failed"}

Removals == Range(removed)
Unforeseen == foreign # {}

\* Entries no walk for extras may remove: below the staging directory, a basis
\* directory or an excluded source path, matched by a protect rule, or inside an
\* extra directory that a rule protects.
MustSurvive(p) ==
    \/ Under(p, Staging \cup opts.basis \cup opts.protected) \/ p \in opts.rules
    \/ \E d \in opts.rules : Below(p, d) /\ source[d] = "none"

InScope(p) == IF opts.scope = "files_from"
                THEN StrictlyUnder(p, opts.synced)
                ELSE StrictlyUnder(p, opts.synced) \/ Root \in opts.synced

\* No deletion of any timing removes an entry the source has, before the data is
\* stored or after it, nor a directory on the way to such an entry; and only an
\* explicit missing argument removes what is shielded (delete_walk_fd,
\* process_children, the commit of the snapshot) or lies outside the directories
\* that a --files-from or -R run synchronized.
ProtectedSurvive ==
    \A r \in Removals :
      /\ IF r.kind = "dir" THEN ~IsDirectory(source[r.path]) ELSE source[r.path] # "file"
      /\ r.by # "missing" => ~MustSurvive(r.path) /\ InScope(r.path)

\* --max-delete bounds the removals that all phases of a session make together
\* (the tree of a missing argument, emptied by then, counts as one), and "rsync
\* deletes up to the bound and skips the rest": a finished session that reports
\* the limit has spent all of the budget.
DeleteBudgetHonoured ==
    /\ Len(removed) <= Limit
    /\ phase = "done" /\ limit_hit /\ ~Unforeseen => deleted = Limit

\* A finished --delete run that does not report the limit has left no extra
\* behind, except what was shielded, what appeared meanwhile, and the
\* directories those keep in existence.
ExtrasGone ==
    LET spared(p) == MustSurvive(p) \/ Under(p, opts.rules) \/ p \in foreign
    IN  phase = "done" /\ opts.use_delete /\ ~limit_hit =>
          \A p \in Paths : tree[p] # "none" /\ source[p] = "none" /\ InScope(p) =>
            \/ spared(p)
            \/ \E q \in Paths : /\ Below(q, p) /\ spared(q)
                                /\ tree[q] # "none" \/ q \in foreign
            \/ \E d \in Paths : source[d] = "mount" /\ Below(p, d)

\* delete.c: listing and deleting "classify and traverse identically, so the
\* dry-run enumeration and the real deletion cannot drift": a run that follows
\* its dry run removes what was listed, in that order, whatever its timing.
DryRunNeverDrifts ==
    /\ phase = "done" /\ opts.rehearse /\ ~limit_hit /\ ~Unforeseen
    /\ \A r \in Removals : source[r.path] = "none"
    => [i \in 1..Len(removed) |-> removed[i].path] = listed

\* The same for a transfer that traverses every directory it transmits.
DryRunForetells ==
    (\A p \in Paths : source[p] # "mount") => DryRunNeverDrifts
=============================================================================
