--------------------------- MODULE Deletion_proofs ---------------------------
(***************************************************************************)
(* Theorems about Deletion, for every set of paths, source, destination    *)
(* tree and configuration: what is protected survives (WalkInv) and the    *)
(* budget of --max-delete is kept (BudgetInv).                             *)
(***************************************************************************)
EXTENDS Deletion, Totals_proofs, FiniteSetTheorems

\* A leaf that names no prover is for the SMT solver, which has a minute for it.
USE SMTT(60)

---------------------------------------------------------------------------
(* The invariant. *)

Dirs == Paths \cup {Root}
Walks == {"extras", "list", "nested", "plan"}
Ops == {"extras", "list", "missing", "plan", "deferred", "store", "commit", "publish"}

Records == [path : Paths, kind : TreeKinds, by : Ops]

\* p is an entry of the directory d.
Entry(d, p) == Len(p) = Len(d) + 1 /\ AtOrUnder(p, d)

\* No walk for extras is stopped on the way down to d.
Clear(d) == ~Under(d, Staging) /\ \A r \in opts.rules : AtOrUnder(d, r) => source[r] # "none"

\* What a walk may remove: something the source has not got, and, but for a
\* missing argument, nothing that is shielded or out of scope.
Doomed(walk, p, kind) ==
    /\ IF kind = "dir" THEN ~IsDirectory(source[p]) ELSE source[p] # "file"
    /\ walk # "nested" => ~MustSurvive(p) /\ StrictlyUnder(p, opts.synced)

\* What is known of the directory of a frame.
Seed(walk, d, keeps, force, deletable, extra) ==
    /\ walk \in Walks /\ d \in Dirs
    /\ keeps \in BOOLEAN /\ force \in BOOLEAN /\ deletable \in BOOLEAN /\ extra \in BOOLEAN
    /\ IF walk = "nested" THEN Under(d, Range(opts.missing)) ELSE Clear(d)
    /\ walk = "plan" \/ (deletable /\ walk # "nested") => Under(d, opts.synced)
    /\ walk = "plan" /\ ~keeps => d \in Paths /\ ~IsDirectory(source[d])
    /\ extra => d \in Paths /\ tree[d] = "dir" /\ Doomed(walk, d, "dir")
    /\ extra /\ walk = "plan" /\ ~force => source[d] = "none"

\* What is known of an entry of it that waits for its turn.
Waiting(walk, d, p, kind) ==
    /\ p \in Paths /\ Entry(d, p) /\ tree[p] = kind
    /\ walk # "nested" => Clear(p)
    /\ Doomed(walk, p, kind)

\* A frame, and a sound one.
Frames ==
    [walk : Walks, dir : Dirs, deletable : BOOLEAN, keeps : BOOLEAN, force : BOOLEAN,
     extra : BOOLEAN, dirs : SUBSET Paths, files : SUBSET Paths, kept : SUBSET Paths,
     survives : BOOLEAN]
FrameSound(f) ==
    /\ Seed(f.walk, f.dir, f.keeps, f.force, f.deletable, f.extra)
    /\ \A p \in f.dirs : Waiting(f.walk, f.dir, p, "dir")
    /\ \A p \in f.files : Waiting(f.walk, f.dir, p, "file")
    /\ \A p \in f.kept : Entry(f.dir, p) /\ f.walk # "plan" /\ (f.walk # "nested" => Clear(p))
SoundFrames == {f \in Frames : FrameSound(f)}

\* What --delete-delay may put off.
Deferrable(p) == source[p] = "none" /\ Clear(p) /\ Doomed("plan", p, "file")
Deferrables == {p \in Paths : Deferrable(p)}

\* A job: a plan is for a directory of the source in scope.
JobSound(j) ==
    /\ j.op = "missing" => j.path \in Range(opts.missing)
    /\ j.op = "plan" => Under(j.path, opts.synced) /\ (j.path # Root => source[j.path] = "dir")
    /\ j.op = "deferred" => j.path \in Deferrables
SoundJobs == {j \in [op : Ops, path : Dirs] : JobSound(j)}

\* The directories of the frames lie deeper and deeper, none of them in line
\* itself.
Nested(s) ==
    \A i, j \in 1..Len(s) : i < j =>
      Len(s[i].dir) < Len(s[j].dir) /\ s[j].dir \notin s[i].dirs /\ s[j].dir \notin s[i].files

Setting ==
    /\ source \in [Paths -> SourceKinds] /\ opts \in Configs /\ opts \in Options
    /\ Consistent

\* The walk under way belongs to the first job; only a missing argument's is
\* "nested".
WalkInv ==
    /\ Setting
    /\ tree \in [Paths -> TreeKinds]
    /\ todo \in Seq(SoundJobs) /\ deferred \in Seq(Deferrables) /\ stack \in Seq(SoundFrames)
    /\ Nested(stack)
    /\ stack # <<>> => todo # <<>> /\ \A i \in 1..Len(stack) : stack[i].walk = "nested" => Head(todo).op = "missing"
    /\ removed \in Seq(Records)
    /\ ProtectedSurvive

---------------------------------------------------------------------------
(* Paths. *)

Path == Seq(Int)

\* Every path, and the root, is a sequence of names.
LEMMA PathsArePaths ==
    /\ \A d \in Dirs : d \in Path /\ Len(d) \in Nat
    /\ \A p \in Paths : p \in Path /\ p \in Dirs /\ Len(p) > 0 /\ (Len(p) > 1 => Parent(p) \in Paths)
    /\ Root \in Path /\ Len(Root) = 0
<1>1. \A p \in Paths : p \in Path /\ p # <<>> /\ (Len(p) > 1 => Parent(p) \in Paths)
  BY DeletionAssumption, Zenon DEF Path, Root
<1>2. \A p \in Path : Len(p) \in Nat /\ (p # <<>> => Len(p) > 0)
  BY DEF Path
<1>3. <<>> \in Path /\ Len(<<>>) = 0
  BY DEF Path
<1> QED BY <1>1, <1>2, <1>3, Zenon DEF Dirs, Root

\* What it is to lie at or under a directory.
LEMMA UnderIs ==
    \A p, d \in Path : AtOrUnder(p, d) <=> Len(d) <= Len(p) /\ \A i \in 1..Len(d) : p[i] = d[i]
<1> SUFFICES ASSUME NEW p \in Path, NEW d \in Path
             PROVE  AtOrUnder(p, d) <=> Len(d) <= Len(p) /\ \A i \in 1..Len(d) : p[i] = d[i]
  BY Zenon
<1>1. Len(p) \in Nat /\ Len(d) \in Nat
  BY DEF Path
<1>2. CASE Len(d) <= Len(p)
  <2>1. /\ SubSeq(p, 1, Len(d)) \in Path /\ Len(SubSeq(p, 1, Len(d))) = Len(d)
        /\ \A i \in 1..Len(d) : SubSeq(p, 1, Len(d))[i] = p[i]
    BY <1>1, <1>2 DEF Path
  <2>2. SubSeq(p, 1, Len(d)) = d <=> \A i \in 1..Len(d) : p[i] = d[i]
    BY <2>1, SeqEqual DEF Path
  <2> QED BY <1>2, <2>2, Zenon DEF AtOrUnder
<1>3. CASE ~(Len(d) <= Len(p))
  BY <1>3, Zenon DEF AtOrUnder
<1> QED BY <1>2, <1>3, Zenon

\* It is an order, with the root above everything.
LEMMA UnderOrder ==
    /\ \A p \in Path : AtOrUnder(p, p) /\ AtOrUnder(p, Root)
    /\ \A p, q, r \in Path : AtOrUnder(p, q) /\ AtOrUnder(q, r) => AtOrUnder(p, r)
    /\ \A p, q \in Path : AtOrUnder(p, q) => Len(q) <= Len(p) /\ (Len(p) = Len(q) => p = q)
<1>1. Root \in Path /\ Len(Root) = 0 /\ \A p \in Path : Len(p) \in Nat
  BY PathsArePaths DEF Path
<1>2. \A p \in Path : AtOrUnder(p, p) /\ AtOrUnder(p, Root)
  BY <1>1, UnderIs
<1>3. ASSUME NEW p \in Path, NEW q \in Path, NEW r \in Path, AtOrUnder(p, q), AtOrUnder(q, r)
      PROVE  AtOrUnder(p, r)
  <2>1. Len(q) <= Len(p) /\ Len(r) <= Len(q) /\ Len(p) \in Nat /\ Len(q) \in Nat /\ Len(r) \in Nat
    BY <1>1, <1>3, UnderIs, Zenon
  <2>2. Len(r) <= Len(p) /\ \A i \in 1..Len(r) : i \in 1..Len(q)
    BY <2>1
  <2>3. \A i \in 1..Len(q) : p[i] = q[i]
    BY <1>3, UnderIs, Zenon
  <2>4. \A i \in 1..Len(r) : q[i] = r[i]
    BY <1>3, UnderIs, Zenon
  <2>5. \A i \in 1..Len(r) : p[i] = r[i]
    BY <2>2, <2>3, <2>4, Zenon
  <2> QED BY <2>2, <2>5, UnderIs, Zenon
<1>4. ASSUME NEW p \in Path, NEW q \in Path, AtOrUnder(p, q)
      PROVE  Len(q) <= Len(p) /\ (Len(p) = Len(q) => p = q)
  <2>1. Len(q) <= Len(p) /\ \A i \in 1..Len(q) : p[i] = q[i]
    BY <1>4, UnderIs, Zenon
  <2> QED BY <2>1, SeqEqual, Zenon DEF Path
<1> QED BY <1>2, <1>3, <1>4, Zenon

\* What is above an entry is the entry or above its directory.
LEMMA EntryIs ==
    \A d, p \in Path : Entry(d, p) =>
      /\ AtOrUnder(p, d) /\ Len(d) < Len(p) /\ p # d /\ Parent(p) = d
      /\ \A q \in Path : AtOrUnder(p, q) => q = p \/ AtOrUnder(d, q)
<1> SUFFICES ASSUME NEW d \in Path, NEW p \in Path, Entry(d, p)
             PROVE  /\ AtOrUnder(p, d) /\ Len(d) < Len(p) /\ p # d /\ Parent(p) = d
                    /\ \A q \in Path : AtOrUnder(p, q) => q = p \/ AtOrUnder(d, q)
  BY Zenon
<1>1. AtOrUnder(p, d) /\ Len(p) = Len(d) + 1 /\ Len(d) \in Nat /\ Len(p) \in Nat
  BY DEF Entry, Path
<1>2. SubSeq(p, 1, Len(d)) = d /\ Len(p) - 1 = Len(d)
  BY <1>1 DEF AtOrUnder
<1>3. Parent(p) = d
  BY <1>2, Zenon DEF Parent
<1>4. ASSUME NEW q \in Path, AtOrUnder(p, q), q # p PROVE AtOrUnder(d, q)
  <2>1. Len(q) \in Nat /\ Len(q) <= Len(p) /\ \A i \in 1..Len(q) : p[i] = q[i]
    BY <1>4, UnderIs DEF Path
  <2>2. Len(q) # Len(p)
    BY <1>4, UnderOrder, Zenon
  <2>3. Len(q) <= Len(d) /\ \A i \in 1..Len(q) : i \in 1..Len(d)
    BY <1>1, <2>1, <2>2
  <2>4. \A i \in 1..Len(d) : p[i] = d[i]
    BY <1>1, UnderIs, Zenon
  <2>5. \A i \in 1..Len(q) : d[i] = q[i]
    BY <2>1, <2>3, <2>4, Zenon
  <2> QED BY <2>3, <2>5, UnderIs, Zenon
<1>5. Len(d) < Len(p)
  BY <1>1
<1> QED BY <1>1, <1>3, <1>4, <1>5

---------------------------------------------------------------------------
(* The source. *)

\* Whatever is above an entry of the source is in the source, a directory.
LEMMA Ancestors ==
    ASSUME Setting, NEW r \in Paths, NEW p \in Paths, source[p] # "none", AtOrUnder(p, r)
    PROVE  source[r] # "none"
<1> SUFFICES ASSUME source[r] = "none" PROVE FALSE
  BY Zenon
<1> DEFINE Bad == {q \in Paths : source[q] # "none" /\ AtOrUnder(q, r)}
           T == {Len(q) : q \in Bad}
<1>1. T \in SUBSET Nat /\ T # {}
  BY PathsArePaths, Zenon
<1>2. PICK n \in T : \A m \in T : n <= m
  BY <1>1, LeastMember, Zenon
<1>3. PICK q \in Bad : n = Len(q)
  BY <1>2, Zenon
<1> DEFINE d == Parent(q)
<1>4. q \in Path /\ r \in Path /\ q # r /\ Len(q) \in Nat /\ Len(r) \in Nat /\ Len(r) > 0
  BY <1>3, PathsArePaths, Zenon
<1>5. Len(r) < Len(q)
  <2>1. Len(r) <= Len(q) /\ Len(q) # Len(r)
    BY <1>3, <1>4, UnderOrder, Zenon
  <2> QED BY <1>4, <2>1
<1>6. Len(q) > 1
  BY <1>4, <1>5
<1>7. d \in Paths /\ source[d] = "dir"
  BY <1>3, <1>6, PathsArePaths, Zenon DEF Setting, Consistent
<1>8. Entry(d, q)
  BY <1>4, <1>6 DEF Entry, Parent, AtOrUnder, Path
<1> HIDE DEF d
<1>9. AtOrUnder(d, r) /\ Len(d) < Len(q)
  BY <1>3, <1>4, <1>7, <1>8, EntryIs, PathsArePaths, Zenon
<1>10. Len(d) \in T
  BY <1>7, <1>9, Zenon
<1>11. Len(q) <= Len(d)
  BY <1>2, <1>3, <1>10, Zenon
<1>12. Len(d) \in Nat
  BY <1>7, PathsArePaths, Zenon
<1> QED BY <1>4, <1>9, <1>11, <1>12

\* The keep-set speaks for every directory of the source: the deepest entries
\* below it are listed.
LEMMA KeptBelow ==
    ASSUME Setting, NEW p \in Paths, IsDirectory(source[p])
    PROVE  keep_is_dir(p)
<1> DEFINE Sub(q) == {x \in Paths : AtOrUnder(x, q)}
           In == {q \in Paths : source[q] # "none" /\ AtOrUnder(q, p)}
           T == {Cardinality(Sub(q)) : q \in In}
<1>1. IsFiniteSet(Paths)
  BY DeletionAssumption, Zenon
<1>2. \A q \in Paths : IsFiniteSet(Sub(q)) /\ Cardinality(Sub(q)) \in Nat
  BY <1>1, FS_Subset, FS_CardinalityType, Zenon
<1>3. p \in In
  BY PathsArePaths, UnderOrder, Zenon DEF IsDirectory
<1>4. T \in SUBSET Nat /\ T # {}
  BY <1>2, <1>3, Zenon
<1>5. PICK n \in T : \A m \in T : n <= m
  BY <1>4, LeastMember, Zenon
<1>6. PICK q \in In : n = Cardinality(Sub(q))
  BY <1>5, Zenon
<1>7. ASSUME NEW c \in Children(source, q) PROVE FALSE
  <2>1. c \in Paths /\ source[c] # "none" /\ Entry(q, c) /\ c \in Path /\ q \in Path /\ p \in Path
    BY <1>6, <1>7, PathsArePaths, Zenon DEF Children, Entry
  <2>2. AtOrUnder(c, q) /\ Len(q) < Len(c)
    BY <2>1, EntryIs, Zenon
  <2>3. c \in In
    BY <1>6, <2>1, <2>2, UnderOrder, Zenon
  <2>4. Sub(c) \in SUBSET Sub(q)
    BY <2>1, <2>2, UnderOrder, PathsArePaths, Zenon
  <2>5. q \in Sub(q) /\ ~(Len(c) <= Len(q))
    BY <1>6, <2>1, <2>2, UnderOrder DEF Path
  <2>6. q \notin Sub(c)
    BY <2>1, <2>5, UnderOrder, Zenon
  <2>7. Cardinality(Sub(c)) <= Cardinality(Sub(q)) /\ Cardinality(Sub(q)) # Cardinality(Sub(c))
    BY <1>2, <1>6, <2>4, <2>5, <2>6, FS_Subset, Zenon
  <2>8. n <= Cardinality(Sub(c)) /\ Cardinality(Sub(c)) \in Nat /\ Cardinality(Sub(q)) \in Nat
    BY <1>2, <1>5, <1>6, <2>1, <2>3, Zenon
  <2> QED BY <1>6, <2>7, <2>8
<1>8. source[q] \in {"file", "dir", "mount"}
  BY <1>6, Zenon DEF Setting, SourceKinds
<1>9. q \in Keeps
  BY <1>6, <1>7, <1>8, Zenon DEF Keeps
<1> QED BY <1>6, <1>9, Zenon DEF keep_is_dir, Below

\* What lies under a missing argument, or in what is not a directory of the
\* source, is not in the source.
LEMMA Absent ==
    ASSUME Setting
    PROVE  /\ \A p \in Paths : Under(p, Range(opts.missing)) => source[p] = "none"
           /\ \A d, p \in Paths : ~IsDirectory(source[d]) /\ Entry(d, p) => source[p] = "none"
<1>1. \A p \in Paths : Under(p, Range(opts.missing)) => source[p] = "none"
  BY Zenon DEF Setting, Consistent, Under
<1>2. ASSUME NEW d \in Paths, NEW p \in Paths, ~IsDirectory(source[d]), Entry(d, p), source[p] # "none"
      PROVE  FALSE
  <2>1. Parent(p) = d /\ Len(d) > 0 /\ Len(d) < Len(p) /\ Len(p) \in Nat /\ Len(d) \in Nat
    BY <1>2, EntryIs, PathsArePaths, Zenon
  <2>2. Len(p) > 1
    BY <2>1
  <2>3. source[d] = "dir"
    BY <1>2, <2>1, <2>2, Zenon DEF Setting, Consistent
  <2> QED BY <1>2, <2>3, Zenon DEF IsDirectory
<1> QED BY <1>1, <1>2, Zenon

\* The configuration's sets of paths.
LEMMA ConfigIs ==
    ASSUME Setting
    PROVE  /\ opts.rules \in SUBSET Paths /\ opts.synced \in SUBSET Dirs
           /\ Range(opts.missing) \in SUBSET Paths /\ Staging \in SUBSET Path
           /\ \A q \in Staging : Len(q) = 1
           /\ opts.scope = "full" => opts.synced = {Root}
<1>1. opts \in Configs
  BY Zenon DEF Setting
<1>2. opts.rules \in SUBSET Paths /\ opts.synced \in SUBSET (Paths \cup {Root}) /\ opts.missing \in Seq(Paths)
  BY <1>1 DEF Configs
<1>3. Range(opts.missing) \in SUBSET Paths
  BY <1>2 DEF Range
<1>4. StageName \in Int
  BY DeletionAssumption, Zenon
<1>5. <<StageName>> \in Path /\ Len(<<StageName>>) = 1
  BY <1>4 DEF Path
<1>6. Staging \in SUBSET Path /\ \A q \in Staging : Len(q) = 1
  BY <1>5, Zenon DEF Staging
<1>7. opts.scope = "full" => opts.synced = {Root}
  BY DeletionAssumption, Zenon DEF Setting
<1> QED BY <1>2, <1>3, <1>6, <1>7, Zenon DEF Dirs

\* A walk that has come to d may go on to an entry it does not find shielded.
LEMMA GoesOn ==
    ASSUME Setting, NEW d \in Dirs, Clear(d), NEW p \in Paths, Entry(d, p),
           NEW walk, walk # "nested", ~Shielded(walk, p)
    PROVE  Clear(p) /\ ~MustSurvive(p)
<1>1. \A q \in Path : AtOrUnder(p, q) => q = p \/ AtOrUnder(d, q)
  BY EntryIs, PathsArePaths, Zenon
<1>2. ~PathUnderSkipPrefix(p, opts.basis \cup opts.protected) /\ p \notin opts.rules
  BY Zenon DEF Shielded, RuleProtects
<1>3. ~Under(p, Staging)
  <2> SUFFICES ASSUME NEW q \in Staging, AtOrUnder(p, q) PROVE FALSE
    BY Zenon DEF Under
  <2>1. q \in Path /\ Len(q) = 1
    BY ConfigIs, Zenon
  <2>2. p # q
    BY <1>2, <2>1, Zenon DEF PathUnderSkipPrefix
  <2>3. AtOrUnder(d, q)
    BY <1>1, <2>1, <2>2, Zenon
  <2> QED BY <2>3, Zenon DEF Clear, Under
<1>4. \A r \in opts.rules : AtOrUnder(p, r) => source[r] # "none"
  BY <1>1, <1>2, ConfigIs, PathsArePaths, Zenon DEF Clear
<1>5. ~Under(p, opts.basis \cup opts.protected)
  BY <1>2, Zenon DEF PathUnderSkipPrefix
<1>6. ~Under(p, Staging \cup opts.basis \cup opts.protected)
  BY <1>3, <1>5, Zenon DEF Under
<1> QED BY <1>2, <1>3, <1>4, <1>6, Zenon DEF Clear, MustSurvive, Below

\* Where walks begin: the root, and the directories of the source.
LEMMA StartsClear ==
    ASSUME Setting
    PROVE  Clear(Root) /\ \A d \in Paths : source[d] = "dir" => Clear(d)
<1>1. ASSUME NEW q \in Path, Len(q) >= 1, AtOrUnder(Root, q) PROVE FALSE
  <2>1. Len(q) <= Len(Root) /\ Len(Root) = 0
    BY <1>1, UnderOrder, PathsArePaths, Zenon
  <2>2. Len(q) \in Nat
    BY DEF Path
  <2> QED BY <1>1, <2>1, <2>2
<1>2. \A q \in Staging : q \in Path /\ Len(q) >= 1
  BY ConfigIs
<1>3. \A r \in opts.rules : r \in Path /\ Len(r) >= 1
  BY ConfigIs, PathsArePaths
<1>4. Clear(Root)
  BY <1>1, <1>2, <1>3, Zenon DEF Clear, Under
<1>5. ASSUME NEW d \in Paths, source[d] = "dir" PROVE Clear(d)
  <2>1. ~Under(d, Staging)
    BY <1>5, Zenon DEF Setting, Consistent, Under
  <2>2. \A r \in opts.rules : AtOrUnder(d, r) => source[r] # "none"
    BY <1>5, ConfigIs, Ancestors, Zenon
  <2> QED BY <2>1, <2>2, Zenon DEF Clear
<1> QED BY <1>4, <1>5, Zenon

\* An entry lies strictly under whatever its directory lies under.
LEMMA ScopeGoesDown ==
    ASSUME NEW d \in Dirs, NEW p \in Paths, Entry(d, p)
    PROVE  \A S \in SUBSET Dirs : Under(d, S) => Under(p, S) /\ StrictlyUnder(p, S)
<1>1. d \in Path /\ p \in Path /\ Len(d) \in Nat /\ Len(p) \in Nat
  BY PathsArePaths, Zenon
<1>2. AtOrUnder(p, d) /\ Len(d) < Len(p)
  BY <1>1, EntryIs, Zenon
<1>3. ASSUME NEW q \in Dirs, AtOrUnder(d, q) PROVE AtOrUnder(p, q) /\ p # q
  <2>1. AtOrUnder(p, q) /\ Len(q) <= Len(d) /\ Len(q) \in Nat
    BY <1>1, <1>2, <1>3, UnderOrder, PathsArePaths, Zenon
  <2>2. ~(Len(p) <= Len(d))
    BY <1>1, <1>2
  <2> QED BY <2>1, <2>2, Zenon
<1> QED BY <1>3, Zenon DEF Under, StrictlyUnder, Below

---------------------------------------------------------------------------
(* Frames. *)

NewFrame(walk, d, keeps, force, deletable, extra) ==
    Frame([walk |-> walk, dir |-> d, keeps |-> keeps, force |-> force,
           deletable |-> deletable, extra |-> extra])
IsFrameOf(f, walk, d) == f \in SoundFrames /\ f.walk = walk /\ f.dir = d

\* The classification at the head of the walkers puts in line only what may go.
LEMMA FrameIsSound ==
    ASSUME Setting, tree \in [Paths -> TreeKinds],
           NEW walk, NEW d, NEW keeps, NEW force, NEW deletable, NEW extra,
           Seed(walk, d, keeps, force, deletable, extra)
    PROVE  IsFrameOf(NewFrame(walk, d, keeps, force, deletable, extra), walk, d)
<1> DEFINE seed == [walk |-> walk, dir |-> d, keeps |-> keeps, force |-> force,
                    deletable |-> deletable, extra |-> extra]
           f == Frame(seed)
           open == {p \in Children(tree, d) : ~Shielded(walk, p)}
           extras == {p \in open : IsExtra(seed, p)}
           dirs == {p \in open : tree[p] = "dir"}
<1>1. /\ walk \in Walks /\ d \in Dirs
      /\ keeps \in BOOLEAN /\ force \in BOOLEAN /\ deletable \in BOOLEAN /\ extra \in BOOLEAN
  BY Zenon DEF Seed
<1>2. /\ f = [walk |-> walk, dir |-> d, deletable |-> deletable, keeps |-> keeps,
              force |-> force, extra |-> extra,
              dirs |-> extras \cap dirs, files |-> extras \ dirs,
              kept |-> KeptDirs(walk, dirs \ extras),
              survives |-> extras # Children(tree, d)]
  BY DEF Frame
<1>3. /\ f.walk = walk /\ f.dir = d /\ f.deletable = deletable /\ f.keeps = keeps
      /\ f.force = force /\ f.extra = extra
      /\ f.dirs = extras \cap dirs /\ f.files = extras \ dirs
      /\ f.kept = KeptDirs(walk, dirs \ extras)
      /\ f.survives = (extras # Children(tree, d))
  <2> HIDE DEF extras, dirs
  <2> QED BY <1>2
<1>4. \A p \in open : p \in Paths /\ tree[p] \in {"file", "dir"} /\ Entry(d, p)
  BY Zenon DEF Children, Entry, TreeKinds
<1>5. /\ f.dirs \in SUBSET Paths /\ f.files \in SUBSET Paths /\ f.kept \in SUBSET Paths
      /\ f.survives \in BOOLEAN
  BY <1>3, <1>4, Zenon DEF KeptDirs
<1>6. f \in Frames
  <2> HIDE DEF extras, dirs
  <2>1. /\ extras \cap dirs \in SUBSET Paths /\ extras \ dirs \in SUBSET Paths
        /\ KeptDirs(walk, dirs \ extras) \in SUBSET Paths
        /\ (extras # Children(tree, d)) \in BOOLEAN
    BY <1>3, <1>5, Zenon
  <2> HIDE DEF f
  <2> QED BY <1>1, <1>2, <2>1 DEF Frames
<1>7. ASSUME NEW p \in open PROVE walk # "nested" => Clear(p) /\ ~MustSurvive(p)
  BY <1>1, <1>4, GoesOn, Zenon DEF Seed
<1>8. ASSUME NEW p \in extras PROVE Doomed(walk, p, tree[p])
  <2>1. p \in open /\ p \in Paths /\ Entry(d, p) /\ IsExtra(seed, p) /\ tree[p] \in {"file", "dir"}
    BY <1>4, <1>8, Zenon
  <2>2. seed.walk = walk /\ seed.keeps = keeps /\ seed.deletable = deletable
    OBVIOUS
  <2>3. CASE walk = "nested"
    <3>1. Range(opts.missing) \in SUBSET Dirs
      BY ConfigIs, Zenon DEF Dirs
    <3>2. Under(p, Range(opts.missing))
      BY <1>1, <2>1, <2>3, <3>1, ScopeGoesDown, Zenon DEF Seed
    <3>3. source[p] = "none"
      BY <2>1, <3>2, Absent, Zenon
    <3> QED BY <2>3, <3>3, Zenon DEF Doomed, IsDirectory
  <2>4. CASE walk = "plan"
    <3>1. StrictlyUnder(p, opts.synced)
      BY <1>1, <2>1, <2>4, ScopeGoesDown, ConfigIs, Zenon DEF Seed
    <3>2. CASE keeps
      <4>1. IF tree[p] = "dir" THEN ~InKeepDirs(p) ELSE ~InKeepFiles(p)
        <5> HIDE DEF seed
        <5> QED BY <2>1, <2>2, <2>4, <3>2 DEF IsExtra
      <4>2. IF tree[p] = "dir" THEN ~IsDirectory(source[p]) ELSE source[p] # "file"
        BY <4>1, Zenon DEF InKeepDirs, InKeepFiles
      <4> QED BY <1>7, <2>1, <2>4, <3>1, <4>2, Zenon DEF Doomed
    <3>3. CASE ~keeps
      <4>1. d \in Paths /\ ~IsDirectory(source[d])
        BY <2>4, <3>3, Zenon DEF Seed
      <4>2. source[p] = "none"
        BY <2>1, <4>1, Absent, Zenon
      <4> QED BY <1>7, <2>1, <2>4, <3>1, <4>2, Zenon DEF Doomed, IsDirectory
    <3> QED BY <3>2, <3>3, Zenon
  <2>5. CASE walk # "nested" /\ walk # "plan"
    <3>1. /\ deletable
          /\ IF tree[p] = "dir" THEN ~keep_is_dir(p) ELSE ~keep_is_file(p)
      <4> HIDE DEF seed
      <4> QED BY <2>1, <2>2, <2>5 DEF IsExtra
    <3>2. StrictlyUnder(p, opts.synced)
      BY <1>1, <2>1, <2>5, <3>1, ScopeGoesDown, ConfigIs, Zenon DEF Seed
    <3>3. tree[p] = "dir" => ~IsDirectory(source[p])
      BY <2>1, <3>1, KeptBelow, Zenon
    <3>4. tree[p] # "dir" => source[p] # "file"
      BY <2>1, <3>1, Zenon DEF keep_is_file, Keeps
    <3> QED BY <1>7, <2>1, <2>5, <3>2, <3>3, <3>4, Zenon DEF Doomed
  <2> QED BY <2>3, <2>4, <2>5, Zenon
<1>9. \A p \in f.dirs : Waiting(walk, d, p, "dir")
  <2> SUFFICES ASSUME NEW p \in f.dirs PROVE Waiting(walk, d, p, "dir")
    BY Zenon
  <2>1. p \in extras /\ p \in open /\ tree[p] = "dir"
    BY <1>3, Zenon
  <2> HIDE DEF f, extras, open
  <2> QED BY <1>4, <1>7, <1>8, <2>1, Zenon DEF Waiting
<1>10. \A p \in f.files : Waiting(walk, d, p, "file")
  <2> SUFFICES ASSUME NEW p \in f.files PROVE Waiting(walk, d, p, "file")
    BY Zenon
  <2>1. p \in extras /\ p \in open /\ tree[p] # "dir"
    BY <1>3, Zenon
  <2>2. tree[p] = "file"
    BY <1>4, <2>1, Zenon
  <2> HIDE DEF f, extras, open
  <2> QED BY <1>4, <1>7, <1>8, <2>1, <2>2, Zenon DEF Waiting
<1>11. \A p \in f.kept : Entry(d, p) /\ walk # "plan" /\ (walk # "nested" => Clear(p))
  <2> SUFFICES ASSUME NEW p \in f.kept PROVE Entry(d, p) /\ walk # "plan" /\ (walk # "nested" => Clear(p))
    BY Zenon
  <2>1. p \in open /\ walk # "plan"
    BY <1>3, Zenon DEF KeptDirs
  <2> HIDE DEF f, open
  <2> QED BY <1>4, <1>7, <2>1, Zenon
<1> HIDE DEF f
<1>12. FrameSound(f)
  BY <1>3, <1>9, <1>10, <1>11, Zenon DEF FrameSound
<1> QED BY <1>3, <1>6, <1>12, Zenon DEF SoundFrames, f, NewFrame, IsFrameOf

\* Of what waits in a frame, what a plan may put off is not in the source.
LEMMA PutOff ==
    ASSUME Setting, NEW f, FrameSound(f), f.walk = "plan", NEW kind,
           NEW p, Waiting(f.walk, f.dir, p, kind), ~Forced(f, p), kind \in {"file", "dir"}
    PROVE  source[p] = "none"
<1>1. p \in Paths /\ Entry(f.dir, p) /\ Doomed("plan", p, kind)
  BY Zenon DEF Waiting
<1>2. CASE f.keeps
  <2>1. ~IsDirectory(source[p]) /\ source[p] # "file"
    BY <1>2, Zenon DEF Forced, InKeepDirs, InKeepFiles
  <2>2. source[p] \in {"none", "file", "dir", "mount"}
    BY <1>1, Zenon DEF Setting, SourceKinds
  <2> QED BY <2>1, <2>2, Zenon DEF IsDirectory
<1>3. CASE ~f.keeps
  <2>1. f.dir \in Paths /\ ~IsDirectory(source[f.dir])
    BY <1>3, Zenon DEF FrameSound, Seed
  <2> QED BY <1>1, <2>1, Absent, Zenon
<1> QED BY <1>2, <1>3, Zenon

\* The frame of a subdirectory is sound: of an extra one ...
LEMMA ExtraChildIsSound ==
    ASSUME Setting, tree \in [Paths -> TreeKinds], NEW f \in SoundFrames, NEW p \in f.dirs
    PROVE  IsFrameOf(ChildFrame(f, p, TRUE), f.walk, p)
<1>1. FrameSound(f) /\ f \in Frames /\ Waiting(f.walk, f.dir, p, "dir")
  BY Zenon DEF SoundFrames, FrameSound
<1>2. /\ p \in Paths /\ p \in Dirs /\ p \in Path /\ Entry(f.dir, p) /\ tree[p] = "dir"
      /\ f.walk # "nested" => Clear(p)
      /\ Doomed(f.walk, p, "dir")
  BY <1>1, PathsArePaths, Zenon DEF Waiting
<1>3. f.dir \in Dirs /\ f.walk \in Walks /\ f.keeps \in BOOLEAN /\ f.force \in BOOLEAN /\ f.deletable \in BOOLEAN
  BY <1>1, Zenon DEF FrameSound, Seed
<1>4. f.walk = "nested" => Under(p, Range(opts.missing))
  <2>1. Range(opts.missing) \in SUBSET Dirs
    BY ConfigIs, Zenon DEF Dirs
  <2> QED BY <1>1, <1>2, <1>3, <2>1, ScopeGoesDown, Zenon DEF FrameSound, Seed
<1>5. p \in opts.synced => Under(p, opts.synced)
  BY <1>2, UnderOrder, Zenon DEF Under
<1>6. f.walk = "plan" \/ ((f.deletable \/ p \in opts.synced) /\ f.walk # "nested") => Under(p, opts.synced)
  BY <1>1, <1>2, <1>3, <1>5, ScopeGoesDown, ConfigIs, Zenon DEF FrameSound, Seed
<1>7. f.walk = "plan" => ~IsDirectory(source[p])
  BY <1>2, Zenon DEF Doomed
<1>8. f.walk = "plan" /\ ~Forced(f, p) => source[p] = "none"
  BY <1>1, PutOff, Zenon
<1>9. Forced(f, p) \in BOOLEAN /\ (f.deletable \/ p \in opts.synced) \in BOOLEAN
  BY <1>3, Zenon DEF Forced
<1>10. Seed(f.walk, p, FALSE, Forced(f, p), f.deletable \/ p \in opts.synced, TRUE)
  BY <1>2, <1>3, <1>4, <1>6, <1>7, <1>8, <1>9, Zenon DEF Seed
<1> QED BY <1>10, FrameIsSound, Zenon DEF ChildFrame, NewFrame

\* ... and of a kept one.
LEMMA KeptChildIsSound ==
    ASSUME Setting, tree \in [Paths -> TreeKinds], NEW f \in SoundFrames, NEW p \in f.kept
    PROVE  IsFrameOf(ChildFrame(f, p, FALSE), f.walk, p)
<1>1. FrameSound(f) /\ f \in Frames
  BY Zenon DEF SoundFrames
<1>2. /\ p \in Paths /\ Entry(f.dir, p) /\ f.walk # "plan" 
      /\ f.walk # "nested" => Clear(p)
  <2>1. f.kept \in SUBSET Paths
    BY <1>1 DEF Frames
  <2> QED BY <1>1, <2>1, Zenon DEF FrameSound
<1>3. f.dir \in Dirs /\ f.walk \in Walks /\ f.keeps \in BOOLEAN /\ f.force \in BOOLEAN /\ f.deletable \in BOOLEAN
  BY <1>1, Zenon DEF FrameSound, Seed
<1>4. f.walk = "nested" => Under(p, Range(opts.missing))
  <2>1. Range(opts.missing) \in SUBSET Dirs
    BY ConfigIs, Zenon DEF Dirs
  <2> QED BY <1>1, <1>2, <1>3, <2>1, ScopeGoesDown, Zenon DEF FrameSound, Seed
<1>5. p \in opts.synced => Under(p, opts.synced)
  BY <1>2, PathsArePaths, UnderOrder, Zenon DEF Under
<1>6. (f.deletable \/ p \in opts.synced) /\ f.walk # "nested" => Under(p, opts.synced)
  BY <1>1, <1>2, <1>3, <1>5, ScopeGoesDown, ConfigIs, Zenon DEF FrameSound, Seed
<1>7. Forced(f, p) \in BOOLEAN /\ (f.deletable \/ p \in opts.synced) \in BOOLEAN
  BY <1>3, Zenon DEF Forced
<1>8. p \in Dirs
  BY <1>2, Zenon DEF Dirs
<1>9. Seed(f.walk, p, FALSE, Forced(f, p), f.deletable \/ p \in opts.synced, FALSE)
  BY <1>2, <1>3, <1>4, <1>6, <1>7, <1>8, Zenon DEF Seed
<1> QED BY <1>9, FrameIsSound, Zenon DEF ChildFrame, NewFrame

---------------------------------------------------------------------------
(* Sequences. *)

\* What a sequence holds.
LEMMA SeqOf ==
    ASSUME NEW S, NEW T, NEW s \in Seq(S), \A i \in 1..Len(s) : s[i] \in T
    PROVE  s \in Seq(T)
OBVIOUS

(* The head and the tail of a sequence. *)
LEMMA SeqParts ==
    ASSUME NEW S, NEW s \in Seq(S)
    PROVE  /\ Len(s) \in Nat /\ (s # <<>> => Len(s) > 0 /\ Len(s) \in 1..Len(s))
           /\ \A i \in 1..Len(s) : s[i] \in S
           /\ s # <<>> => Head(s) \in S /\ Tail(s) \in Seq(S)
           /\ <<>> \in Seq(S) /\ Len(<<>>) = 0
OBVIOUS

(* One more element. *)
LEMMA SeqAppend ==
    ASSUME NEW S, NEW s \in Seq(S), NEW x \in S
    PROVE  /\ Append(s, x) \in Seq(S) /\ Len(Append(s, x)) = Len(s) + 1
           /\ \A i \in 1..Len(s) : Append(s, x)[i] = s[i]
           /\ Append(s, x)[Len(s) + 1] = x
OBVIOUS

(* A single element. *)
LEMMA SeqOne ==
    ASSUME NEW S, NEW x \in S
    PROVE  <<x>> \in Seq(S) /\ Len(<<x>>) = 1 /\ <<x>>[1] = x /\ <<x>> # <<>>
OBVIOUS

(* The elements after an append. *)
LEMMA RangeAppend ==
    ASSUME NEW S, NEW s \in Seq(S), NEW x \in S
    PROVE  Range(Append(s, x)) = Range(s) \cup {x}
<1>1. Len(s) \in Nat /\ DOMAIN s = 1..Len(s) /\ DOMAIN Append(s, x) = 1..(Len(s) + 1)
  OBVIOUS
<1>2. /\ \A i \in 1..Len(s) : Append(s, x)[i] = s[i] /\ i \in 1..(Len(s) + 1)
      /\ Append(s, x)[Len(s) + 1] = x /\ Len(s) + 1 \in 1..(Len(s) + 1)
      /\ \A i \in 1..(Len(s) + 1) : i \in 1..Len(s) \/ i = Len(s) + 1
  BY <1>1
<1> QED BY <1>1, <1>2, Zenon DEF Range

---------------------------------------------------------------------------
(* What the steps of a session leave alone. *)

\* The source and the configuration are those of the whole session.
LEMMA ContextStays ==
    ASSUME UNCHANGED session
    PROVE  /\ source' = source /\ opts' = opts
           /\ \A p : MustSurvive(p)' <=> MustSurvive(p)
           /\ \A p : InScope(p)' <=> InScope(p)
           /\ \A p : Clear(p)' <=> Clear(p)
           /\ \A w, p, k : Doomed(w, p, k)' <=> Doomed(w, p, k)
           /\ Deferrables' = Deferrables /\ SoundJobs' = SoundJobs
           /\ Setting' <=> Setting
<1>1. source' = source /\ opts' = opts
  BY Zenon DEF session
<1>2. Staging' = Staging
  BY <1>1, Zenon DEF Staging
<1>3. \A p : MustSurvive(p)' <=> MustSurvive(p)
  BY <1>1, <1>2, Zenon DEF MustSurvive
<1>4. \A p : InScope(p)' <=> InScope(p)
  BY <1>1, Zenon DEF InScope
<1>5. \A p : Clear(p)' <=> Clear(p)
  BY <1>1, <1>2, Zenon DEF Clear
<1>6. \A w, p, k : Doomed(w, p, k)' <=> Doomed(w, p, k)
  BY <1>1, <1>3, Zenon DEF Doomed
<1>7. Deferrables' = Deferrables
  BY <1>1, <1>5, <1>6, Zenon DEF Deferrables, Deferrable
<1>8. SoundJobs' = SoundJobs
  BY <1>1, <1>7, Zenon DEF SoundJobs, JobSound
<1>9. Setting' <=> Setting
  BY <1>1, <1>2, Zenon DEF Setting, Consistent
<1> QED BY <1>1, <1>3, <1>4, <1>5, <1>6, <1>7, <1>8, <1>9, Zenon

\* A frame stays sound while what waits in it, and its own directory when that
\* is to go, are untouched.
LEMMA FrameStays ==
    ASSUME UNCHANGED session, NEW f \in SoundFrames, NEW g \in Frames,
           g.walk = f.walk, g.dir = f.dir, g.deletable = f.deletable, g.keeps = f.keeps,
           g.force = f.force, g.extra = f.extra,
           g.dirs \in SUBSET f.dirs, g.files \in SUBSET f.files, g.kept \in SUBSET f.kept,
           \A q \in g.dirs : tree'[q] = tree[q],
           \A q \in g.files : tree'[q] = tree[q],
           f.extra => tree'[f.dir] = tree[f.dir]
    PROVE  g \in SoundFrames'
<1>1. FrameSound(f)
  BY Zenon DEF SoundFrames
<1>2. Seed(g.walk, g.dir, g.keeps, g.force, g.deletable, g.extra)
  BY <1>1, Zenon DEF FrameSound
<1>3. Seed(g.walk, g.dir, g.keeps, g.force, g.deletable, g.extra)'
  BY <1>2, ContextStays, Zenon DEF Seed
<1>4. \A p \in g.dirs : Waiting(g.walk, g.dir, p, "dir")
  BY <1>1, Zenon DEF FrameSound
<1>5. \A p \in g.dirs : Waiting(g.walk, g.dir, p, "dir")'
  BY <1>4, ContextStays, Zenon DEF Waiting
<1>6. \A p \in g.files : Waiting(g.walk, g.dir, p, "file")
  BY <1>1, Zenon DEF FrameSound
<1>7. \A p \in g.files : Waiting(g.walk, g.dir, p, "file")'
  BY <1>6, ContextStays, Zenon DEF Waiting
<1>8. \A p \in g.kept : Entry(g.dir, p) /\ g.walk # "plan" /\ (g.walk # "nested" => Clear(p)')
  BY <1>1, ContextStays, Zenon DEF FrameSound
<1>9. FrameSound(g)'
  BY <1>3, <1>5, <1>7, <1>8, Zenon DEF FrameSound
<1> QED BY <1>9, Zenon DEF SoundFrames

\* What an outcome needs.
Permitted(outcome, p) ==
    /\ outcome \in {"removed", "deferred", "listed"} => p \in Paths
    /\ outcome = "removed" =>
         /\ BudgetAvailable
         /\ IF tree[p] = "dir" THEN ~IsDirectory(source[p]) ELSE source[p] # "file"
         /\ Head(todo).op # "missing" => ~MustSurvive(p) /\ InScope(p)
    /\ outcome = "deferred" => Deferrable(p) /\ Len(deferred) < ServerLimit /\ opts.timing = "delay"
    /\ outcome = "limit" => ~BudgetAvailable
    /\ outcome = "capped" => ~(Len(deferred) < ServerLimit)

\* What is strictly in the scope of a walk is in the scope of the run.
LEMMA InScopeIs == \A p : StrictlyUnder(p, opts.synced) => InScope(p)
BY Zenon DEF InScope

\* The outcomes the walkers come to.
LEMMA OutcomeIs ==
    \A walk, force, p :
      /\ Outcome(walk, force, p) = "removed" => BudgetAvailable
      /\ Outcome(walk, force, p) = "deferred" =>
           walk = "plan" /\ ~force /\ Len(deferred) < ServerLimit /\ opts.timing = "delay"
      /\ Outcome(walk, force, p) = "limit" => ~BudgetAvailable
      /\ Outcome(walk, force, p) = "capped" => ~(Len(deferred) < ServerLimit)
BY DEF Outcome

\* A permitted outcome does no wrong, and changes nothing but the entry and what
\* is under it.
LEMMA ApplyKeeps ==
    ASSUME WalkInv, UNCHANGED session, NEW outcome, NEW p, Permitted(outcome, p), Apply(outcome, p),
           todo # <<>>
    PROVE  /\ tree' \in [Paths -> TreeKinds] /\ deferred' \in Seq(Deferrables')
           /\ removed' \in Seq(Records)
           /\ ProtectedSurvive'
           /\ outcome # "removed" => tree' = tree
           /\ \A q \in Paths : ~AtOrUnder(q, p) => tree'[q] = tree[q]
<1>1. deferred' \in Seq(Deferrables')
  <2>1. deferred \in Seq(Deferrables) /\ Deferrables' = Deferrables
    BY ContextStays, Zenon DEF WalkInv
  <2>2. CASE outcome = "deferred"
    <3>1. p \in Deferrables /\ deferred' = Append(deferred, p)
      BY <2>2, Zenon DEF Permitted, Apply, Deferrables
    <3> QED BY <2>1, <3>1, SeqAppend, Zenon
  <2>3. CASE outcome # "deferred"
    BY <2>1, <2>3, Zenon DEF Apply
  <2> QED BY <2>2, <2>3, Zenon
<1>2. CASE outcome # "removed"
  <2>1. UNCHANGED <<tree, removed, deleted>>
    BY <1>2, Zenon DEF Apply
  <2>2. ProtectedSurvive'
    BY <2>1, ContextStays, Zenon DEF WalkInv, ProtectedSurvive, Removals
  <2> QED BY <1>1, <1>2, <2>1, <2>2, Zenon DEF WalkInv
<1>3. CASE outcome = "removed"
  <2> DEFINE r == [path |-> p, kind |-> tree[p], by |-> Head(todo).op]
  <2>1. /\ tree' = [q \in Paths |-> IF AtOrUnder(q, p) THEN "none" ELSE tree[q]]
        /\ removed' = Append(removed, r)
    BY <1>3, Zenon DEF Apply, RemoveEntry
  <2>2. tree \in [Paths -> TreeKinds] /\ p \in Paths
    BY <1>3, Zenon DEF WalkInv, Permitted
  <2>3. tree' \in [Paths -> TreeKinds] /\ \A q \in Paths : ~AtOrUnder(q, p) => tree'[q] = tree[q]
    BY <2>1, <2>2, Zenon DEF TreeKinds
  <2>4. Head(todo).op \in Ops
    <3>1. Head(todo) \in SoundJobs
      BY SeqParts, Zenon DEF WalkInv
    <3> QED BY <3>1 DEF SoundJobs
  <2>5. r \in Records /\ r.path = p /\ r.kind = tree[p] /\ r.by = Head(todo).op
    BY <2>2, <2>4 DEF Records
  <2>6. removed \in Seq(Records)
    BY Zenon DEF WalkInv
  <2> HIDE DEF r
  <2>7. removed' \in Seq(Records)
    BY <2>1, <2>5, <2>6, SeqAppend, Zenon
  <2>8. Removals' = Removals \cup {r}
    <3>1. Range(Append(removed, r)) = Range(removed) \cup {r}
      BY <2>5, <2>6, RangeAppend
    <3> QED BY <2>1, <3>1, Zenon DEF Removals
  <2>9. ProtectedSurvive'
    <3> SUFFICES ASSUME NEW x \in Removals'
                 PROVE  /\ IF x.kind = "dir" THEN ~IsDirectory(source[x.path]) ELSE source[x.path] # "file"
                        /\ x.by # "missing" => ~MustSurvive(x.path) /\ InScope(x.path)
      BY ContextStays, Zenon DEF ProtectedSurvive
    <3>1. CASE x \in Removals
      BY <3>1, Zenon DEF WalkInv, ProtectedSurvive
    <3>2. CASE x = r
      BY <1>3, <2>5, <3>2, Zenon DEF Permitted
    <3> QED BY <2>8, <3>1, <3>2, Zenon
  <2> QED BY <1>1, <1>3, <2>3, <2>7, <2>9, Zenon
<1> QED BY <1>2, <1>3, Zenon

\* What a step of a walk does to a frame: entries leave the line.
Narrows(g, f) ==
    /\ g.walk = f.walk /\ g.dir = f.dir /\ g.deletable = f.deletable /\ g.keeps = f.keeps
    /\ g.force = f.force /\ g.extra = f.extra
    /\ g.dirs \in SUBSET f.dirs /\ g.files \in SUBSET f.files /\ g.kept \in SUBSET f.kept
Untouched(f) ==
    /\ \A q \in f.dirs : tree'[q] = tree[q]
    /\ \A q \in f.files : tree'[q] = tree[q]
    /\ f.extra => tree'[f.dir] = tree[f.dir]

(* Every frame of the stack stays sound. *)
LEMMA FramesStay ==
    ASSUME UNCHANGED session, stack \in Seq(SoundFrames), Nested(stack),
           NEW u \in Seq(Frames), Len(u) <= Len(stack),
           \A i \in 1..Len(u) : Narrows(u[i], stack[i]) /\ Untouched(u[i])
    PROVE  u \in Seq(SoundFrames') /\ Nested(u) /\ \A i \in 1..Len(u) : u[i].walk = stack[i].walk
<1>1. Len(u) \in Nat /\ Len(stack) \in Nat /\ \A i \in 1..Len(u) : u[i] \in Frames
  BY SeqParts, Zenon
<1>2. \A i \in 1..Len(u) : i \in 1..Len(stack)
  BY <1>1
<1>3. \A i \in 1..Len(stack) : stack[i] \in SoundFrames
  BY SeqParts, Zenon
<1>4. ASSUME NEW i \in 1..Len(u) PROVE u[i] \in SoundFrames'
  <2>1. stack[i] \in SoundFrames /\ u[i] \in Frames /\ Narrows(u[i], stack[i]) /\ Untouched(u[i])
    BY <1>1, <1>2, <1>3, Zenon
  <2>2. stack[i].extra => tree'[stack[i].dir] = tree[stack[i].dir]
    BY <2>1, Zenon DEF Narrows, Untouched
  <2> QED BY <2>1, <2>2, FrameStays, Zenon DEF Narrows, Untouched
<1>5. u \in Seq(SoundFrames')
  BY <1>4, SeqOf, Zenon
<1>6. ASSUME NEW i \in 1..Len(u), NEW j \in 1..Len(u), i < j
      PROVE  Len(u[i].dir) < Len(u[j].dir) /\ u[j].dir \notin u[i].dirs /\ u[j].dir \notin u[i].files
  <2>1. /\ Len(stack[i].dir) < Len(stack[j].dir)
        /\ stack[j].dir \notin stack[i].dirs /\ stack[j].dir \notin stack[i].files
    BY <1>2, <1>6, Zenon DEF Nested
  <2>2. u[i].dir = stack[i].dir /\ u[i].dirs \in SUBSET stack[i].dirs /\ u[i].files \in SUBSET stack[i].files
    BY Zenon DEF Narrows
  <2>3. u[j].dir = stack[j].dir
    BY Zenon DEF Narrows
  <2> QED BY <2>1, <2>2, <2>3, Zenon
<1>7. Nested(u)
  BY <1>6, Zenon DEF Nested
<1> QED BY <1>5, <1>7, Zenon DEF Narrows

\* One more frame, further down.
LEMMA FrameAdded ==
    ASSUME NEW S, S \in SUBSET Frames, NEW u \in Seq(S), Nested(u), NEW h \in S,
           \A i \in 1..Len(u) : /\ Len(u[i].dir) < Len(h.dir)
                                /\ h.dir \notin u[i].dirs /\ h.dir \notin u[i].files
    PROVE  Append(u, h) \in Seq(S) /\ Nested(Append(u, h))
<1> DEFINE v == Append(u, h)
<1>1. /\ v \in Seq(S) /\ Len(v) = Len(u) + 1 /\ Len(u) \in Nat
      /\ \A i \in 1..Len(u) : v[i] = u[i]
      /\ v[Len(u) + 1] = h
  <2>1. Len(u) \in Nat
    BY SeqParts, Zenon
  <2>2. v \in Seq(S) /\ Len(v) = Len(u) + 1
    BY SeqAppend, Zenon
  <2>3. (\A i \in 1..Len(u) : v[i] = u[i]) /\ v[Len(u) + 1] = h
    BY <2>1, SeqAppend
  <2> QED BY <2>1, <2>2, <2>3, Zenon
<1> HIDE DEF v
<1>2. ASSUME NEW i \in 1..Len(v), NEW j \in 1..Len(v), i < j
      PROVE  Len(v[i].dir) < Len(v[j].dir) /\ v[j].dir \notin v[i].dirs /\ v[j].dir \notin v[i].files
  <2>1. i \in 1..Len(u) /\ (j \in 1..Len(u) \/ j = Len(u) + 1)
    BY <1>1, <1>2
  <2>2. CASE j \in 1..Len(u)
    BY <1>1, <1>2, <2>1, <2>2, Zenon DEF Nested
  <2>3. CASE j = Len(u) + 1
    BY <1>1, <2>1, <2>3, Zenon
  <2> QED BY <2>1, <2>2, <2>3, Zenon
<1>3. Nested(v)
  BY <1>2, Zenon DEF Nested
<1> QED BY <1>1, <1>3, Zenon DEF v

\* Replacing the innermost frame.
Replaced(u, s, g) ==
    /\ u \in Seq(Frames) /\ Len(u) = Len(s) /\ u[Len(s)] = g
    /\ \A i \in 1..Len(s) : i # Len(s) => u[i] = s[i]

(* The stack with another top. *)
LEMMA TopChanged ==
    ASSUME NEW s \in Seq(Frames), s # <<>>, NEW g \in Frames
    PROVE  Replaced([s EXCEPT ![Len(s)] = g], s, g)
BY DEF Replaced

\* Dropping it.
LEMMA TopDropped ==
    ASSUME NEW s \in Seq(Frames), Len(s) > 1
    PROVE  LET w == SubSeq(s, 1, Len(s) - 1)
           IN  /\ w \in Seq(Frames) /\ Len(w) = Len(s) - 1 /\ w # <<>>
               /\ \A i \in 1..(Len(s) - 1) : w[i] = s[i]
               /\ w[Len(s) - 1] = s[Len(s) - 1]
OBVIOUS

\* The frames of the walk under way, and where they stand.
LEMMA StackIs ==
    ASSUME WalkInv, stack # <<>>
    PROVE  /\ stack \in Seq(SoundFrames) /\ stack \in Seq(Frames) /\ Len(stack) \in 1..Len(stack)
           /\ Top \in SoundFrames /\ Top \in Frames /\ FrameSound(Top)
           /\ \A i \in 1..Len(stack) :
                /\ stack[i] \in Frames /\ stack[i].dir \in Dirs /\ Len(stack[i].dir) <= Len(Top.dir)
                /\ \A q \in stack[i].dirs : q \in Paths /\ Len(q) = Len(stack[i].dir) + 1 /\ tree[q] = "dir"
                /\ \A q \in stack[i].files : q \in Paths /\ Len(q) = Len(stack[i].dir) + 1 /\ tree[q] = "file"
                /\ i # Len(stack) =>
                     /\ Len(stack[i].dir) < Len(Top.dir)
                     /\ Top.dir \notin stack[i].dirs /\ Top.dir \notin stack[i].files
<1>1. stack \in Seq(SoundFrames) /\ Nested(stack)
  BY Zenon DEF WalkInv
<1>2. Len(stack) \in Nat /\ Len(stack) \in 1..Len(stack) /\ \A i \in 1..Len(stack) : stack[i] \in SoundFrames
  BY <1>1, SeqParts, Zenon
<1>3. \A i \in 1..Len(stack) : stack[i] \in Frames /\ FrameSound(stack[i])
  BY <1>2, Zenon DEF SoundFrames
<1>4. stack \in Seq(Frames)
  BY <1>1, <1>3, SeqOf, Zenon
<1>5. \A i \in 1..Len(stack) : stack[i].dir \in Dirs
  BY <1>3, Zenon DEF FrameSound, Seed
<1>6. \A i \in 1..Len(stack) :
        /\ \A q \in stack[i].dirs : q \in Paths /\ Len(q) = Len(stack[i].dir) + 1 /\ tree[q] = "dir"
        /\ \A q \in stack[i].files : q \in Paths /\ Len(q) = Len(stack[i].dir) + 1 /\ tree[q] = "file"
  BY <1>3, Zenon DEF FrameSound, Waiting, Entry
<1>7. ASSUME NEW i \in 1..Len(stack), i # Len(stack)
      PROVE  Len(stack[i].dir) < Len(Top.dir) /\ Top.dir \notin stack[i].dirs /\ Top.dir \notin stack[i].files
  <2>1. i < Len(stack)
    BY <1>2, <1>7
  <2> QED BY <1>1, <1>2, <2>1, Zenon DEF Nested, Top
<1>8. ASSUME NEW i \in 1..Len(stack) PROVE Len(stack[i].dir) <= Len(Top.dir)
  <2>1. Len(stack[i].dir) \in Nat /\ Len(Top.dir) \in Nat
    BY <1>2, <1>5, PathsArePaths, Zenon DEF Top
  <2>2. CASE i = Len(stack)
    <3>1. Len(stack[i].dir) = Len(Top.dir)
      BY <2>2, Zenon DEF Top
    <3> QED BY <2>1, <3>1
  <2>3. CASE i # Len(stack)
    BY <1>7, <2>1, <2>3
  <2> QED BY <2>2, <2>3, Zenon
<1> QED BY <1>1, <1>2, <1>3, <1>4, <1>5, <1>6, <1>7, <1>8, Zenon DEF Top

---------------------------------------------------------------------------
(* The steps of a walk. *)

(* A frame that does not change narrows. *)
LEMMA NarrowsSelf == \A f : Narrows(f, f)
BY Zenon DEF Narrows

\* While the destination, the snapshot and the history stay, so does what is
\* known of them.
LEMMA Undisturbed ==
    ASSUME WalkInv, UNCHANGED <<session, tree, deferred, removed>>
    PROVE  /\ Setting' /\ tree' \in [Paths -> TreeKinds] /\ deferred' \in Seq(Deferrables')
           /\ removed' \in Seq(Records) /\ ProtectedSurvive'
           /\ SoundFrames \in SUBSET SoundFrames' /\ SoundJobs' = SoundJobs
<1>1. UNCHANGED session /\ tree' = tree /\ deferred' = deferred /\ removed' = removed
  BY Zenon
<1>2. ProtectedSurvive'
  BY <1>1, ContextStays, Zenon DEF WalkInv, ProtectedSurvive, Removals
<1>3. ASSUME NEW f \in SoundFrames PROVE f \in SoundFrames'
  BY <1>1, FrameStays, Zenon DEF SoundFrames
<1> QED BY <1>1, <1>2, <1>3, ContextStays, Zenon DEF WalkInv

\* Going down into a subdirectory that leaves the line.
LEMMA Entered ==
    ASSUME WalkInv, stack # <<>>, UNCHANGED <<session, tree, deferred, removed>>, todo' = todo,
           NEW g \in Frames, Narrows(g, Top), NEW p \in Paths, Entry(Top.dir, p),
           p \notin g.dirs, p \notin g.files,
           NEW h, IsFrameOf(h, Top.walk, p), stack' = Append([stack EXCEPT ![Len(stack)] = g], h)
    PROVE  WalkInv'
<1> DEFINE u == [stack EXCEPT ![Len(stack)] = g]
           n == Len(stack)
<1>1. /\ stack \in Seq(SoundFrames) /\ stack \in Seq(Frames) /\ n \in 1..n /\ n \in Nat
      /\ Nested(stack) /\ Top \in Frames /\ Top = stack[n] /\ Top.dir \in Dirs
  BY StackIs, SeqParts, Zenon DEF WalkInv, Top
<1>2. Replaced(u, stack, g)
  BY <1>1, TopChanged, Zenon
<1> HIDE DEF u
<1>3. u \in Seq(Frames) /\ Len(u) = n /\ u[n] = g /\ \A i \in 1..n : i # n => u[i] = stack[i]
  BY <1>2, Zenon DEF Replaced
<1>4. tree' = tree /\ UNCHANGED session
  BY Zenon
<1>5. \A i \in 1..Len(u) : Narrows(u[i], stack[i]) /\ Untouched(u[i])
  BY <1>1, <1>3, <1>4, NarrowsSelf, Zenon DEF Untouched
<1>6. Len(u) <= Len(stack)
  BY <1>1, <1>3
<1>7. u \in Seq(SoundFrames') /\ Nested(u) /\ \A i \in 1..Len(u) : u[i].walk = stack[i].walk
  BY <1>1, <1>3, <1>4, <1>5, <1>6, FramesStay, Zenon
<1>8. h \in SoundFrames' /\ SoundFrames' \in SUBSET Frames /\ h.dir = p /\ h.walk = Top.walk
  BY Undisturbed, Zenon DEF IsFrameOf, SoundFrames
<1>9. Len(p) = Len(Top.dir) + 1 /\ Len(Top.dir) \in Nat
  BY <1>1, PathsArePaths, Zenon DEF Entry
<1>10. ASSUME NEW i \in 1..n
       PROVE  Len(u[i].dir) < Len(h.dir) /\ h.dir \notin u[i].dirs /\ h.dir \notin u[i].files
  <2>1. u[i].dir = stack[i].dir /\ u[i].dirs \in SUBSET stack[i].dirs /\ u[i].files \in SUBSET stack[i].files
    BY <1>3, <1>5, Zenon DEF Narrows
  <2>2. /\ Len(stack[i].dir) <= Len(Top.dir)
        /\ i # n => Len(stack[i].dir) < Len(Top.dir)
        /\ \A q \in stack[i].dirs : Len(q) = Len(stack[i].dir) + 1
        /\ \A q \in stack[i].files : Len(q) = Len(stack[i].dir) + 1
        /\ stack[i].dir \in Dirs
    BY StackIs, Zenon
  <2>3. Len(stack[i].dir) \in Nat
    BY <2>2, PathsArePaths, Zenon
  <2>4. Len(stack[i].dir) < Len(p) /\ (i # n => Len(p) # Len(stack[i].dir) + 1)
    BY <1>9, <2>2, <2>3
  <2>5. CASE i = n
    BY <1>3, <1>8, <2>1, <2>4, <2>5, Zenon
  <2>6. CASE i # n
    BY <1>8, <2>1, <2>2, <2>4, <2>6, Zenon
  <2> QED BY <2>5, <2>6, Zenon
<1>11. stack' = Append(u, h)
  BY Zenon DEF u
<1>12. stack' \in Seq(SoundFrames') /\ Nested(stack')
  <2>1. \A i \in 1..Len(u) : /\ Len(u[i].dir) < Len(h.dir)
                              /\ h.dir \notin u[i].dirs /\ h.dir \notin u[i].files
    BY <1>3, <1>10, Zenon
  <2>2. Append(u, h) \in Seq(SoundFrames') /\ Nested(Append(u, h))
    BY <1>7, <1>8, <2>1, FrameAdded
  <2> QED BY <1>11, <2>2, Zenon
<1>13. ASSUME NEW i \in 1..Len(stack') PROVE stack'[i].walk = "nested" => Head(todo).op = "missing"
  <2>1. /\ Len(stack') = n + 1 /\ \A k \in 1..n : stack'[k] = u[k]
        /\ stack'[n + 1] = h
    BY <1>3, <1>7, <1>8, <1>11, SeqAppend
  <2>2. i \in 1..n \/ i = n + 1
    BY <1>1, <2>1
  <2>3. \A k \in 1..n : stack[k].walk = "nested" => Head(todo).op = "missing"
    BY Zenon DEF WalkInv
  <2>4. CASE i \in 1..n
    BY <1>3, <1>7, <2>1, <2>3, <2>4, Zenon
  <2>5. CASE i = n + 1
    BY <1>1, <1>8, <2>1, <2>3, <2>5, Zenon
  <2> QED BY <2>2, <2>4, <2>5, Zenon
<1>14. todo' \in Seq(SoundJobs') /\ todo' # <<>>
  BY Undisturbed, Zenon DEF WalkInv
<1> QED BY <1>12, <1>13, <1>14, Undisturbed, Zenon DEF WalkInv

(* The walk goes down into an extra directory. *)
LEMMA EnterExtraDirKeeps == WalkInv /\ EnterExtraDir => WalkInv'
<1> SUFFICES ASSUME WalkInv, EnterExtraDir PROVE WalkInv'
  BY Zenon
<1>1. stack # <<>> /\ UNCHANGED <<session, tree, deferred, removed>> /\ todo' = todo
  BY Zenon DEF EnterExtraDir
<1>2. PICK p \in Greatest(Top.dirs) :
        stack' = Append([stack EXCEPT ![Len(stack)].dirs = @ \ {p}], ChildFrame(Top, p, TRUE))
  BY Zenon DEF EnterExtraDir
<1> DEFINE g == [Top EXCEPT !.dirs = Top.dirs \ {p}]
<1>3. Top \in SoundFrames /\ Top \in Frames /\ FrameSound(Top) /\ p \in Top.dirs
  BY <1>1, <1>2, StackIs, Zenon DEF Greatest
<1>4. g \in Frames /\ Narrows(g, Top) /\ g.dirs = Top.dirs \ {p} /\ g.files = Top.files
  BY <1>3 DEF Frames, Narrows
<1>5. stack' = Append([stack EXCEPT ![Len(stack)] = g], ChildFrame(Top, p, TRUE))
  BY <1>2, Zenon DEF Top
<1>6. p \in Paths /\ Entry(Top.dir, p) /\ tree[p] = "dir"
  BY <1>3, Zenon DEF FrameSound, Waiting
<1>7. p \notin Top.files
  BY <1>3, <1>6, Zenon DEF FrameSound, Waiting
<1>8. IsFrameOf(ChildFrame(Top, p, TRUE), Top.walk, p)
  BY <1>3, ExtraChildIsSound, Zenon DEF WalkInv
<1> HIDE DEF g
<1> QED BY <1>1, <1>4, <1>5, <1>6, <1>7, <1>8, Entered, Zenon

(* The walk goes down into a directory it keeps. *)
LEMMA EnterKeptDirKeeps == WalkInv /\ EnterKeptDir => WalkInv'
<1> SUFFICES ASSUME WalkInv, EnterKeptDir PROVE WalkInv'
  BY Zenon
<1>1. /\ stack # <<>> /\ UNCHANGED <<session, tree, deferred, removed>> /\ todo' = todo
      /\ Top.dirs = {} /\ Top.files = {}
  BY Zenon DEF EnterKeptDir
<1>2. PICK p \in Least(Top.kept) :
        stack' = Append([stack EXCEPT ![Len(stack)].kept = @ \ {p}], ChildFrame(Top, p, FALSE))
  BY Zenon DEF EnterKeptDir
<1> DEFINE g == [Top EXCEPT !.kept = Top.kept \ {p}]
<1>3. Top \in SoundFrames /\ Top \in Frames /\ FrameSound(Top) /\ p \in Top.kept
  BY <1>1, <1>2, StackIs, Zenon DEF Least
<1>4. g \in Frames /\ Narrows(g, Top) /\ g.dirs = Top.dirs /\ g.files = Top.files /\ p \in Paths
  BY <1>3 DEF Frames, Narrows
<1>5. stack' = Append([stack EXCEPT ![Len(stack)] = g], ChildFrame(Top, p, FALSE))
  BY <1>2, Zenon DEF Top
<1>6. Entry(Top.dir, p)
  BY <1>3, Zenon DEF FrameSound
<1>7. IsFrameOf(ChildFrame(Top, p, FALSE), Top.walk, p)
  BY <1>3, KeptChildIsSound, Zenon DEF WalkInv
<1> HIDE DEF g
<1> QED BY <1>1, <1>4, <1>5, <1>6, <1>7, Entered, Zenon

\* A shorter path lies under none that is longer.
LEMMA Shorter == \A p, q \in Path : Len(q) < Len(p) => ~AtOrUnder(q, p)
<1> SUFFICES ASSUME NEW p \in Path, NEW q \in Path, Len(q) < Len(p), AtOrUnder(q, p) PROVE FALSE
  BY Zenon
<1>1. Len(p) <= Len(q)
  BY UnderOrder, Zenon
<1>2. Len(p) \in Nat /\ Len(q) \in Nat
  BY DEF Path
<1> QED BY <1>1, <1>2

\* A step of a walk that goes on.
LEMMA Worked ==
    ASSUME WalkInv, stack # <<>>, UNCHANGED session, NEW outcome, NEW p, Permitted(outcome, p),
           Apply(outcome, p), todo' = todo, stack' \in Seq(Frames), Len(stack') <= Len(stack),
           \A i \in 1..Len(stack') : Narrows(stack'[i], stack[i]) /\ Untouched(stack'[i])
    PROVE  WalkInv'
<1>1. todo # <<>> /\ stack \in Seq(SoundFrames) /\ Nested(stack)
  BY Zenon DEF WalkInv
<1>2. /\ tree' \in [Paths -> TreeKinds] /\ deferred' \in Seq(Deferrables')
      /\ removed' \in Seq(Records) /\ ProtectedSurvive'
  BY <1>1, ApplyKeeps, Zenon
<1>3. /\ stack' \in Seq(SoundFrames') /\ Nested(stack')
      /\ \A i \in 1..Len(stack') : stack'[i].walk = stack[i].walk
  BY <1>1, FramesStay, Zenon
<1>4. \A i \in 1..Len(stack') : i \in 1..Len(stack)
  <2>1. Len(stack) \in Nat /\ Len(stack') \in Nat
    BY <1>1, <1>3, SeqParts, Zenon
  <2> QED BY <2>1
<1>5. \A i \in 1..Len(stack') : stack'[i].walk = "nested" => Head(todo).op = "missing"
  BY <1>3, <1>4, Zenon DEF WalkInv
<1>6. Setting' /\ todo' \in Seq(SoundJobs')
  BY ContextStays, Zenon DEF WalkInv
<1> QED BY <1>1, <1>2, <1>3, <1>5, <1>6, Zenon DEF WalkInv

\* A step that ends a job.
LEMMA Settled ==
    ASSUME WalkInv, todo # <<>>, UNCHANGED session, NEW outcome, NEW p, Permitted(outcome, p),
           Apply(outcome, p), todo' = Tail(todo), stack' = <<>>
    PROVE  WalkInv'
<1>1. /\ tree' \in [Paths -> TreeKinds] /\ deferred' \in Seq(Deferrables')
      /\ removed' \in Seq(Records) /\ ProtectedSurvive'
  BY ApplyKeeps, Zenon
<1>2. Setting' /\ todo' \in Seq(SoundJobs')
  BY ContextStays, SeqParts, Zenon DEF WalkInv
<1>3. stack' \in Seq(SoundFrames')
  OBVIOUS
<1>4. Nested(stack')
  BY DEF Nested
<1> QED BY <1>1, <1>2, <1>3, <1>4, Zenon DEF WalkInv

\* A step that begins a walk.
LEMMA Begun ==
    ASSUME WalkInv, todo # <<>>, UNCHANGED <<session, tree, deferred, removed>>, todo' = todo,
           NEW f \in SoundFrames, f.walk = "nested" => Head(todo).op = "missing", stack' = <<f>>
    PROVE  WalkInv'
<1>1. stack' \in Seq(SoundFrames') /\ Len(stack') = 1 /\ stack'[1] = f
  <2>1. f \in SoundFrames'
    BY Undisturbed, Zenon
  <2> QED BY <2>1, SeqOne
<1>2. \A i \in 1..Len(stack') : i = 1
  BY <1>1
<1>3. Nested(stack')
  <2>1. ~(1 < 1)
    OBVIOUS
  <2> QED BY <1>2, <2>1, Zenon DEF Nested
<1>4. \A i \in 1..Len(stack') : stack'[i].walk = "nested" => Head(todo).op = "missing"
  BY <1>1, <1>2, Zenon
<1> QED BY <1>1, <1>3, <1>4, Undisturbed, Zenon DEF WalkInv

\* The turn of a file: what becomes of it is permitted.
LEMMA FilePermitted ==
    ASSUME WalkInv, stack # <<>>, NEW p \in Top.files
    PROVE  Permitted(Outcome(Top.walk, Forced(Top, p), p), p)
<1> DEFINE outcome == Outcome(Top.walk, Forced(Top, p), p)
<1>1. FrameSound(Top) /\ todo # <<>> /\ Top = stack[Len(stack)] /\ Len(stack) \in 1..Len(stack)
  BY StackIs, Zenon DEF Top, WalkInv
<1>2. /\ p \in Paths /\ Entry(Top.dir, p) /\ tree[p] = "file"
      /\ Top.walk # "nested" => Clear(p)
      /\ Doomed(Top.walk, p, "file") /\ Waiting(Top.walk, Top.dir, p, "file")
  BY <1>1, Zenon DEF FrameSound, Waiting
<1>3. outcome = "removed" => BudgetAvailable
  BY OutcomeIs, Zenon
<1>4. outcome = "deferred" =>
        Top.walk = "plan" /\ ~Forced(Top, p) /\ Len(deferred) < ServerLimit /\ opts.timing = "delay"
  BY OutcomeIs, Zenon
<1>5. /\ outcome = "limit" => ~BudgetAvailable
      /\ outcome = "capped" => ~(Len(deferred) < ServerLimit)
  BY OutcomeIs, Zenon
<1> HIDE DEF outcome
<1>6. Head(todo).op # "missing" => Top.walk # "nested"
  BY <1>1, Zenon DEF WalkInv
<1>7. Head(todo).op # "missing" => ~MustSurvive(p) /\ InScope(p)
  BY <1>2, <1>6, InScopeIs, Zenon DEF Doomed
<1>8. source[p] # "file" /\ tree[p] # "dir"
  BY <1>2, Zenon DEF Doomed
<1>9. outcome = "deferred" => Deferrable(p)
  <2> SUFFICES ASSUME Top.walk = "plan", ~Forced(Top, p) PROVE Deferrable(p)
    BY <1>4, Zenon
  <2>1. source[p] = "none"
    BY <1>1, <1>2, PutOff, Zenon DEF WalkInv
  <2> QED BY <1>2, <2>1, Zenon DEF Deferrable
<1>10. Permitted(outcome, p)
  BY <1>2, <1>3, <1>4, <1>5, <1>7, <1>8, <1>9, Zenon DEF Permitted
<1> QED BY <1>10, Zenon DEF outcome

\* A file that has had its turn.
Passed(g, f, p) == g \in Frames /\ Narrows(g, f) /\ g.files = f.files \ {p} /\ g.dirs = f.dirs

(* The frame after the file was handled. *)
LEMMA FileDone ==
    ASSUME NEW f \in Frames, NEW p, NEW sv \in BOOLEAN
    PROVE  Passed([f EXCEPT !.files = f.files \ {p}, !.survives = sv], f, p)
<1> DEFINE g1 == [f EXCEPT !.files = f.files \ {p}]
           g == [g1 EXCEPT !.survives = sv]
<1>1. g1 \in Frames /\ Narrows(g1, f) /\ g1.files = f.files \ {p} /\ g1.dirs = f.dirs
  BY DEF Frames, Narrows
<1> HIDE DEF g1
<1>2. g \in Frames /\ Narrows(g, g1) /\ g.files = g1.files /\ g.dirs = g1.dirs
  BY <1>1 DEF Frames, Narrows
<1> HIDE DEF g
<1>3. Narrows(g, f)
  BY <1>1, <1>2, Zenon DEF Narrows
<1> QED BY <1>1, <1>2, <1>3, Zenon DEF g, g1, Passed

(* The walk removes, defers or refuses an extra file. *)
LEMMA RemoveExtraFileKeeps == WalkInv /\ RemoveExtraFile => WalkInv'
<1> SUFFICES ASSUME WalkInv, RemoveExtraFile PROVE WalkInv'
  BY Zenon
<1>1. stack # <<>> /\ UNCHANGED session /\ todo' = todo /\ todo # <<>>
  BY Zenon DEF RemoveExtraFile, WalkInv
<1>2. PICK p \in Greatest(Top.files) :
         LET outcome == Outcome(Top.walk, Forced(Top, p), p)
         IN  /\ Apply(outcome, p)
             /\ stack' = [stack EXCEPT ![Len(stack)] =
                    [Top EXCEPT !.files = @ \ {p},
                                !.survives = @ \/ Survives(outcome, Top.walk, "file")]]
  BY Zenon DEF RemoveExtraFile
<1> DEFINE outcome == Outcome(Top.walk, Forced(Top, p), p)
           sv == Top.survives \/ Survives(outcome, Top.walk, "file")
           g == [Top EXCEPT !.files = Top.files \ {p}, !.survives = sv]
           n == Len(stack)
<1>3. Apply(outcome, p) /\ stack' = [stack EXCEPT ![n] = g]
  BY <1>2, Zenon
<1>4. /\ Top \in SoundFrames /\ Top \in Frames /\ FrameSound(Top) /\ p \in Top.files
      /\ stack \in Seq(Frames) /\ n \in 1..n /\ Top = stack[n]
  BY <1>1, <1>2, StackIs, Zenon DEF Greatest, Top
<1>5. /\ p \in Paths /\ p \in Path /\ Entry(Top.dir, p) /\ tree[p] = "file"
      /\ Top.walk # "nested" => Clear(p)
      /\ Doomed(Top.walk, p, "file") /\ Waiting(Top.walk, Top.dir, p, "file")
  BY <1>4, PathsArePaths, Zenon DEF FrameSound, Waiting
<1>6. Permitted(outcome, p)
  BY <1>1, <1>4, FilePermitted, Zenon
<1> HIDE DEF outcome
<1>7. sv \in BOOLEAN
  <2>1. Top.survives \in BOOLEAN
    BY <1>4 DEF Frames
  <2> QED BY <2>1, Zenon DEF Survives
<1> HIDE DEF sv
<1>8. g \in Frames /\ Narrows(g, Top) /\ g.files = Top.files \ {p} /\ g.dirs = Top.dirs
  <2>1. \A b \in BOOLEAN : Passed([Top EXCEPT !.files = Top.files \ {p}, !.survives = b], Top, p)
    BY <1>4, FileDone, Zenon
  <2>2. Passed(g, Top, p)
    BY <1>7, <2>1, Zenon
  <2> QED BY <2>2, Zenon DEF Passed
<1> HIDE DEF g
<1>9. Replaced(stack', stack, g)
  BY <1>1, <1>3, <1>4, <1>8, TopChanged, Zenon
<1>10. stack' \in Seq(Frames) /\ Len(stack') = n /\ stack'[n] = g /\ \A i \in 1..n : i # n => stack'[i] = stack[i]
  BY <1>9, Zenon DEF Replaced
<1>11. \A i \in 1..n : Narrows(stack'[i], stack[i])
  BY <1>4, <1>8, <1>10, NarrowsSelf, Zenon
<1>12. \A q \in Paths : ~AtOrUnder(q, p) => tree'[q] = tree[q]
  BY <1>1, <1>3, <1>6, ApplyKeeps, Zenon
<1>13. ASSUME NEW i \in 1..n PROVE Untouched(stack'[i])
  <2>1. /\ stack[i].dir \in Dirs /\ Len(stack[i].dir) <= Len(Top.dir)
        /\ \A q \in stack[i].dirs : q \in Paths /\ Len(q) = Len(stack[i].dir) + 1 /\ tree[q] = "dir"
        /\ \A q \in stack[i].files : q \in Paths /\ Len(q) = Len(stack[i].dir) + 1
        /\ i # n => Len(stack[i].dir) < Len(Top.dir)
        /\ stack[i] \in SoundFrames
    BY <1>1, StackIs, SeqParts, Zenon
  <2>2. Len(stack[i].dir) \in Nat /\ Len(Top.dir) \in Nat /\ Len(p) = Len(Top.dir) + 1
    BY <1>4, <1>5, <2>1, PathsArePaths, Zenon DEF Entry, FrameSound, Seed
  <2>3. Len(stack[i].dir) < Len(p) /\ (i # n => Len(stack[i].dir) + 1 < Len(p))
    BY <2>1, <2>2
  <2>4. ASSUME NEW q \in Paths, Len(q) = Len(stack[i].dir) + 1, q # p PROVE ~AtOrUnder(q, p)
    <3>1. q \in Path
      BY PathsArePaths, Zenon
    <3>2. CASE i # n
      BY <1>5, <2>3, <2>4, <3>1, <3>2, Shorter, Zenon
    <3>3. CASE i = n
      BY <1>4, <1>5, <2>2, <2>4, <3>1, <3>3, UnderOrder, Zenon
    <3> QED BY <3>2, <3>3, Zenon
  <2>5. p \notin stack'[i].dirs /\ p \notin stack'[i].files
    <3>1. CASE i = n
      BY <1>5, <1>8, <1>10, <2>1, <1>4, <3>1, Zenon
    <3>2. CASE i # n
      <4>1. stack'[i] = stack[i] /\ ~(Len(p) = Len(stack[i].dir) + 1)
        BY <1>10, <2>2, <2>3, <3>2
      <4> QED BY <2>1, <4>1, Zenon
    <3> QED BY <3>1, <3>2, Zenon
  <2>6. stack'[i].dirs \in SUBSET stack[i].dirs /\ stack'[i].files \in SUBSET stack[i].files
    BY <1>11, Zenon DEF Narrows
  <2>7. stack'[i].extra => stack[i].dir \in Paths /\ stack'[i].dir = stack[i].dir
    BY <1>11, <2>1, Zenon DEF Narrows, SoundFrames, FrameSound, Seed
  <2>8. ~AtOrUnder(stack[i].dir, p)
    BY <1>5, <2>1, <2>3, Shorter, PathsArePaths, Zenon
  <2> QED BY <1>12, <2>1, <2>4, <2>5, <2>6, <2>7, <2>8, Zenon DEF Untouched
<1>14. Len(stack') <= Len(stack)
  BY <1>4, <1>10
<1> QED BY <1>1, <1>3, <1>6, <1>10, <1>11, <1>13, <1>14, Worked, Zenon

\* Leaving a directory: what becomes of it is permitted.
LEMMA LeavePermitted ==
    ASSUME WalkInv, stack # <<>>, NEW last \in BOOLEAN, NEW outcome,
           outcome = IF last /\ Top.walk = "nested"
                       THEN IF ~ok THEN "stuck" ELSE IF ~BudgetAvailable THEN "limit"
                            ELSE IF Top.dir \in opts.stuck THEN "stuck" ELSE "removed"
                     ELSE IF Top.extra /\ ~Top.survives THEN Outcome(Top.walk, Top.force, Top.dir)
                     ELSE "kept"
    PROVE  Permitted(outcome, Top.dir)
<1> DEFINE p == Top.dir
<1>1. /\ FrameSound(Top) /\ p \in Dirs /\ Seed(Top.walk, p, Top.keeps, Top.force, Top.deletable, Top.extra)
      /\ Setting
  BY StackIs, Zenon DEF FrameSound, Seed, WalkInv
<1>2. Top.walk = "nested" => Head(todo).op = "missing"
  BY StackIs, Zenon DEF WalkInv, Top
<1> HIDE DEF p
<1>3. CASE last /\ Top.walk = "nested"
  <2>1. (outcome = "removed" => BudgetAvailable) /\ (outcome = "limit" => ~BudgetAvailable)
    BY <1>3, Zenon
  <2>2. outcome \in {"stuck", "limit", "removed"}
    BY <1>3, Zenon
  <2>3. Under(p, Range(opts.missing))
    BY <1>1, <1>3, Zenon DEF Seed
  <2>4. p # Root
    <3>1. PICK q \in Range(opts.missing) : AtOrUnder(p, q)
      BY <2>3, Zenon DEF Under
    <3>2. q \in Path /\ Len(q) > 0 /\ Root \in Path /\ Len(Root) = 0
      BY <1>1, ConfigIs, PathsArePaths, Zenon
    <3>3. Len(Root) < Len(q)
      BY <3>2
    <3> QED BY <3>1, <3>2, <3>3, Shorter, Zenon
  <2>5. p \in Paths
    BY <1>1, <2>4, Zenon DEF Dirs
  <2>6. source[p] = "none"
    BY <1>1, <2>3, <2>5, Absent, Zenon
  <2>7. Permitted(outcome, p)
    BY <1>2, <1>3, <2>1, <2>2, <2>5, <2>6, Zenon DEF Permitted, IsDirectory
  <2> QED BY <2>7, Zenon DEF p
<1>4. CASE ~(last /\ Top.walk = "nested") /\ Top.extra /\ ~Top.survives
  <2>1. outcome = Outcome(Top.walk, Top.force, p)
    BY <1>4, Zenon DEF p
  <2>2. outcome = "removed" => BudgetAvailable
    BY <2>1, OutcomeIs, Zenon
  <2>3. outcome = "deferred" =>
          Top.walk = "plan" /\ ~Top.force /\ Len(deferred) < ServerLimit /\ opts.timing = "delay"
    BY <2>1, OutcomeIs, Zenon
  <2>9. /\ outcome = "limit" => ~BudgetAvailable
        /\ outcome = "capped" => ~(Len(deferred) < ServerLimit)
    BY <2>1, OutcomeIs, Zenon
  <2>4. p \in Paths /\ tree[p] = "dir" /\ Doomed(Top.walk, p, "dir") /\ (Top.walk # "nested" => Clear(p))
    BY <1>1, <1>4, Zenon DEF Seed
  <2>5. ~IsDirectory(source[p])
    BY <2>4, Zenon DEF Doomed
  <2>6. Head(todo).op # "missing" => ~MustSurvive(p) /\ InScope(p)
    BY <1>2, <2>4, InScopeIs, Zenon DEF Doomed
  <2>7. outcome = "deferred" => Deferrable(p)
    <3> SUFFICES ASSUME Top.walk = "plan", ~Top.force PROVE Deferrable(p)
      BY <2>3, Zenon
    <3>1. source[p] = "none"
      BY <1>1, <1>4, Zenon DEF Seed
    <3> QED BY <2>4, <3>1, Zenon DEF Deferrable, Doomed
  <2>8. Permitted(outcome, p)
    BY <2>2, <2>3, <2>4, <2>5, <2>6, <2>7, <2>9, Zenon DEF Permitted
  <2> QED BY <2>8, Zenon DEF p
<1>5. CASE ~(last /\ Top.walk = "nested") /\ ~(Top.extra /\ ~Top.survives)
  <2>1. outcome = "kept"
    BY <1>5, Zenon
  <2> QED BY <2>1, Zenon DEF Permitted
<1> QED BY <1>3, <1>4, <1>5, Zenon

\* The frame above hears whether its subdirectory stays.
LEMMA Heard ==
    ASSUME NEW f \in Frames, NEW stays \in BOOLEAN
    PROVE  LET g == [f EXCEPT !.survives = f.survives \/ stays] IN g \in Frames /\ Narrows(g, f)
<1>1. (f.survives \/ stays) \in BOOLEAN
  BY Zenon
<1> DEFINE b == f.survives \/ stays
<1> HIDE DEF b
<1>2. \A c \in BOOLEAN : LET g == [f EXCEPT !.survives = c] IN g \in Frames /\ Narrows(g, f)
  BY DEF Frames, Narrows
<1>3. b \in BOOLEAN
  BY <1>1, Zenon DEF b
<1>4. LET g == [f EXCEPT !.survives = b] IN g \in Frames /\ Narrows(g, f)
  BY <1>2, <1>3, Zenon
<1> QED BY <1>4, Zenon DEF b

(* The walk leaves a directory, and removes it when it is extra and empty. *)
LEMMA LeaveDirKeeps == WalkInv /\ LeaveDir => WalkInv'
<1> SUFFICES ASSUME WalkInv, LeaveDir PROVE WalkInv'
  BY Zenon
<1> DEFINE p == Top.dir
           last == Len(stack) = 1
           outcome ==
             IF last /\ Top.walk = "nested"
               THEN IF ~ok THEN "stuck" ELSE IF ~BudgetAvailable THEN "limit"
                    ELSE IF p \in opts.stuck THEN "stuck" ELSE "removed"
             ELSE IF Top.extra /\ ~Top.survives THEN Outcome(Top.walk, Top.force, p)
             ELSE "kept"
           stays == outcome = "kept" \/ Survives(outcome, Top.walk, "dir")
           w == SubSeq(stack, 1, Len(stack) - 1)
           n == Len(stack)
<1>1. stack # <<>> /\ UNCHANGED session /\ todo # <<>> /\ Apply(outcome, p)
  BY Zenon DEF LeaveDir, WalkInv
<1>2. IF last THEN stack' = <<>> /\ todo' = Tail(todo)
      ELSE /\ stack' = [w EXCEPT ![n - 1] = [w[n - 1] EXCEPT !.survives = w[n - 1].survives \/ stays]]
           /\ todo' = todo
  BY Zenon DEF LeaveDir
<1>3. Permitted(outcome, p)
  BY <1>1, LeavePermitted, Zenon
<1>4. stays \in BOOLEAN
  BY Zenon DEF Survives
<1>5. /\ stack \in Seq(Frames) /\ n \in 1..n /\ n \in Nat /\ Top = stack[n]
  BY <1>1, StackIs, SeqParts, Zenon DEF Top
<1> HIDE DEF outcome, stays
<1>6. CASE last
  BY <1>1, <1>2, <1>3, <1>6, Settled, Zenon
<1>7. CASE ~last
  <2>1. n > 1
    <3>1. n # 1
      BY <1>7, Zenon
    <3> HIDE DEF n
    <3> QED BY <1>5, <3>1
  <2>2. /\ w \in Seq(Frames) /\ Len(w) = n - 1 /\ w # <<>>
        /\ \A i \in 1..(n - 1) : w[i] = stack[i]
        /\ w[n - 1] = stack[n - 1]
    BY <1>5, <2>1, TopDropped, Zenon
  <2> HIDE DEF w
  <2> DEFINE f == w[n - 1]
             g == [f EXCEPT !.survives = f.survives \/ stays]
  <2>3. n - 1 \in 1..(n - 1) /\ \A i \in 1..(n - 1) : i \in 1..n /\ i # n
    BY <1>5, <2>1
  <2>4. f \in Frames
    BY <2>2, <2>3, SeqParts, Zenon
  <2>5. stack' = [w EXCEPT ![Len(w)] = g]
    BY <1>2, <1>7, <2>2, Zenon
  <2>6. g \in Frames /\ Narrows(g, f)
    <3> HIDE DEF f
    <3> QED BY <1>4, <2>4, Heard, Zenon
  <2> HIDE DEF g
  <2>7. Replaced(stack', w, g)
    BY <2>2, <2>5, <2>6, TopChanged, Zenon
  <2>8. /\ stack' \in Seq(Frames) /\ Len(stack') = n - 1 /\ stack'[n - 1] = g
        /\ \A i \in 1..(n - 1) : i # n - 1 => stack'[i] = stack[i]
    BY <2>2, <2>7, Zenon DEF Replaced
  <2>9. \A i \in 1..(n - 1) : Narrows(stack'[i], stack[i])
    BY <2>2, <2>6, <2>8, NarrowsSelf, Zenon
  <2>10. /\ outcome # "removed" => tree' = tree
         /\ \A q \in Paths : ~AtOrUnder(q, p) => tree'[q] = tree[q]
    BY <1>1, <1>3, ApplyKeeps, Zenon
  <2>11. ASSUME NEW i \in 1..(n - 1) PROVE Untouched(stack'[i])
    <3>1. i \in 1..n /\ i # n
      BY <2>3, Zenon
    <3>2. /\ stack[i].dir \in Dirs /\ Len(stack[i].dir) < Len(p)
          /\ \A q \in stack[i].dirs : q \in Paths /\ Len(q) = Len(stack[i].dir) + 1
          /\ \A q \in stack[i].files : q \in Paths /\ Len(q) = Len(stack[i].dir) + 1
          /\ p \notin stack[i].dirs /\ p \notin stack[i].files
          /\ stack[i] \in SoundFrames
      BY <1>1, <3>1, StackIs, SeqParts, Zenon
    <3>3. /\ stack'[i].dirs \in SUBSET stack[i].dirs /\ stack'[i].files \in SUBSET stack[i].files
          /\ stack'[i].extra = stack[i].extra /\ stack'[i].dir = stack[i].dir
      BY <2>9, Zenon DEF Narrows
    <3>4. CASE outcome # "removed"
      BY <2>10, <3>4, Zenon DEF Untouched
    <3>5. CASE outcome = "removed"
      <4>1. p \in Paths /\ p \in Path
        BY <1>3, <3>5, PathsArePaths, Zenon DEF Permitted
      <4>2. Len(stack[i].dir) \in Nat /\ Len(p) \in Nat /\ stack[i].dir \in Path
        BY <3>2, <4>1, PathsArePaths, Zenon
      <4>3. ASSUME NEW q \in Paths, Len(q) = Len(stack[i].dir) + 1, q # p PROVE ~AtOrUnder(q, p)
        <5>1. q \in Path
          BY PathsArePaths, Zenon
        <5>2. Len(q) < Len(p) \/ Len(q) = Len(p)
          BY <3>2, <4>2, <4>3
        <5> QED BY <4>1, <4>3, <5>1, <5>2, Shorter, UnderOrder, Zenon
      <4>4. ~AtOrUnder(stack[i].dir, p)
        BY <3>2, <4>1, <4>2, Shorter, Zenon
      <4>5. stack[i].extra => stack[i].dir \in Paths
        BY <3>2, Zenon DEF SoundFrames, FrameSound, Seed
      <4> HIDE DEF p
      <4> QED BY <2>10, <3>2, <3>3, <4>3, <4>4, <4>5, Zenon DEF Untouched
    <3> QED BY <3>4, <3>5, Zenon
  <2>12. Len(stack') <= Len(stack)
    BY <1>5, <2>8
  <2>13. \A i \in 1..Len(stack') : Narrows(stack'[i], stack[i]) /\ Untouched(stack'[i])
    BY <2>8, <2>9, <2>11, Zenon
  <2>14. todo' = todo
    BY <1>2, <1>7, Zenon
  <2> QED BY <1>1, <1>3, <2>8, <2>12, <2>13, <2>14, Worked, Zenon
<1> QED BY <1>6, <1>7, Zenon

---------------------------------------------------------------------------
(* The jobs. *)

\* The job at hand.
LEMMA JobIs ==
    ASSUME WalkInv, NEW op, Job(op)
    PROVE  /\ stack = <<>> /\ todo # <<>> /\ Head(todo) \in SoundJobs /\ Head(todo).op = op
           /\ Head(todo).path \in Dirs /\ JobSound(Head(todo))
<1>1. todo # <<>> /\ Head(todo) \in SoundJobs /\ stack = <<>> /\ Head(todo).op = op
  BY SeqParts, Zenon DEF WalkInv, Job
<1>2. Head(todo).path \in Dirs
  BY <1>1 DEF SoundJobs
<1> QED BY <1>1, <1>2, Zenon DEF SoundJobs

(* The next walk of the agenda starts. *)
LEMMA StartWalkKeeps == WalkInv /\ StartWalk => WalkInv'
<1> SUFFICES ASSUME WalkInv, StartWalk PROVE WalkInv'
  BY Zenon
<1>1. PICK op \in {"extras", "list"} : Job(op) /\ stack' = <<BaseFrame(op, Root)>>
  BY Zenon DEF StartWalk
<1>2. UNCHANGED <<session, tree, deferred, removed>> /\ todo' = todo
  BY Zenon DEF StartWalk
<1>3. Setting /\ Clear(Root) /\ Root \in Dirs /\ AtOrUnder(Root, Root)
  BY StartsClear, UnderOrder, PathsArePaths, Zenon DEF WalkInv, Dirs
<1>4. Seed(op, Root, FALSE, FALSE, Root \in opts.synced, FALSE)
  <2>1. (Root \in opts.synced) \in BOOLEAN
    OBVIOUS
  <2>2. Root \in opts.synced => Under(Root, opts.synced)
    BY <1>3, Zenon DEF Under
  <2> QED BY <1>1, <1>3, <2>1, <2>2, Zenon DEF Seed, Walks
<1>5. op # "nested" /\ op # "plan"
  BY <1>1, Zenon
<1>6. BaseFrame(op, Root) = NewFrame(op, Root, FALSE, FALSE, Root \in opts.synced, FALSE)
  <2>1. (op = "plan") = FALSE /\ (op = "nested" \/ Root \in opts.synced) = (Root \in opts.synced)
    BY <1>5
  <2> QED BY <2>1, Zenon DEF BaseFrame, NewFrame
<1>7. IsFrameOf(BaseFrame(op, Root), op, Root)
  BY <1>3, <1>4, <1>6, FrameIsSound, Zenon DEF WalkInv
<1>8. todo # <<>>
  BY <1>1, Zenon DEF Job
<1> QED BY <1>1, <1>2, <1>5, <1>7, <1>8, Begun, Zenon DEF IsFrameOf

(* The plan of a directory is applied. *)
LEMMA ApplyPlanKeeps == WalkInv /\ ApplyPlan => WalkInv'
<1> SUFFICES ASSUME WalkInv, ApplyPlan PROVE WalkInv'
  BY Zenon
<1> DEFINE d == Head(todo).path
<1>1. UNCHANGED <<session, tree, deferred, removed>> /\ Job("plan")
  BY Zenon DEF ApplyPlan
<1>2. /\ stack = <<>> /\ todo # <<>> /\ Head(todo).op = "plan" /\ d \in Dirs
      /\ Under(d, opts.synced) /\ (d # Root => source[d] = "dir")
  BY <1>1, JobIs, Zenon DEF JobSound
<1>3. CASE DirIn(tree, d)
  <2>1. stack' = <<BaseFrame("plan", d)>> /\ todo' = todo
    BY <1>3, Zenon DEF ApplyPlan
  <2>2. Setting /\ Clear(d)
    BY <1>2, StartsClear, Zenon DEF WalkInv, Dirs
  <2>3. Seed("plan", d, TRUE, FALSE, d \in opts.synced, FALSE)
    <3>1. (d \in opts.synced) \in BOOLEAN
      OBVIOUS
    <3> QED BY <1>2, <2>2, <3>1, Zenon DEF Seed, Walks
  <2>4. BaseFrame("plan", d) = NewFrame("plan", d, TRUE, FALSE, d \in opts.synced, FALSE)
    <3>1. ("plan" = "plan") = TRUE /\ ("plan" = "nested" \/ d \in opts.synced) = (d \in opts.synced)
      OBVIOUS
    <3> QED BY <3>1, Zenon DEF BaseFrame, NewFrame
  <2>5. IsFrameOf(BaseFrame("plan", d), "plan", d)
    BY <2>2, <2>3, <2>4, FrameIsSound, Zenon DEF WalkInv
  <2> QED BY <1>1, <1>2, <2>1, <2>5, Begun, Zenon DEF IsFrameOf
<1>4. CASE ~DirIn(tree, d)
  <2>1. stack' = stack /\ todo' = Tail(todo)
    BY <1>4, Zenon DEF ApplyPlan
  <2>2. todo' \in Seq(SoundJobs')
    BY <1>2, <2>1, Undisturbed, <1>1, SeqParts, Zenon DEF WalkInv
  <2>3. stack' \in Seq(SoundFrames') /\ Nested(stack')
    BY <1>2, <2>1 DEF Nested
  <2> QED BY <1>1, <1>2, <2>1, <2>2, <2>3, Undisturbed, Zenon DEF WalkInv
<1> QED BY <1>3, <1>4, Zenon

\* A missing argument, and a path of the snapshot: what becomes of them is
\* permitted.
LEMMA MissingPermitted ==
    ASSUME WalkInv, Job("missing"), NEW outcome,
           outcome = IF PathUnderSkipPrefix(Head(todo).path, opts.basis) \/ tree[Head(todo).path] = "none"
                       THEN "kept"
                     ELSE IF ~BudgetAvailable THEN "limit"
                     ELSE IF tree[Head(todo).path] = "dir" /\ Children(tree, Head(todo).path) # {}
                       THEN IF opts.use_delete \/ opts.force THEN "walk" ELSE "kept"
                     ELSE IF Head(todo).path \in opts.stuck THEN "stuck"
                     ELSE "removed"
    PROVE  Permitted(outcome, Head(todo).path)
<1> DEFINE p == Head(todo).path
<1>1. Head(todo).op = "missing" /\ p \in Range(opts.missing) /\ Setting
  BY JobIs, Zenon DEF JobSound, WalkInv
<1>2. p \in Paths /\ p \in Path /\ AtOrUnder(p, p)
  BY <1>1, ConfigIs, PathsArePaths, UnderOrder, Zenon
<1>3. source[p] = "none"
  BY <1>1, <1>2, Absent, Zenon DEF Under
<1>4. (outcome = "removed" => BudgetAvailable) /\ (outcome = "limit" => ~BudgetAvailable)
  BY Zenon
<1>5. outcome \in {"kept", "limit", "walk", "stuck", "removed"}
  BY Zenon
<1> HIDE DEF p
<1>6. Permitted(outcome, p)
  BY <1>1, <1>2, <1>3, <1>4, <1>5, Zenon DEF Permitted, IsDirectory
<1> QED BY <1>6, Zenon DEF p

(* A deferred path may go when its turn comes. *)
LEMMA DeferredPermitted ==
    ASSUME WalkInv, Job("deferred"), NEW outcome,
           outcome = IF tree[Head(todo).path] = "none" THEN "kept"
                     ELSE IF ~BudgetAvailable THEN "limit"
                     ELSE IF tree[Head(todo).path] = "dir" THEN "walk"
                     ELSE Outcome("plan", TRUE, Head(todo).path)
    PROVE  Permitted(outcome, Head(todo).path)
<1> DEFINE p == Head(todo).path
<1>1. Head(todo).op = "deferred" /\ p \in Deferrables
  BY JobIs, Zenon DEF JobSound
<1>2. p \in Paths /\ source[p] = "none" /\ ~MustSurvive(p) /\ InScope(p)
  BY <1>1, InScopeIs, Zenon DEF Deferrables, Deferrable, Doomed
<1>3. (outcome = "removed" => BudgetAvailable) /\ (outcome = "limit" => ~BudgetAvailable)
  BY OutcomeIs, Zenon
<1>4. outcome # "deferred" /\ (outcome = "capped" => ~(Len(deferred) < ServerLimit))
  BY OutcomeIs, Zenon
<1> HIDE DEF p
<1>5. Permitted(outcome, p)
  BY <1>1, <1>2, <1>3, <1>4, Zenon DEF Permitted, IsDirectory
<1> QED BY <1>5, Zenon DEF p

(* A missing argument is deleted. *)
LEMMA DeleteMissingArgKeeps == WalkInv /\ DeleteMissingArg => WalkInv'
<1> SUFFICES ASSUME WalkInv, DeleteMissingArg PROVE WalkInv'
  BY Zenon
<1> DEFINE p == Head(todo).path
           outcome ==
             IF PathUnderSkipPrefix(p, opts.basis) \/ tree[p] = "none" THEN "kept"
             ELSE IF ~BudgetAvailable THEN "limit"
             ELSE IF tree[p] = "dir" /\ Children(tree, p) # {}
               THEN IF opts.use_delete \/ opts.force THEN "walk" ELSE "kept"
             ELSE IF p \in opts.stuck THEN "stuck"
             ELSE "removed"
<1>1. UNCHANGED session /\ Job("missing") /\ Apply(outcome, p)
  BY Zenon DEF DeleteMissingArg
<1>2. IF outcome = "walk" THEN stack' = <<BaseFrame("nested", p)>> /\ todo' = todo
                          ELSE todo' = Tail(todo) /\ stack' = stack
  BY Zenon DEF DeleteMissingArg
<1>3. /\ stack = <<>> /\ todo # <<>> /\ Head(todo).op = "missing" /\ p \in Range(opts.missing)
      /\ Setting
  BY <1>1, JobIs, Zenon DEF JobSound, WalkInv
<1>4. p \in Paths /\ p \in Dirs /\ p \in Path /\ AtOrUnder(p, p)
  BY <1>3, ConfigIs, PathsArePaths, UnderOrder, Zenon
<1>5. Under(p, Range(opts.missing)) /\ source[p] = "none"
  BY <1>3, <1>4, Absent, Zenon DEF Under
<1>6. Permitted(outcome, p)
  BY <1>1, MissingPermitted, Zenon
<1> HIDE DEF outcome
<1>7. CASE outcome = "walk"
  <2>1. UNCHANGED <<session, tree, deferred, removed>>
    BY <1>1, <1>7, Zenon DEF Apply
  <2>2. Seed("nested", p, FALSE, FALSE, TRUE, FALSE)
    BY <1>4, <1>5, Zenon DEF Seed, Walks
  <2>3. BaseFrame("nested", p) = NewFrame("nested", p, FALSE, FALSE, TRUE, FALSE)
    <3>1. ("nested" = "plan") = FALSE /\ ("nested" = "nested" \/ p \in opts.synced) = TRUE
      BY Zenon
    <3> QED BY <3>1, Zenon DEF BaseFrame, NewFrame
  <2>4. IsFrameOf(BaseFrame("nested", p), "nested", p)
    BY <1>3, <2>2, <2>3, FrameIsSound, Zenon DEF WalkInv
  <2> QED BY <1>2, <1>3, <1>7, <2>1, <2>4, Begun, Zenon DEF IsFrameOf
<1>8. CASE outcome # "walk"
  BY <1>1, <1>2, <1>3, <1>6, <1>8, Settled, Zenon
<1> QED BY <1>7, <1>8, Zenon

(* A deferred path is deleted. *)
LEMMA ApplyDeferredPathKeeps == WalkInv /\ ApplyDeferredPath => WalkInv'
<1> SUFFICES ASSUME WalkInv, ApplyDeferredPath PROVE WalkInv'
  BY Zenon
<1> DEFINE p == Head(todo).path
           outcome ==
             IF tree[p] = "none" THEN "kept"
             ELSE IF ~BudgetAvailable THEN "limit"
             ELSE IF tree[p] = "dir" THEN "walk"
             ELSE Outcome("plan", TRUE, p)
<1>1. UNCHANGED session /\ Job("deferred") /\ Apply(outcome, p)
  BY Zenon DEF ApplyDeferredPath
<1>2. IF outcome = "walk" THEN stack' = <<NewFrame("plan", p, FALSE, TRUE, TRUE, TRUE)>> /\ todo' = todo
                          ELSE todo' = Tail(todo) /\ stack' = stack
  BY Zenon DEF ApplyDeferredPath, NewFrame
<1>3. /\ stack = <<>> /\ todo # <<>> /\ Head(todo).op = "deferred" /\ p \in Deferrables
      /\ Setting
  BY <1>1, JobIs, Zenon DEF JobSound, WalkInv
<1>4. /\ p \in Paths /\ p \in Dirs /\ source[p] = "none" /\ Clear(p)
      /\ ~MustSurvive(p) /\ StrictlyUnder(p, opts.synced)
  BY <1>3, PathsArePaths, Zenon DEF Deferrables, Deferrable, Doomed
<1>5. outcome = "walk" => tree[p] = "dir"
  BY DEF Outcome
<1>6. Permitted(outcome, p)
  BY <1>1, DeferredPermitted, Zenon
<1> HIDE DEF outcome
<1>7. CASE outcome = "walk"
  <2>1. UNCHANGED <<session, tree, deferred, removed>>
    BY <1>1, <1>7, Zenon DEF Apply
  <2>2. Doomed("plan", p, "dir") /\ Under(p, opts.synced) /\ ~IsDirectory(source[p])
    BY <1>4, Zenon DEF Doomed, IsDirectory, Under, StrictlyUnder, Below
  <2>3. Seed("plan", p, FALSE, TRUE, TRUE, TRUE)
    BY <1>4, <1>5, <1>7, <2>2, Zenon DEF Seed, Walks
  <2>4. IsFrameOf(NewFrame("plan", p, FALSE, TRUE, TRUE, TRUE), "plan", p)
    BY <1>3, <2>3, FrameIsSound, Zenon DEF WalkInv
  <2> QED BY <1>2, <1>3, <1>7, <2>1, <2>4, Begun, Zenon DEF IsFrameOf
<1>8. CASE outcome # "walk"
  BY <1>1, <1>2, <1>3, <1>6, <1>8, Settled, Zenon
<1> QED BY <1>7, <1>8, Zenon

\* Lists of jobs.
LEMMA FunctionIsSeq == ASSUME NEW T, NEW n \in Nat, NEW f \in [1..n -> T] PROVE f \in Seq(T)
OBVIOUS

(* Two sequences joined. *)
LEMMA Concat == ASSUME NEW T, NEW s \in Seq(T), NEW t \in Seq(T) PROVE s \o t \in Seq(T)
OBVIOUS

(* The jobs of a sequence of directories. *)
LEMMA JobsAre ==
    ASSUME NEW op \in Ops, NEW S \in SUBSET Dirs, NEW paths \in Seq(S),
           \A d \in S : JobSound([op |-> op, path |-> d])
    PROVE  Jobs(op, paths) \in Seq(SoundJobs)
<1>1. Len(paths) \in Nat /\ \A i \in 1..Len(paths) : paths[i] \in S
  BY SeqParts, Zenon
<1>2. \A d \in S : [op |-> op, path |-> d] \in SoundJobs
  <2>1. \A d \in S : [op |-> op, path |-> d] \in [op : Ops, path : Dirs]
    OBVIOUS
  <2> QED BY <2>1, Zenon DEF SoundJobs
<1>3. Jobs(op, paths) \in [1..Len(paths) -> SoundJobs]
  BY <1>1, <1>2, Zenon DEF Jobs
<1> QED BY <1>1, <1>3, FunctionIsSeq, Zenon

\* Jobs that concern the whole destination.
LEMMA RootJob ==
    ASSUME NEW op \in Ops, op \notin {"missing", "plan", "deferred"}
    PROVE  Jobs(op, <<Root>>) \in Seq(SoundJobs)
<1>1. <<Root>> \in Seq({Root}) /\ {Root} \in SUBSET Dirs
  BY SeqOne, Zenon DEF Dirs
<1>2. [op |-> op, path |-> Root].op = op
  OBVIOUS
<1>3. JobSound([op |-> op, path |-> Root])
  BY <1>2, Zenon DEF JobSound
<1> QED BY <1>1, <1>3, JobsAre, Zenon

(* The commit starts. *)
LEMMA StartCommitKeeps == WalkInv /\ StartCommit => WalkInv'
<1> SUFFICES ASSUME WalkInv, StartCommit PROVE WalkInv'
  BY Zenon
<1>1. /\ UNCHANGED <<session, tree, deferred, removed>> /\ stack' = stack /\ Job("commit")
      /\ todo' = Jobs("deferred", deferred) \o Tail(todo)
  BY Zenon DEF StartCommit
<1>2. stack = <<>> /\ todo # <<>> /\ Tail(todo) \in Seq(SoundJobs)
  BY <1>1, SeqParts, Zenon DEF Job, WalkInv
<1>3. Jobs("deferred", deferred) \in Seq(SoundJobs)
  <2>1. Deferrables \in SUBSET Dirs /\ deferred \in Seq(Deferrables) /\ "deferred" \in Ops
    BY PathsArePaths, Zenon DEF Deferrables, WalkInv, Ops
  <2>2. ASSUME NEW d \in Deferrables PROVE JobSound([op |-> "deferred", path |-> d])
    BY DEF JobSound
  <2> QED BY <2>1, <2>2, JobsAre, Zenon
<1>4. todo' \in Seq(SoundJobs')
  <2>1. todo' \in Seq(SoundJobs)
    BY <1>1, <1>2, <1>3, Concat, Zenon
  <2> QED BY <1>1, <2>1, Undisturbed, Zenon
<1>5. stack' = <<>>
  BY <1>1, <1>2, Zenon
<1>6. stack' \in Seq(SoundFrames') /\ Nested(stack')
  BY <1>5 DEF Nested
<1> QED BY <1>1, <1>4, <1>5, <1>6, Undisturbed, Zenon DEF WalkInv

(* A file of the source is stored. *)
LEMMA StoreSourceKeeps == WalkInv /\ StoreSource => WalkInv'
<1> SUFFICES ASSUME WalkInv, StoreSource PROVE WalkInv'
  BY Zenon
<1>1. /\ UNCHANGED session /\ stack' = stack /\ deferred' = deferred /\ removed' = removed
      /\ stack = <<>> /\ todo # <<>>
  BY Zenon DEF StoreSource, Job
<1>2. tree' \in [Paths -> TreeKinds] /\ (todo' = todo \/ todo' = Tail(todo))
  <2>1. tree \in [Paths -> TreeKinds] /\ "file" \in TreeKinds /\ "dir" \in TreeKinds /\ "none" \in TreeKinds
    BY Zenon DEF WalkInv, TreeKinds
  <2> QED BY <2>1, Zenon DEF StoreSource
<1>3. todo' \in Seq(SoundJobs')
  BY <1>1, <1>2, ContextStays, SeqParts, Zenon DEF WalkInv
<1>4. stack' = <<>>
  BY <1>1, Zenon
<1>5. stack' \in Seq(SoundFrames') /\ Nested(stack')
  BY <1>4 DEF Nested
<1>6. ProtectedSurvive'
  BY <1>1, ContextStays, Zenon DEF WalkInv, ProtectedSurvive, Removals
<1>7. Setting' /\ deferred' \in Seq(Deferrables') /\ removed' \in Seq(Records)
  BY <1>1, ContextStays, Zenon DEF WalkInv
<1> QED BY <1>2, <1>3, <1>4, <1>5, <1>6, <1>7, Zenon DEF WalkInv

(* Someone else creates an entry in the destination. *)
LEMMA ForeignCreateKeeps == ASSUME NEW p \in Paths PROVE WalkInv /\ ForeignCreate(p) => WalkInv'
<1> SUFFICES ASSUME WalkInv, ForeignCreate(p) PROVE WalkInv'
  BY Zenon
<1>1. /\ UNCHANGED session /\ stack' = stack /\ deferred' = deferred /\ removed' = removed
      /\ todo' = todo /\ tree[p] = "none" /\ tree' = [tree EXCEPT ![p] = "file"]
  BY Zenon DEF ForeignCreate
<1>2. tree' \in [Paths -> TreeKinds] /\ \A q \in Paths : q # p => tree'[q] = tree[q]
  BY <1>1, Zenon DEF WalkInv, TreeKinds
<1>3. stack \in Seq(SoundFrames) /\ Nested(stack)
  BY Zenon DEF WalkInv
<1>4. Len(stack) \in Nat /\ \A i \in 1..Len(stack) : stack[i] \in SoundFrames /\ stack[i] \in Frames
  BY <1>3, SeqParts, Zenon DEF SoundFrames
<1>5. stack \in Seq(Frames)
  BY <1>3, <1>4, SeqOf, Zenon
<1>6. ASSUME NEW i \in 1..Len(stack) PROVE Untouched(stack[i])
  <2>1. FrameSound(stack[i])
    BY <1>4, Zenon DEF SoundFrames
  <2>2. \A q \in stack[i].dirs : q \in Paths /\ q # p
    BY <1>1, <2>1, Zenon DEF FrameSound, Waiting
  <2>3. \A q \in stack[i].files : q \in Paths /\ q # p
    BY <1>1, <2>1, Zenon DEF FrameSound, Waiting
  <2>4. stack[i].extra => stack[i].dir \in Paths /\ stack[i].dir # p
    BY <1>1, <2>1, Zenon DEF FrameSound, Seed
  <2> QED BY <1>2, <2>2, <2>3, <2>4, Zenon DEF Untouched
<1>7. Len(stack) <= Len(stack)
  BY <1>4
<1>8. stack \in Seq(SoundFrames')
  BY <1>1, <1>3, <1>5, <1>6, <1>7, NarrowsSelf, FramesStay, Zenon
<1>9. ProtectedSurvive'
  BY <1>1, ContextStays, Zenon DEF WalkInv, ProtectedSurvive, Removals
<1>10. Setting' /\ deferred' \in Seq(Deferrables') /\ removed' \in Seq(Records) /\ todo' \in Seq(SoundJobs')
  BY <1>1, ContextStays, Zenon DEF WalkInv
<1>11. stack' # <<>> => todo' # <<>> /\ \A i \in 1..Len(stack') : stack'[i].walk = "nested" => Head(todo').op = "missing"
  BY <1>1, Zenon DEF WalkInv
<1> QED BY <1>1, <1>2, <1>3, <1>8, <1>9, <1>10, <1>11, Zenon DEF WalkInv

\* A step that leaves the walk and the destination alone.
LEMMA IdleKeeps ==
    ASSUME WalkInv, UNCHANGED <<session, tree, todo, stack, deferred, removed>> PROVE WalkInv'
<1>1. UNCHANGED <<session, tree, deferred, removed>> /\ stack' = stack /\ todo' = todo
  BY Zenon
<1>2. \A i \in 1..Len(stack) : stack[i] \in SoundFrames'
  BY <1>1, Undisturbed, SeqParts, Zenon DEF WalkInv
<1>3. stack' \in Seq(SoundFrames')
  BY <1>1, <1>2, SeqOf, Zenon DEF WalkInv
<1>4. todo' \in Seq(SoundJobs')
  BY <1>1, Undisturbed, Zenon DEF WalkInv
<1> QED BY <1>1, <1>3, <1>4, Undisturbed, Zenon DEF WalkInv

---------------------------------------------------------------------------
(* The whole session. *)

\* The plans are for directories in scope.
LEMMA PlansAre ==
    ASSUME Setting, NEW dirs \in PlanDirs
    PROVE  Jobs("plan", dirs) \in Seq(SoundJobs)
<1> DEFINE D == {d \in Paths : Traversed(source[d]) /\ PlanIsAllowed(d)}
           P == D \cup {d \in {Root} : PlanIsAllowed(Root)}
<1>1. ASSUME NEW d \in Dirs, PlanIsAllowed(d) PROVE Under(d, opts.synced)
  <2>1. d \in Path /\ opts.scope = "full" => opts.synced = {Root}
    BY ConfigIs, PathsArePaths, Zenon
  <2>2. d \in Path
    BY PathsArePaths, Zenon
  <2>3. AtOrUnder(d, Root) /\ AtOrUnder(d, d)
    BY <2>2, UnderOrder, Zenon
  <2>4. CASE opts.scope = "full"
    BY <2>1, <2>2, <2>3, <2>4, Zenon DEF Under
  <2>5. CASE opts.scope = "relative"
    BY <1>1, <2>5 DEF PlanIsAllowed
  <2>6. CASE opts.scope # "full" /\ opts.scope # "relative"
    <3>1. d \in opts.synced
      BY <1>1, <2>6 DEF PlanIsAllowed
    <3> QED BY <2>3, <3>1, Zenon DEF Under
  <2> QED BY <2>4, <2>5, <2>6, Zenon
<1>2. PICK list \in [1..Cardinality(D) -> D] :
        dirs = (IF PlanIsAllowed(Root) THEN <<Root>> ELSE <<>>) \o list
  BY Zenon DEF PlanDirs
<1>3. Cardinality(D) \in Nat
  <2>1. IsFiniteSet(D)
    BY DeletionAssumption, FS_Subset, Zenon
  <2> QED BY <2>1, FS_CardinalityType, Zenon
<1>4. D \in SUBSET P /\ P \in SUBSET Dirs /\ (PlanIsAllowed(Root) => Root \in P)
  BY PathsArePaths, Zenon DEF Dirs
<1>5. list \in [1..Cardinality(D) -> P]
  BY <1>2, <1>4, Zenon
<1>6. ASSUME NEW d \in P PROVE JobSound([op |-> "plan", path |-> d])
  <2>1. d \in Dirs /\ PlanIsAllowed(d) /\ (d # Root => source[d] = "dir")
    BY <1>6, <1>4, Zenon DEF Traversed
  <2>2. Under(d, opts.synced)
    BY <1>1, <2>1, Zenon
  <2>3. [op |-> "plan", path |-> d].op = "plan" /\ [op |-> "plan", path |-> d].path = d
    OBVIOUS
  <2> QED BY <2>1, <2>2, <2>3, Zenon DEF JobSound
<1> HIDE DEF P
<1>7. list \in Seq(P)
  BY <1>3, <1>5, FunctionIsSeq, Zenon
<1>8. (IF PlanIsAllowed(Root) THEN <<Root>> ELSE <<>>) \in Seq(P)
  <2>1. <<>> \in Seq(P) /\ (Root \in P => <<Root>> \in Seq(P))
    OBVIOUS
  <2> QED BY <1>4, <2>1, Zenon
<1>9. dirs \in Seq(P)
  BY <1>2, <1>7, <1>8, Concat, Zenon
<1>10. "plan" \in Ops
  BY Zenon DEF Ops
<1> QED BY <1>4, <1>6, <1>9, <1>10, JobsAre, Zenon

(* Every job of the agenda is sound. *)
LEMMA AgendaIs ==
    ASSUME Setting, NEW dirs \in PlanDirs
    PROVE  Agenda(dirs) \in Seq(SoundJobs)
<1> DEFINE missing == IF opts.missing_args THEN Jobs("missing", opts.missing) ELSE <<>>
           extras  == IF opts.use_delete THEN Jobs("extras", <<Root>>) ELSE <<>>
           plans   == Jobs("plan", dirs)
           store   == Jobs("store", <<Root>>)
           first   == IF opts.rehearse THEN Jobs("list", <<Root>>) ELSE <<>>
           final   == IF opts.delay_updates THEN Jobs("publish", <<Root>>) ELSE <<>>
           body    == CASE opts.timing = "before" -> missing \o extras \o store
                        [] opts.timing = "after"  -> store \o missing \o extras
                        [] opts.timing = "during" -> missing \o plans \o store
                        [] opts.timing = "delay"  -> plans \o store \o Jobs("commit", <<Root>>) \o missing
<1>1. <<>> \in Seq(SoundJobs)
  OBVIOUS
<1>2. Jobs("missing", opts.missing) \in Seq(SoundJobs)
  <2>1. opts \in Configs
    BY Zenon DEF Setting
  <2>2. opts.missing \in Seq(Paths)
    BY <2>1 DEF Configs
  <2>3. opts.missing \in Seq(Range(opts.missing))
    BY <2>2 DEF Range
  <2>4. Range(opts.missing) \in SUBSET Dirs /\ "missing" \in Ops
    BY ConfigIs, PathsArePaths, Zenon DEF Ops
  <2>5. \A d \in Range(opts.missing) : JobSound([op |-> "missing", path |-> d])
    <3>1. \A d : [op |-> "missing", path |-> d].op = "missing" /\ [op |-> "missing", path |-> d].path = d
      OBVIOUS
    <3> QED BY <3>1, Zenon DEF JobSound
  <2> QED BY <2>3, <2>4, <2>5, JobsAre, Zenon
<1>3. missing \in Seq(SoundJobs) /\ plans \in Seq(SoundJobs)
  BY <1>1, <1>2, PlansAre, Zenon
<1>4. /\ Jobs("extras", <<Root>>) \in Seq(SoundJobs) /\ store \in Seq(SoundJobs)
      /\ Jobs("list", <<Root>>) \in Seq(SoundJobs) /\ Jobs("publish", <<Root>>) \in Seq(SoundJobs)
      /\ Jobs("commit", <<Root>>) \in Seq(SoundJobs)
  BY RootJob, Zenon DEF Ops
<1>5. extras \in Seq(SoundJobs) /\ first \in Seq(SoundJobs) /\ final \in Seq(SoundJobs)
  BY <1>1, <1>4, Zenon
<1>6. opts.timing \in {"before", "after", "during", "delay"}
  <2>1. opts \in Configs
    BY Zenon DEF Setting
  <2> QED BY <2>1 DEF Configs
<1> DEFINE commit == Jobs("commit", <<Root>>)
<1>7. Agenda(dirs) = first \o body \o final
  BY Zenon DEF Agenda
<1>8. commit \in Seq(SoundJobs)
  BY <1>4, Zenon
<1>9. body = CASE opts.timing = "before" -> missing \o extras \o store
               [] opts.timing = "after"  -> store \o missing \o extras
               [] opts.timing = "during" -> missing \o plans \o store
               [] opts.timing = "delay"  -> plans \o store \o commit \o missing
  BY Zenon
<1>10. store \in Seq(SoundJobs)
  BY <1>4, Zenon
<1> HIDE DEF missing, extras, plans, store, first, final, commit, body
<1>11. body \in Seq(SoundJobs)
  <2>1. CASE opts.timing = "before"
    <3>1. body = missing \o extras \o store
      BY <1>9, <2>1
    <3> QED BY <1>3, <1>5, <1>10, <3>1, Concat, Zenon
  <2>2. CASE opts.timing = "after"
    <3>1. body = store \o missing \o extras
      BY <1>9, <2>2
    <3> QED BY <1>3, <1>5, <1>10, <3>1, Concat, Zenon
  <2>3. CASE opts.timing = "during"
    <3>1. body = missing \o plans \o store
      BY <1>9, <2>3
    <3> QED BY <1>3, <1>10, <3>1, Concat, Zenon
  <2>4. CASE opts.timing = "delay"
    <3>1. body = plans \o store \o commit \o missing
      BY <1>9, <2>4
    <3>2. plans \o store \o commit \in Seq(SoundJobs)
      BY <1>3, <1>8, <1>10, Concat, Zenon
    <3> QED BY <1>3, <3>1, <3>2, Concat, Zenon
  <2> QED BY <1>6, <2>1, <2>2, <2>3, <2>4, Zenon
<1>12. first \o body \in Seq(SoundJobs)
  BY <1>5, <1>11, Concat, Zenon
<1>13. (first \o body) \o final \in Seq(SoundJobs)
  BY <1>5, <1>12, Concat, Zenon
<1> QED BY <1>7, <1>13, Zenon

(* The invariant of the initial states. *)
LEMMA WalkInit == Init => WalkInv
<1> SUFFICES ASSUME Init PROVE WalkInv
  BY Zenon
<1>1. Setting /\ tree \in [Paths -> TreeKinds]
  BY DeletionAssumption, Zenon DEF Init, Setting
<1>2. PICK dirs \in PlanDirs : todo = Agenda(dirs)
  BY Zenon DEF Init
<1>3. todo \in Seq(SoundJobs)
  BY <1>1, <1>2, AgendaIs, Zenon
<1>4. stack = <<>> /\ deferred = <<>> /\ removed = <<>>
  BY Zenon DEF Init
<1>5. deferred \in Seq(Deferrables) /\ stack \in Seq(SoundFrames) /\ removed \in Seq(Records)
  BY <1>4
<1>6. Nested(stack) /\ Removals = {}
  BY <1>4 DEF Nested, Removals, Range
<1> QED BY <1>1, <1>3, <1>4, <1>5, <1>6, Zenon DEF WalkInv, ProtectedSurvive

(* Every step keeps the invariant. *)
LEMMA WalkNext == WalkInv /\ [Next]_vars => WalkInv'
<1> SUFFICES ASSUME WalkInv, [Next]_vars PROVE WalkInv'
  BY Zenon
<1>1. CASE StartWalk
  BY <1>1, StartWalkKeeps, Zenon
<1>2. CASE ApplyPlan
  BY <1>2, ApplyPlanKeeps, Zenon
<1>3. CASE DeleteMissingArg
  BY <1>3, DeleteMissingArgKeeps, Zenon
<1>4. CASE StartCommit
  BY <1>4, StartCommitKeeps, Zenon
<1>5. CASE ApplyDeferredPath
  BY <1>5, ApplyDeferredPathKeeps, Zenon
<1>6. CASE StoreSource
  BY <1>6, StoreSourceKeeps, Zenon
<1>7. CASE EnterExtraDir
  BY <1>7, EnterExtraDirKeeps, Zenon
<1>8. CASE RemoveExtraFile
  BY <1>8, RemoveExtraFileKeeps, Zenon
<1>9. CASE EnterKeptDir
  BY <1>9, EnterKeptDirKeeps, Zenon
<1>10. CASE LeaveDir
  BY <1>10, LeaveDirKeeps, Zenon
<1>11. CASE Finish \/ Over \/ UNCHANGED vars
  <2>1. UNCHANGED <<session, tree, todo, stack, deferred, removed>>
    BY <1>11, Zenon DEF Finish, Over, vars, session
  <2> QED BY <2>1, IdleKeeps, Zenon
<1>12. CASE \E p \in Paths : ForeignCreate(p)
  BY <1>12, ForeignCreateKeeps, Zenon
<1> QED
  BY <1>1, <1>2, <1>3, <1>4, <1>5, <1>6, <1>7, <1>8, <1>9, <1>10, <1>11, <1>12, Zenon DEF Next

\* No deletion removes an entry of the source, or, but for a missing argument,
\* what is shielded or out of scope: whatever the paths, the source, the
\* destination and the options are, and whatever other programs create meanwhile
\* (delete_walk_fd, process_children, apply_deferred_path,
\* delete_missing_args_budgeted_observed).
THEOREM ProtectedEntriesSurvive == Spec => []ProtectedSurvive
<1>1. WalkInv => ProtectedSurvive
  BY Zenon DEF WalkInv
<1> QED BY <1>1, WalkInit, WalkNext, PTL DEF Spec

---------------------------------------------------------------------------
(* The budget. *)

\* What the session reports as the limit is the budget spent or, under
\* --delete-delay, the snapshot full.
BudgetInv ==
    /\ deleted \in Nat /\ deleted <= Limit /\ Len(removed) = deleted
    /\ Len(deferred) <= ServerLimit /\ (opts.timing # "delay" => deferred = <<>>)
    /\ limit_hit \in BOOLEAN /\ (limit_hit => deleted = Limit \/ Len(deferred) = ServerLimit)
    /\ listed \in Seq(Paths) /\ foreign \in SUBSET Paths /\ ok \in BOOLEAN
    /\ phase \in {"running", "done", "failed"}

(* The limit is a number, and no more than the server's. *)
LEMMA LimitIs == Setting => Limit \in Nat /\ Limit <= ServerLimit /\ ServerLimit \in Nat
<1> SUFFICES ASSUME Setting PROVE Limit \in Nat /\ Limit <= ServerLimit /\ ServerLimit \in Nat
  BY Zenon
<1>1. opts \in Configs /\ ServerLimit \in Nat
  BY DeletionAssumption, Zenon DEF Setting
<1>2. opts.max_delete \in Int
  BY <1>1 DEF Configs
<1> QED BY <1>1, <1>2 DEF Limit

\* A permitted outcome is within the budget.
LEMMA ApplyCharges ==
    ASSUME WalkInv, BudgetInv, UNCHANGED session, NEW outcome, NEW p, Permitted(outcome, p), Apply(outcome, p),
           UNCHANGED foreign, phase' = phase \/ phase' = IF ok' THEN phase ELSE "failed"
    PROVE  BudgetInv'
<1>1. Limit \in Nat /\ Limit <= ServerLimit /\ ServerLimit \in Nat /\ Limit' = Limit /\ opts' = opts
  BY LimitIs, ContextStays, Zenon DEF WalkInv, Limit
<1>2. deleted \in Nat /\ deleted <= Limit /\ Len(removed) = deleted /\ removed \in Seq(Records)
  BY Zenon DEF BudgetInv, WalkInv
<1>3. /\ deferred \in Seq(Deferrables) /\ Len(deferred) \in Nat /\ Len(deferred) <= ServerLimit
      /\ opts.timing # "delay" => deferred = <<>>
  BY SeqParts, Zenon DEF BudgetInv, WalkInv
<1>4. deleted' \in Nat /\ deleted' <= Limit /\ Len(removed') = deleted' /\ deleted <= deleted'
  <2>1. CASE outcome = "removed"
    <3>1. deleted < Limit
      BY <2>1, Zenon DEF Permitted, BudgetAvailable
    <3>2. PICK r : removed' = Append(removed, r)
      BY <2>1, Zenon DEF Apply, RemoveEntry
    <3>3. deleted' = deleted + 1
      BY <2>1, Zenon DEF Apply, RemoveEntry
    <3>4. Len(removed') = Len(removed) + 1
      BY <1>2, <3>2
    <3> QED BY <1>1, <1>2, <3>1, <3>3, <3>4
  <2>2. CASE outcome # "removed"
    <3>1. deleted' = deleted /\ removed' = removed
      BY <2>2, Zenon DEF Apply
    <3> QED BY <1>2, <3>1
  <2> QED BY <2>1, <2>2, Zenon
<1>5. Len(deferred') \in Nat /\ Len(deferred') <= ServerLimit /\ Len(deferred) <= Len(deferred')
  <2>1. CASE outcome = "deferred"
    <3>1. Len(deferred) < ServerLimit /\ deferred' = Append(deferred, p)
      BY <2>1, Zenon DEF Permitted, Apply
    <3>2. Len(deferred') = Len(deferred) + 1
      BY <1>3, <3>1
    <3> QED BY <1>1, <1>3, <3>1, <3>2
  <2>2. CASE outcome # "deferred"
    <3>1. deferred' = deferred
      BY <2>2, Zenon DEF Apply
    <3> QED BY <1>3, <3>1
  <2> QED BY <2>1, <2>2, Zenon
<1>6. opts.timing # "delay" => deferred' = <<>>
  BY <1>3, Zenon DEF Permitted, Apply
<1>7. limit_hit' = (limit_hit \/ outcome \in {"limit", "capped"})
  BY Zenon DEF Apply
<1>8. limit_hit' \in BOOLEAN
  BY <1>7, Zenon DEF BudgetInv
<1>9. ASSUME limit_hit' PROVE deleted' = Limit \/ Len(deferred') = ServerLimit
  <2>1. limit_hit \/ outcome = "limit" \/ outcome = "capped"
    BY <1>7, <1>9, Zenon
  <2>2. deleted = Limit \/ Len(deferred) = ServerLimit
    <3>1. CASE limit_hit
      BY <3>1, Zenon DEF BudgetInv
    <3>2. CASE outcome = "limit"
      <4>1. ~(deleted < Limit)
        BY <3>2, Zenon DEF Permitted, BudgetAvailable
      <4> QED BY <1>1, <1>2, <4>1
    <3>3. CASE outcome = "capped"
      <4>1. ~(Len(deferred) < ServerLimit)
        BY <3>3, Zenon DEF Permitted
      <4> QED BY <1>1, <1>3, <4>1
    <3> QED BY <2>1, <3>1, <3>2, <3>3, Zenon
  <2> QED BY <1>1, <1>2, <1>3, <1>4, <1>5, <2>2
<1>10. ok' = (ok /\ outcome # "stuck")
  BY Zenon DEF Apply
<1>11. ok' \in BOOLEAN /\ phase' \in {"running", "done", "failed"} /\ foreign' \in SUBSET Paths
  BY <1>10, Zenon DEF BudgetInv
<1>12. listed' \in Seq(Paths)
  <2>1. CASE outcome = "listed"
    <3>1. p \in Paths /\ listed' = Append(listed, p) /\ listed \in Seq(Paths)
      BY <2>1, Zenon DEF Permitted, Apply, BudgetInv
    <3> QED BY <3>1, SeqAppend, Zenon
  <2>2. CASE outcome # "listed"
    BY <2>2, Zenon DEF Apply, BudgetInv
  <2> QED BY <2>1, <2>2, Zenon
<1> QED BY <1>1, <1>4, <1>5, <1>6, <1>8, <1>9, <1>11, <1>12, Zenon DEF BudgetInv

\* Nothing else touches it.
LEMMA BudgetIdle ==
    ASSUME BudgetInv, UNCHANGED session, UNCHANGED <<deleted, removed, deferred, limit_hit, listed, ok>>,
           foreign' \in SUBSET Paths, phase' \in {"running", "done", "failed"}
    PROVE  BudgetInv'
<1>1. Limit' = Limit /\ opts' = opts
  BY ContextStays, Zenon DEF Limit
<1> QED BY <1>1, Zenon DEF BudgetInv

(* Every step keeps the budget. *)
LEMMA BudgetNext == WalkInv /\ BudgetInv /\ [Next]_vars => BudgetInv'
<1> SUFFICES ASSUME WalkInv, BudgetInv, [Next]_vars PROVE BudgetInv'
  BY Zenon
<1>1. CASE RemoveExtraFile
  <2>1. PICK p \in Greatest(Top.files) : Apply(Outcome(Top.walk, Forced(Top, p), p), p)
    BY <1>1, Zenon DEF RemoveExtraFile
  <2>2. p \in Top.files /\ stack # <<>> /\ UNCHANGED session /\ UNCHANGED foreign /\ phase' = phase
    BY <1>1, Zenon DEF RemoveExtraFile, Greatest
  <2> QED BY <2>1, <2>2, FilePermitted, ApplyCharges, Zenon
<1>2. CASE LeaveDir
  <2> DEFINE last == Len(stack) = 1
             outcome ==
               IF last /\ Top.walk = "nested"
                 THEN IF ~ok THEN "stuck" ELSE IF ~BudgetAvailable THEN "limit"
                      ELSE IF Top.dir \in opts.stuck THEN "stuck" ELSE "removed"
               ELSE IF Top.extra /\ ~Top.survives THEN Outcome(Top.walk, Top.force, Top.dir)
               ELSE "kept"
  <2>1. Apply(outcome, Top.dir) /\ stack # <<>> /\ UNCHANGED session /\ UNCHANGED foreign
    BY <1>2, Zenon DEF LeaveDir
  <2>2. phase' = phase \/ phase' = IF ok' THEN phase ELSE "failed"
    BY <1>2, Zenon DEF LeaveDir
  <2>3. Permitted(outcome, Top.dir)
    BY <2>1, LeavePermitted, Zenon
  <2> HIDE DEF outcome
  <2> QED BY <2>1, <2>2, <2>3, ApplyCharges, Zenon
<1>3. CASE DeleteMissingArg
  <2> DEFINE p == Head(todo).path
             outcome ==
               IF PathUnderSkipPrefix(p, opts.basis) \/ tree[p] = "none" THEN "kept"
               ELSE IF ~BudgetAvailable THEN "limit"
               ELSE IF tree[p] = "dir" /\ Children(tree, p) # {}
                 THEN IF opts.use_delete \/ opts.force THEN "walk" ELSE "kept"
               ELSE IF p \in opts.stuck THEN "stuck"
               ELSE "removed"
  <2>1. Apply(outcome, p) /\ Job("missing") /\ UNCHANGED session /\ UNCHANGED foreign
    BY <1>3, Zenon DEF DeleteMissingArg
  <2>2. phase' = IF ok' THEN phase ELSE "failed"
    BY <1>3, Zenon DEF DeleteMissingArg
  <2>3. Permitted(outcome, p)
    BY <2>1, MissingPermitted, Zenon
  <2> HIDE DEF outcome
  <2> QED BY <2>1, <2>2, <2>3, ApplyCharges, Zenon
<1>4. CASE ApplyDeferredPath
  <2> DEFINE p == Head(todo).path
             outcome ==
               IF tree[p] = "none" THEN "kept"
               ELSE IF ~BudgetAvailable THEN "limit"
               ELSE IF tree[p] = "dir" THEN "walk"
               ELSE Outcome("plan", TRUE, p)
  <2>1. Apply(outcome, p) /\ Job("deferred") /\ UNCHANGED session /\ UNCHANGED foreign
    BY <1>4, Zenon DEF ApplyDeferredPath
  <2>2. phase' = IF ok' THEN phase ELSE "failed"
    BY <1>4, Zenon DEF ApplyDeferredPath
  <2>3. Permitted(outcome, p)
    BY <2>1, DeferredPermitted, Zenon
  <2> HIDE DEF outcome
  <2> QED BY <2>1, <2>2, <2>3, ApplyCharges, Zenon
<1>5. CASE \/ StartWalk \/ ApplyPlan \/ StartCommit \/ StoreSource \/ EnterExtraDir \/ EnterKeptDir
           \/ Finish \/ Over \/ UNCHANGED vars
  <2>1. /\ UNCHANGED session /\ UNCHANGED <<deleted, removed, deferred, limit_hit, listed, ok>>
        /\ foreign' = foreign /\ (phase' = phase \/ phase' \in {"done", "failed"})
    BY <1>5, Zenon DEF StartWalk, ApplyPlan, StartCommit, StoreSource, EnterExtraDir, EnterKeptDir,
                       Finish, Over, vars, session
  <2>2. foreign' \in SUBSET Paths /\ phase' \in {"running", "done", "failed"}
    BY <2>1, Zenon DEF BudgetInv
  <2> QED BY <2>1, <2>2, BudgetIdle, Zenon
<1>6. ASSUME NEW p \in Paths, ForeignCreate(p) PROVE BudgetInv'
  <2>1. /\ UNCHANGED session /\ UNCHANGED <<deleted, removed, deferred, limit_hit, listed, ok>>
        /\ foreign' = foreign \cup {p} /\ phase' = phase
    BY <1>6, Zenon DEF ForeignCreate
  <2>2. foreign' \in SUBSET Paths /\ phase' \in {"running", "done", "failed"}
    BY <2>1, Zenon DEF BudgetInv
  <2> QED BY <2>1, <2>2, BudgetIdle, Zenon
<1> QED BY <1>1, <1>2, <1>3, <1>4, <1>5, <1>6, Zenon DEF Next

(* The budget of the initial states. *)
LEMMA BudgetInit == Init => BudgetInv
<1> SUFFICES ASSUME Init PROVE BudgetInv
  BY Zenon
<1>1. Setting
  BY WalkInit, Zenon DEF WalkInv
<1>2. Limit \in Nat /\ ServerLimit \in Nat
  BY <1>1, LimitIs, Zenon
<1>3. /\ deleted = 0 /\ removed = <<>> /\ deferred = <<>> /\ limit_hit = FALSE /\ listed = <<>>
      /\ foreign = {} /\ ok = TRUE /\ phase = "running"
  BY Zenon DEF Init
<1>4. deleted \in Nat /\ deleted <= Limit /\ Len(removed) = deleted /\ Len(deferred) <= ServerLimit
  BY <1>2, <1>3
<1>5. listed \in Seq(Paths)
  BY <1>3
<1> QED BY <1>3, <1>4, <1>5, Zenon DEF BudgetInv

\* The variables keep their types, and the deletions stay within the bound of
\* the server.
THEOREM TypeCorrect == Spec => []TypeOK
<1>1. WalkInv /\ BudgetInv => TypeOK
  <2> SUFFICES ASSUME WalkInv, BudgetInv PROVE TypeOK
    BY Zenon
  <2>1. deleted \in 0..ServerLimit
    <3>1. Limit \in Nat /\ Limit <= ServerLimit /\ ServerLimit \in Nat /\ deleted \in Nat /\ deleted <= Limit
      BY LimitIs, Zenon DEF WalkInv, BudgetInv
    <3> QED BY <3>1
  <2>2. deferred \in Seq(Paths)
    <3>1. \A i \in 1..Len(deferred) : deferred[i] \in Paths
      BY SeqParts, Zenon DEF WalkInv, Deferrables
    <3> QED BY <3>1, SeqOf, Zenon DEF WalkInv
  <2> QED BY <2>1, <2>2, Zenon DEF TypeOK, WalkInv, Setting, BudgetInv
<1> QED BY <1>1, WalkInit, WalkNext, BudgetInit, BudgetNext, PTL DEF Spec

\* All phases of a session together remove no more than --max-delete, or the
\* server's bound, allows; and a session that has no snapshot to fill reports
\* the limit only when the budget is spent (delete_budget_available, shared by
\* delete_walk_fd, process_children and the missing arguments).
THEOREM BudgetHeld == Spec => [](Len(removed) <= Limit /\ (opts.timing # "delay" => DeleteBudgetHonoured))
<1>1. WalkInv /\ BudgetInv => Len(removed) <= Limit /\ (opts.timing # "delay" => DeleteBudgetHonoured)
  <2> SUFFICES ASSUME WalkInv, BudgetInv
               PROVE  Len(removed) <= Limit /\ (opts.timing # "delay" => DeleteBudgetHonoured)
    BY Zenon
  <2>1. /\ Limit \in Nat /\ Limit <= ServerLimit /\ ServerLimit \in Nat
        /\ deleted \in Nat /\ deleted <= Limit /\ Len(removed) = deleted
        /\ limit_hit => deleted = Limit \/ Len(deferred) = ServerLimit
        /\ opts.timing # "delay" => deferred = <<>>
    BY LimitIs, Zenon DEF WalkInv, BudgetInv
  <2>2. Len(<<>>) = 0
    OBVIOUS
  <2>3. limit_hit /\ opts.timing # "delay" => deleted = Limit
    BY <2>1, <2>2
  <2> QED BY <2>1, <2>3, Zenon DEF DeleteBudgetHonoured
<1> QED BY <1>1, WalkInit, WalkNext, BudgetInit, BudgetNext, PTL DEF Spec
=============================================================================
