---------------------------- MODULE MCSendFiles ----------------------------
(***************************************************************************)
(* Small source trees and the option sets that meet on them, for TLC.      *)
(***************************************************************************)
EXTENDS SendFiles

Tree3 == {<<1>>, <<2>>, <<3>>, <<4>>, <<2, 1>>, <<2, 2>>, <<2, 2, 1>>, <<2, 5>>, <<3, 1>>}
Dir == [NoEntry EXCEPT !.kind = "dir"]
File(i) == [NoEntry EXCEPT !.kind = "file", !.size = 1, !.ino = i]
HomePath == <<8, 9>>
NoInode == <<0>>
Empty3 == [p \in Tree3 \cup {Root} |-> IF p = Root THEN Dir ELSE NoEntry]
\* a file, a directory with a file and a directory with a file, a directory with
\* a file
Plain == [Empty3 EXCEPT ![<<1>>] = File(<<1>>), ![<<2>>] = Dir, ![<<2, 1>>] = File(<<2>>),
                        ![<<2, 2>>] = Dir, ![<<2, 2, 1>>] = File(<<3>>),
                        ![<<3>>] = Dir, ![<<3, 1>>] = File(<<4>>)]
Small == [Empty3 EXCEPT ![<<1>>] = File(<<1>>), ![<<2>>] = Dir, ![<<2, 1>>] = File(<<2>>)]

Text(kind, mod, pat) == [kind |-> kind, mod |-> mod, pat |-> pat, dir |-> FALSE, file |-> 0]
Merges == 6 :> <<Text("exclude", {}, {<<1>>}), [Text("merge", {}, {}) EXCEPT !.file = 7]>>
          @@ 7 :> <<Text("include", {}, {<<3>>})>>

Off == [mode |-> "real", delete |-> "no", ignore_errors |-> FALSE, stop |-> FALSE,
        interrupt |-> FALSE, dir_times |-> TRUE, list |-> <<>>, files_from |-> FALSE,
        missing |-> "error", relative |-> FALSE, cut |-> 0, no_implied |-> FALSE,
        filters |-> <<>>, cvs |-> FALSE, per_dir |-> 0, delete_excluded |-> FALSE,
        links |-> {}, munge |-> FALSE, max_size |-> 0, min_size |-> 0, one_fs |-> 0,
        copy_devices |-> FALSE, keep |-> {}, max_depth |-> 0, prune_empty |-> FALSE,
        dirs |-> FALSE, slash |-> FALSE, hard_links |-> FALSE]

\* The destination holds a mirror of every path of the tree and an extra.
Case(tree, o, n) ==
    [tree |-> tree, opt |-> o, changes |-> n,
     dest |-> {<<8>>, HomePath} \cup {wire \o p : p \in Tree3 \cup {<<6>>}, wire \in {HomePath, <<9>>, Root}}]
Timed(o) == {[o EXCEPT !.delete = d] : d \in {"before", "during", "delay", "after"}}

\* Others change the tree under every timing; a deadline; an interrupt.
Changing == {Case(t, o, 2) : t \in {Small, Plain}, o \in Timed(Off) \cup {Off}}
Cut ==
    {Case(Plain, [o EXCEPT !.stop = TRUE, !.interrupt = TRUE], 0) : o \in Timed(Off) \cup {Off}}

\* A directory that cannot be opened, a link without a referent, nothing readable.
Locked == [Plain EXCEPT ![<<2, 2>>].open = FALSE]
Dangling == [Plain EXCEPT ![<<4>>] = [NoEntry EXCEPT !.kind = "link"]]
AllLocked == [Empty3 EXCEPT ![<<2>>] = [Dir EXCEPT !.open = FALSE]]
RootLocked == [Empty3 EXCEPT ![Root].open = FALSE]
Copying == [Off EXCEPT !.links = {"copy"}]
Errors ==
    {Case(t, [o EXCEPT !.ignore_errors = i], 0) :
       t \in {Locked, AllLocked, RootLocked, Dangling}, i \in BOOLEAN, o \in Timed(Copying) \cup {Copying}}

\* Rules: of the command line, of merge files, of filter files in two directories.
Ruled == [Plain EXCEPT
    ![<<2, 5>>] = [File(<<6>>) EXCEPT !.rules = <<Text("include", {"/"}, {<<2>>}), Text("hide", {}, {<<1>>})>>]]
Filters == {
    <<Text("exclude", {}, {<<1>>})>>,
    <<Text("include", {"/"}, {<<2, 1>>}), Text("exclude", {"r"}, {<<3>>}), Text("exclude", {"s"}, {<<2>>})>>,
    <<Text("exclude", {"/", "!"}, {<<2>>})>>,
    <<Text("exclude", {}, {<<2, 1>>}), [Text("exclude", {}, {<<1>>, <<3>>}) EXCEPT !.dir = TRUE]>>,
    <<[Text("merge", {}, {}) EXCEPT !.file = 6]>>,
    <<Text("exclude", {}, {<<2>>}), Text("clear", {}, {}), [Text("dir-merge", {}, {}) EXCEPT !.file = 5]>>,
    <<Text("exclude", {"C"}, {}), Text("protect", {}, {<<4>>})>>,
    <<[Text("merge", {}, {}) EXCEPT !.file = 4]>>}
RuleOpts == {[Off EXCEPT !.filters = f, !.per_dir = n, !.delete = d, !.delete_excluded = x, !.cvs = n = 2] :
               f \in Filters, n \in {0, 2}, d \in {"no", "before", "during", "after"}, x \in BOOLEAN}
Rules == {Case(Ruled, o, 0) : o \in RuleOpts}

\* Links, sizes, special files, mount points, depth, empty directories.
Mixed == [Plain EXCEPT
    ![<<1>>].size = 2,
    ![<<4>>] = [NoEntry EXCEPT !.kind = "link", !.ref = "file", !.unsafe = TRUE],
    ![<<2, 5>>] = [NoEntry EXCEPT !.kind = "fifo"],
    ![<<2, 2, 1>>] = NoEntry,
    ![<<3>>].fs = 1]
Shaped == {
    Off, [Off EXCEPT !.links = {"carry"}, !.keep = {"specials"}], [Off EXCEPT !.links = {"safe", "carry"}],
    [Off EXCEPT !.links = {"copy_unsafe"}], [Off EXCEPT !.max_size = 1], [Off EXCEPT !.min_size = 2],
    [Off EXCEPT !.one_fs = 1], [Off EXCEPT !.one_fs = 2], [Off EXCEPT !.prune_empty = TRUE],
    [Off EXCEPT !.relative = TRUE], [Off EXCEPT !.relative = TRUE, !.cut = 1],
    [Off EXCEPT !.max_depth = 1], [Off EXCEPT !.max_depth = 2]}
Shapes == {Case(Mixed, [o EXCEPT !.delete = d], 0) :
             o \in Shaped, d \in {"no", "before", "during", "delay", "after"}}

\* --files-from, --dirs, -H, the dry runs.
Lists == {<<<<2, 0, 1>>, <<>>>>, <<<<2>>, <<4>>>>, <<<<0>>>>, <<<<-1, 2>>>>}
Listed ==
    {Case(Plain, [Off EXCEPT !.files_from = TRUE, !.list = l, !.missing = m, !.relative = r, !.delete = d], 0) :
       l \in Lists, m \in {"error", "ignore", "delete"}, r \in BOOLEAN, d \in {"no", "before", "during", "after"}}
DirsOnly ==
    {Case(t, [Off EXCEPT !.dirs = TRUE, !.slash = s, !.prune_empty = s, !.files_from = f, !.list = <<<<2>>, <<1>>>>], 0) :
       t \in {Mixed, RootLocked, Empty3}, s \in BOOLEAN, f \in BOOLEAN}
Twins == [Plain EXCEPT ![<<2, 2, 1>>].ino = <<1>>, ![<<3, 1>>].ino = <<1>>]
Linked == {Case(Twins, [Off EXCEPT !.hard_links = TRUE, !.delete = d], 0) : d \in {"no", "before", "after"}}
Dry == {Case(t, [o EXCEPT !.mode = m, !.ignore_errors = TRUE, !.interrupt = m = "dry_remote"], 0) :
          t \in {Plain, Locked, RootLocked}, o \in Timed(Off), m \in {"dry_local", "dry_remote"}}

\* The scanner thread.
Threaded ==
    {Case(t, [Off EXCEPT !.mode = "threads", !.interrupt = TRUE], 0) : t \in {Plain, Locked, RootLocked}}
    \cup {Case(Mixed, [o EXCEPT !.mode = "threads"], 0) : o \in {s \in Shaped : s.max_depth = 0}}
    \cup {Case(Plain, [Off EXCEPT !.mode = "threads", !.stop = TRUE, !.delete = "after"], 0),
          Case(Small, [Off EXCEPT !.mode = "threads", !.one_fs = 1], 2)}

MCCases == Changing \cup Cut \cup Errors \cup Rules \cup Shapes \cup Listed \cup DirsOnly \cup Linked
           \cup Dry \cup Threaded

\* -H with a pre-scan for the plans.
LinkCases == {Case(Twins, [Off EXCEPT !.hard_links = TRUE, !.delete = d], 0) : d \in {"during", "delay"}}
=============================================================================
