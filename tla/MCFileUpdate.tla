---------------------------- MODULE MCFileUpdate ----------------------------
(* The instances of FileUpdate: option records and first states.           *)
EXTENDS FileUpdate

Plain ==
    [incremental |-> TRUE, checksum |-> FALSE, size_only |-> FALSE, ignore_times |-> FALSE,
     update |-> FALSE, existing |-> FALSE, ignore_existing |-> FALSE, delta |-> FALSE,
     append |-> FALSE, append_verify |-> FALSE, inplace |-> FALSE, sparse |-> FALSE,
     preallocate |-> FALSE, partial |-> FALSE, partial_dir |-> FALSE, temp_dir |-> "none",
     backup |-> FALSE, force |-> FALSE, times |-> TRUE, fsync |-> FALSE, basis |-> "none",
     verify_basis |-> FALSE, stream |-> FALSE, hard_links |-> FALSE, fuzzy |-> FALSE,
     dry_run |-> FALSE]

Replacing ==
    { [Plain EXCEPT !.incremental = FALSE, !.times = FALSE, !.stream = TRUE],
      [Plain EXCEPT !.delta = TRUE, !.times = FALSE, !.preallocate = TRUE],
      [Plain EXCEPT !.delta = TRUE, !.stream = TRUE],
      [Plain EXCEPT !.append_verify = TRUE, !.partial = TRUE, !.stream = TRUE],
      [Plain EXCEPT !.append_verify = TRUE, !.inplace = TRUE],
      [Plain EXCEPT !.append = TRUE, !.partial = TRUE, !.sparse = TRUE],
      [Plain EXCEPT !.inplace = TRUE, !.checksum = TRUE, !.preallocate = TRUE],
      [Plain EXCEPT !.partial = TRUE, !.partial_dir = TRUE, !.backup = TRUE],
      [Plain EXCEPT !.backup = TRUE, !.fsync = TRUE],
      [Plain EXCEPT !.backup = TRUE, !.inplace = TRUE, !.ignore_times = TRUE],
      [Plain EXCEPT !.temp_dir = "other", !.partial = TRUE],
      [Plain EXCEPT !.update = TRUE, !.existing = TRUE] }

FromBasis ==
    { [Plain EXCEPT !.basis = "compare", !.size_only = TRUE],
      [Plain EXCEPT !.basis = "copy", !.temp_dir = "other", !.update = TRUE],
      [Plain EXCEPT !.basis = "link", !.verify_basis = TRUE, !.temp_dir = "other"],
      [Plain EXCEPT !.basis = "link", !.fsync = TRUE],
      [Plain EXCEPT !.basis = "link", !.inplace = TRUE] }

Creating ==
    { [Plain EXCEPT !.ignore_existing = TRUE],
      [Plain EXCEPT !.hard_links = TRUE, !.times = FALSE],
      [Plain EXCEPT !.hard_links = TRUE, !.ignore_existing = TRUE],
      [Plain EXCEPT !.hard_links = TRUE, !.temp_dir = "other"] }

Rehearsed ==
    { [Plain EXCEPT !.dry_run = TRUE, !.incremental = FALSE],
      [Plain EXCEPT !.dry_run = TRUE, !.size_only = TRUE],
      [Plain EXCEPT !.dry_run = TRUE, !.basis = "compare"],
      [Plain EXCEPT !.dry_run = TRUE, !.basis = "link", !.verify_basis = TRUE] }

\* NoData stands for the very file the source is.
Absent == [dir |-> [dest |-> NoEntry], ino |-> <<>>]
Older == [dir |-> [dest |-> 1], ino |-> <<<<1, 1>>>>]
Blocked == [dir |-> [dest |-> Directory], ino |-> <<>>]
NewBasis == [dir |-> [dest |-> NoEntry, basis |-> 1], ino |-> <<NoData>>]
OlderAndBasis == [dir |-> [dest |-> 1, basis |-> 2], ino |-> <<<<1, 1>>, NoData>>]
Neighbour == [dir |-> [dest |-> NoEntry, sib |-> 1, backup |-> 2], ino |-> <<<<1>>, <<1, 1>>>>]
Twin == [dir |-> [dest |-> NoEntry, sib |-> 1], ino |-> <<NoData>>]

Case(configs, scenes, kinds) == [config : configs, scene : scenes, kind : kinds]

MCCases ==
    Case(Replacing, {Older, Absent}, {"file"})
      \cup Case(FromBasis, {NewBasis, OlderAndBasis}, {"file"})
      \cup Case(Creating, {Absent}, {"file"})
      \cup Case({[Plain EXCEPT !.temp_dir = "same", !.force = b] : b \in BOOLEAN},
                {Blocked}, {"file"})
      \cup Case({[Plain EXCEPT !.inplace = TRUE],
                 [Plain EXCEPT !.partial = TRUE, !.partial_dir = TRUE]}, {Blocked}, {"file"})
      \cup Case({[Plain EXCEPT !.delta = TRUE, !.fuzzy = TRUE]}, {Neighbour, Twin}, {"file"})
      \cup Case(Rehearsed, {Older, NewBasis}, {"file"})
      \cup Case({Plain, [Plain EXCEPT !.ignore_existing = TRUE, !.dry_run = TRUE]},
                {Older, Absent, Blocked}, {"directory", "symlink", "fifo", "device"})

SparseCases == Case({[Plain EXCEPT !.inplace = TRUE, !.sparse = TRUE]}, {Older}, {"file"})

MCContents == {<<2, 1, 1, 2>>, <<1, 1, 2>>, <<2, 0>>}
MCForeign == <<3>>
MCNameDistance == [sib |-> 2, backup |-> 1]
=============================================================================
