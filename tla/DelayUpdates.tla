---------------------------- MODULE DelayUpdates ----------------------------
(***************************************************************************)
(* --delay-updates: the receiver stages every file below the fixed         *)
(* directory .fastsync-stage of the receive root and renames all of them   *)
(* into place at the end.  Each session is a process of its own; sessions  *)
(* with the same root share the directory, which a non-blocking exclusive  *)
(* flock on its inode is meant to give to one of them at a time.           *)
(*                                                                         *)
(* The lock belongs to an inode, while staging, publishing and removal go  *)
(* through the path; the model keeps the two apart.  Inode 0 stands for    *)
(* "no directory at the path".                                             *)
(***************************************************************************)
EXTENDS Naturals, FiniteSets

CONSTANTS
    Sessions, Files,
    None,
    MaxInode,       \* bound: directories created at the path
    MayCrash,       \* sessions may be killed
    Gaps            \* windows in which the other sessions may run:
                    \* "open_lock", between open and flock of prepare;
                    \* "close", while a session removes the staging tree

ASSUME DelayAssumption ==
    /\ None \notin Sessions /\ MaxInode \in Nat \ {0}
    /\ MayCrash \in BOOLEAN /\ Gaps \subseteq {"open_lock", "close"}

Inodes == 1..MaxInode

VARIABLES
    dir,            \* inode at the path .fastsync-stage
    ninodes,        \* inodes created so far
    staged,         \* [inode -> [file -> session that wrote it, or None]]
    final,          \* [file -> session whose version is installed, or None]
    lock,           \* [inode -> session that holds its flock, or None]
    pc, fd, rfd,    \* per session: location; inode that lock_fd, and that
                    \* the removal of the staging tree, has open
    prepared, entries, ok,  \* DelayUpdatesContext, and the session's result
    attempted,      \* entries that publish has come to
    installed,      \* history: of these, the ones that were the session's own
    crashed         \* history: sessions that were killed

fs == <<dir, ninodes, staged, lock>>
ctx == <<prepared, entries, ok>>
publication == <<final, attempted, installed>>
vars == <<fs, publication, pc, fd, rfd, ctx, crashed>>

Empty == [f \in Files |-> None]

Init ==
    /\ dir = 0 /\ ninodes = 0 /\ staged = [i \in Inodes |-> Empty]
    /\ final = Empty /\ lock = [i \in Inodes |-> None]
    /\ pc = [s \in Sessions |-> "open"] 
    /\ fd = [s \in Sessions |-> 0] /\ rfd = [s \in Sessions |-> 0]
    /\ prepared = [s \in Sessions |-> FALSE] /\ entries = [s \in Sessions |-> {}]
    /\ ok = [s \in Sessions |-> TRUE]
    /\ attempted = [s \in Sessions |-> {}] /\ installed = [s \in Sessions |-> {}]
    /\ crashed = {}

\* delay_updates_remove_staging_tree is called by publish and by cleanup.
Tree == [publish |-> [open |-> "p_open", wipe |-> "p_wipe", rmdir |-> "p_rmdir",
                      return |-> "answer"],
         cleanup |-> [open |-> "c_open", wipe |-> "c_wipe", rmdir |-> "c_rmdir",
                      return |-> "close"]]

\* Locations at which a session may have removed the staging directory.
Closing == {"p_open", "p_wipe", "p_rmdir", "answer", "cleanup", "c_open", "c_wipe",
            "c_rmdir", "close"}

\* Session s may run now, given the windows that Gaps leaves open.
MayRun(s) ==
    \A t \in Sessions \ {s} : pc[t] = "lock" => "open_lock" \in Gaps

Goto(s, next) == MayRun(s) /\ pc' = [pc EXCEPT ![s] = next]

\* The directory at the path, created if there is none.
EnsureDirectory ==
    IF dir # 0 THEN UNCHANGED <<dir, ninodes>>
    ELSE ninodes < MaxInode /\ dir' = ninodes + 1 /\ ninodes' = ninodes + 1

\* delay_updates_prepare, up to flock.
OpenStaging(s) ==
    /\ pc[s] = "open" /\ Goto(s, "lock")
    /\ (\E t \in Sessions \ {s} : pc[t] \in Closing) => "close" \in Gaps
    /\ EnsureDirectory
    /\ fd' = [fd EXCEPT ![s] = dir']
    /\ UNCHANGED <<staged, lock, publication, rfd, ctx, crashed>>

\* Faulty variants, named Bad..., stand before the definition they are a
\* plausible slip of; the README says which property finds each of them.
BadLockFree(i) == TRUE
LockFree(i) == lock[i] = None

\* flock(LOCK_EX | LOCK_NB): contention fails the session, whose context is
\* not prepared.
Lock(s) ==
    /\ pc[s] = "lock"
    /\ IF LockFree(fd[s])
         THEN lock' = [lock EXCEPT ![fd[s]] = s] /\ Goto(s, "wipe") /\ UNCHANGED ok
         ELSE Goto(s, "cleanup") /\ ok' = [ok EXCEPT ![s] = FALSE] /\ UNCHANGED lock
    /\ UNCHANGED <<dir, ninodes, staged, publication, fd, rfd, prepared, entries, crashed>>

\* delay_wipe_dir_fd on the locked inode: leftovers of a killed session go.
PrepareWipe(s) ==
    /\ pc[s] = "wipe" /\ Goto(s, "run")
    /\ staged' = [staged EXCEPT ![fd[s]] = Empty]
    /\ prepared' = [prepared EXCEPT ![s] = TRUE]
    /\ UNCHANGED <<dir, ninodes, lock, publication, fd, rfd, entries, ok, crashed>>

\* file_stage_delayed_update: write below the path, creating directories as needed,
\* and record the entry.
Stage(s, f) ==
    /\ pc[s] = "run" /\ Goto(s, "run") /\ f \notin entries[s]
    /\ EnsureDirectory
    /\ staged' = [staged EXCEPT ![dir'][f] = s]
    /\ entries' = [entries EXCEPT ![s] = @ \cup {f}]
    /\ UNCHANGED <<lock, publication, fd, rfd, prepared, ok, crashed>>

\* The stream ends: in success, or in a failure that publishes nothing.
StreamEnds(s) ==
    /\ pc[s] = "run"
    /\ \/ Goto(s, "publish") /\ UNCHANGED ok
       \/ Goto(s, "cleanup") /\ ok' = [ok EXCEPT ![s] = FALSE]
    /\ UNCHANGED <<fs, publication, fd, rfd, prepared, entries, crashed>>

BadRenameResult(s, f) == ok
RenameResult(s, f) == [ok EXCEPT ![s] = FALSE]

\* delay_publish_entry: rename the staged file over the final one.  A rename
\* that fails ends the loop.
PublishEntry(s, f) ==
    /\ pc[s] = "publish" /\ f \in entries[s] \ attempted[s]
    /\ attempted' = [attempted EXCEPT ![s] = @ \cup {f}]
    /\ \/ /\ dir # 0 /\ staged[dir][f] # None
          /\ final' = [final EXCEPT ![f] = staged[dir][f]]
          /\ installed' = IF staged[dir][f] = s
                            THEN [installed EXCEPT ![s] = @ \cup {f}] ELSE installed
          /\ staged' = [staged EXCEPT ![dir][f] = None]
          /\ Goto(s, "publish") /\ UNCHANGED ok
       \/ /\ ok' = RenameResult(s, f)
          /\ Goto(s, "p_open") /\ UNCHANGED <<final, installed, staged>>
    /\ UNCHANGED <<dir, ninodes, lock, fd, rfd, prepared, entries, crashed>>

Published(s) ==
    /\ pc[s] = "publish" /\ entries[s] = attempted[s] /\ Goto(s, "p_open")
    /\ UNCHANGED <<fs, publication, fd, rfd, ctx, crashed>>

\* delay_updates_remove_staging_tree: open the path, wipe what was opened,
\* rmdir the path.
RemoveOpen(s, call) ==
    /\ pc[s] = call.open
    /\ IF dir = 0 THEN Goto(s, call.return) /\ UNCHANGED rfd
       ELSE Goto(s, call.wipe) /\ rfd' = [rfd EXCEPT ![s] = dir]
    /\ UNCHANGED <<fs, publication, fd, ctx, crashed>>

RemoveWipe(s, call) ==
    /\ pc[s] = call.wipe /\ Goto(s, call.rmdir)
    /\ staged' = [staged EXCEPT ![rfd[s]] = Empty]
    /\ UNCHANGED <<dir, ninodes, lock, publication, fd, rfd, ctx, crashed>>

RemoveDirectory(s, call) ==
    /\ pc[s] = call.rmdir /\ Goto(s, call.return)
    /\ dir' = IF dir # 0 /\ staged[dir] = Empty THEN 0 ELSE dir
    /\ UNCHANGED <<ninodes, staged, lock, publication, fd, rfd, ctx, crashed>>

\* The verdict goes to the client.
Answer(s) ==
    /\ pc[s] = "answer" /\ Goto(s, "cleanup")
    /\ UNCHANGED <<fs, publication, fd, rfd, ctx, crashed>>

OwnsStaging(s) == prepared[s]

\* delay_updates_cleanup, on every way out of the session (config_delete).
Cleanup(s) ==
    /\ pc[s] = "cleanup"
    /\ Goto(s, IF OwnsStaging(s) THEN "c_open" ELSE "close")
    /\ UNCHANGED <<fs, publication, fd, rfd, ctx, crashed>>

Unlocked(s) == [i \in Inodes |-> IF lock[i] = s THEN None ELSE lock[i]]

\* delay_updates_context_destroy closes lock_fd, which drops the lock.
Close(s) ==
    /\ pc[s] = "close" /\ Goto(s, "done")
    /\ lock' = Unlocked(s)
    /\ UNCHANGED <<dir, ninodes, staged, publication, fd, rfd, ctx, crashed>>

\* The process is killed: the kernel drops its lock, the files stay.
Crash(s) ==
    /\ MayCrash /\ pc[s] \notin {"open", "done"} /\ Goto(s, "done")
    /\ lock' = Unlocked(s) /\ crashed' = crashed \cup {s}
    /\ UNCHANGED <<dir, ninodes, staged, publication, fd, rfd, ctx>>

Session(s) ==
    \/ OpenStaging(s) \/ Lock(s) \/ PrepareWipe(s) \/ StreamEnds(s) \/ Published(s)
    \/ \E f \in Files : Stage(s, f) \/ PublishEntry(s, f)
    \/ \E c \in {"publish", "cleanup"} :
         RemoveOpen(s, Tree[c]) \/ RemoveWipe(s, Tree[c]) \/ RemoveDirectory(s, Tree[c])
    \/ Answer(s) \/ Cleanup(s) \/ Close(s)

Over == (\A s \in Sessions : pc[s] = "done") /\ UNCHANGED vars

Next == (\E s \in Sessions : Session(s) \/ Crash(s)) \/ Over

Spec == Init /\ [][Next]_vars

-----------------------------------------------------------------------------
(* Properties                                                              *)

\* Locations, inodes and result flags stay in range; a lock is held only by a
\* live session.
TypeOK ==
    /\ dir \in 0..MaxInode /\ ninodes \in 0..MaxInode /\ dir <= ninodes
    /\ staged \in [Inodes -> [Files -> Sessions \cup {None}]]
    /\ final \in [Files -> Sessions \cup {None}]
    /\ lock \in [Inodes -> Sessions \cup {None}]
    /\ pc \in [Sessions -> {"open", "lock", "wipe", "run", "publish", "done"} \cup Closing]
    /\ fd \in [Sessions -> 0..MaxInode] /\ rfd \in [Sessions -> 0..MaxInode]
    /\ prepared \in [Sessions -> BOOLEAN] /\ ok \in [Sessions -> BOOLEAN]
    /\ entries \in [Sessions -> SUBSET Files]
    /\ attempted \in [Sessions -> SUBSET Files]
    /\ installed \in [Sessions -> SUBSET Files] /\ crashed \subseteq Sessions
    /\ \A i \in Inodes : lock[i] # None => pc[lock[i]] # "done"

\* What a session has staged and not yet installed stays in the staging
\* directory while the session receives and publishes: no other session wipes
\* or overwrites it (delay_updates_prepare: "The lock makes the second session
\* fail cleanly instead of corrupting the first").
StagedSafe ==
    \A s \in Sessions : pc[s] \in {"run", "publish"} =>
        \A f \in entries[s] \ attempted[s] : dir # 0 /\ staged[dir][f] = s

\* A session that answers success has installed its own version of every file
\* it recorded (receiver_send_success_frame publishes before the frame that
\* lets --remove-source-files delete the sources), and when no session is live
\* and none was killed, no staging directory is left behind
\* (delay_updates_publish, delay_updates_cleanup).
SessionsEndClean ==
    /\ \A s \in Sessions : pc[s] = "answer" /\ ok[s] => installed[s] = entries[s]
    /\ (\A s \in Sessions : pc[s] \in {"open", "done"}) /\ crashed = {} => dir = 0
=============================================================================
