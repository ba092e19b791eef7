------------------------- MODULE DelayUpdates_proofs -------------------------
(***************************************************************************)
(* The flock of --delay-updates for any number of sessions and files, with *)
(* kills: when nothing runs between open and flock of a preparing session  *)
(* (AtLock) and none prepares while another removes the staging tree, the  *)
(* staged files of a session are safe and sessions end clean.              *)
(***************************************************************************)
EXTENDS DelayUpdates, TLAPS

\* A leaf that names no prover is for the SMT solver, which has a minute for it.
USE SMTT(60)

\* The session has the staging directory: it got the lock and has not come to
\* the end of its removal of the tree.
Holds(s) ==
    \/ pc[s] \in {"wipe", "run", "publish", "p_open", "p_wipe", "p_rmdir", "answer",
                  "c_open", "c_wipe", "c_rmdir"}
    \/ pc[s] \in {"cleanup", "close"} /\ prepared[s]

\* The session is at its flock: the path still has the inode it opened, and no
\* other session is on its way out.
AtLock ==
    \A s \in Sessions : pc[s] = "lock" =>
        /\ dir # 0 /\ fd[s] = dir
        /\ \A t \in Sessions \ {s} : pc[t] \notin Closing \cup {"lock"}

\* A session that receives or publishes has the lock of the inode at the path;
\* a lock belongs to a session that has the directory; one session has it.
Exclusive ==
    /\ \A s \in Sessions : pc[s] \in {"wipe", "run", "publish"} =>
           dir # 0 /\ fd[s] = dir /\ lock[dir] = s
    /\ \A i \in Inodes : lock[i] # None => Holds(lock[i])
    /\ \A s, t \in Sessions : Holds(s) /\ Holds(t) => s = t

\* What the context and the result of a session hold at each location.
Progress ==
    \A s \in Sessions :
        /\ pc[s] \in {"open", "lock", "wipe"} => ~prepared[s] /\ entries[s] = {}
        /\ Holds(s) /\ pc[s] # "wipe" => prepared[s]
        /\ pc[s] \in {"open", "lock", "wipe", "run"} =>
               attempted[s] = {} /\ installed[s] = {}
        /\ pc[s] = "publish" => attempted[s] \subseteq entries[s]
        /\ pc[s] = "publish" /\ ok[s] => installed[s] = attempted[s]
        /\ pc[s] \in {"p_open", "p_wipe", "p_rmdir", "answer"} /\ ok[s] =>
               installed[s] = entries[s]

\* The removal of the tree works on the directory at the path, and ends with
\* none there.
Removal ==
    /\ \A s \in Sessions :
         /\ pc[s] \in {"p_wipe", "c_wipe", "p_rmdir", "c_rmdir"} =>
                dir # 0 /\ rfd[s] = dir
         /\ pc[s] \in {"p_rmdir", "c_rmdir"} => staged[dir] = Empty
         /\ pc[s] = "answer" => dir = 0
         /\ pc[s] = "close" /\ prepared[s] => dir = 0
    /\ dir # 0 /\ crashed = {} => \E s \in Sessions : pc[s] = "lock" \/ Holds(s)

LockInv == TypeOK /\ AtLock /\ Exclusive /\ Progress /\ Removal /\ StagedSafe

\* The step A keeps it.
Kept(A) == Gaps = {} /\ LockInv /\ A => LockInv'

\* The invariant of the initial state.
LEMMA LockInit == Init => LockInv
  BY DelayAssumption DEF Init, LockInv, TypeOK, AtLock, Exclusive, Progress, Removal,
     StagedSafe, Holds, Closing, Empty, Inodes

\* A stuttering step.
LEMMA StutterKeeps == Kept(UNCHANGED vars)
  BY DEF Kept, vars, fs, publication, ctx, LockInv, TypeOK, AtLock, Exclusive, Progress,
     Removal, StagedSafe, Holds, Empty

\* delay_updates_prepare, up to flock.
LEMMA OpenKeeps ==
  ASSUME NEW s \in Sessions PROVE Kept(OpenStaging(s))
<1> SUFFICES ASSUME Gaps = {}, LockInv, OpenStaging(s) PROVE LockInv'
  BY Zenon DEF Kept
<1> USE DelayAssumption DEF OpenStaging, Goto, MayRun, EnsureDirectory, publication, ctx
<1>1. TypeOK'
  BY DEF LockInv, TypeOK, Closing, Inodes
<1>2. AtLock' /\ StagedSafe'
  BY DEF LockInv, TypeOK, AtLock, StagedSafe, Exclusive, Closing, Inodes
<1>3. Exclusive'
  BY DEF LockInv, TypeOK, Exclusive, Progress, Holds, Inodes
<1>4. Progress'
  BY DEF LockInv, TypeOK, Progress, Holds
<1>5. Removal'
  BY DEF LockInv, TypeOK, Removal, Holds, Closing
<1> QED BY <1>1, <1>2, <1>3, <1>4, <1>5, Zenon DEF LockInv

\* The flock.
LEMMA LockKeeps ==
  ASSUME NEW s \in Sessions PROVE Kept(Lock(s))
<1> SUFFICES ASSUME Gaps = {}, LockInv, Lock(s) PROVE LockInv'
  BY Zenon DEF Kept
<1> USE DelayAssumption DEF Goto, MayRun, publication
<1>0. /\ pc[s] = "lock" /\ fd[s] = dir /\ dir \in Inodes
      /\ UNCHANGED <<dir, ninodes, staged, publication, fd, rfd, prepared, entries, crashed>>
  BY DEF Lock, LockInv, AtLock, TypeOK, Inodes
<1>1. CASE LockFree(fd[s])
  <2>0. lock' = [lock EXCEPT ![dir] = s] /\ pc' = [pc EXCEPT ![s] = "wipe"] /\ UNCHANGED ok
    BY <1>0, <1>1, Zenon DEF Lock
  <2>1. \A t \in Sessions \ {s} : ~Holds(t)
    BY <1>0, <1>1 DEF LockInv, TypeOK, AtLock, Exclusive, Holds, Closing, LockFree
  <2>2. TypeOK'
    BY <1>0, <2>0, Zenon DEF LockInv, TypeOK, Closing
  <2>3. AtLock' /\ StagedSafe'
    BY <1>0, <2>0 DEF LockInv, TypeOK, AtLock, StagedSafe, Closing
  <2>4. Exclusive'
    <3>1. \A t \in Sessions \ {s} : ~Holds(t)'
      BY <1>0, <2>0, <2>1, Zenon DEF LockInv, TypeOK, Holds
    <3>2. \A i \in Inodes : lock[i] = None
      BY <1>0, <2>1 DEF LockInv, TypeOK, Exclusive, Holds
    <3>3. \A t \in Sessions : pc'[t] \in {"wipe", "run", "publish"} => t = s
      BY <3>1, Zenon DEF Holds
    <3>4. pc'[s] = "wipe" /\ lock'[dir] = s /\ Holds(s)'
      BY <1>0, <2>0, Zenon DEF LockInv, TypeOK, Holds
    <3>5. \A i \in Inodes : lock'[i] \in {None, s}
      BY <1>0, <2>0, <3>2, Zenon DEF LockInv, TypeOK
    <3> QED BY <1>0, <3>1, <3>3, <3>4, <3>5 DEF Exclusive, LockInv, TypeOK, Inodes
  <2>5. Progress'
    BY <1>0, <2>0 DEF LockInv, TypeOK, Progress, Holds
  <2>6. Removal'
    BY <1>0, <2>0 DEF LockInv, TypeOK, Removal, Holds
  <2> QED BY <2>2, <2>3, <2>4, <2>5, <2>6, Zenon DEF LockInv
<1>2. CASE ~LockFree(fd[s])
  <2>0. pc' = [pc EXCEPT ![s] = "cleanup"] /\ ok' = [ok EXCEPT ![s] = FALSE] /\ UNCHANGED lock
    BY <1>2, Zenon DEF Lock
  <2>1. lock[dir] \in Sessions \ {s} /\ Holds(lock[dir])
    BY <1>0, <1>2 DEF LockInv, TypeOK, Exclusive, Holds, LockFree
  <2>2. TypeOK'
    BY <1>0, <2>0, Zenon DEF LockInv, TypeOK, Closing
  <2>3. AtLock' /\ StagedSafe'
    BY <1>0, <2>0 DEF LockInv, TypeOK, AtLock, StagedSafe, Closing
  <2>4. Exclusive'
    BY <1>0, <2>0 DEF LockInv, TypeOK, Exclusive, Progress, Holds
  <2>5. Progress'
    BY <1>0, <2>0 DEF LockInv, TypeOK, Progress, Holds
  <2>6. Removal'
    BY <1>0, <2>0, <2>1 DEF LockInv, TypeOK, Removal, Progress, Holds
  <2> QED BY <2>2, <2>3, <2>4, <2>5, <2>6, Zenon DEF LockInv
<1> QED BY <1>1, <1>2, Zenon

\* delay_wipe_dir_fd of delay_updates_prepare.
LEMMA WipeKeeps ==
  ASSUME NEW s \in Sessions PROVE Kept(PrepareWipe(s))
<1> SUFFICES ASSUME Gaps = {}, LockInv, PrepareWipe(s) PROVE LockInv'
  BY Zenon DEF Kept
<1> USE DelayAssumption DEF PrepareWipe, Goto, MayRun, publication
<1>1. TypeOK'
  BY ZenonT(60) DEF LockInv, TypeOK, Closing, Inodes, Empty
<1>2. AtLock' /\ StagedSafe'
  BY DEF LockInv, TypeOK, AtLock, StagedSafe, Exclusive, Progress, Holds, Closing
<1>3. Exclusive'
  BY DEF LockInv, TypeOK, Exclusive, Holds
<1>4. Progress'
  BY DEF LockInv, TypeOK, Progress, Holds
<1>5. Removal'
  BY DEF LockInv, TypeOK, Exclusive, Removal, Holds
<1> QED BY <1>1, <1>2, <1>3, <1>4, <1>5, Zenon DEF LockInv

\* file_stage_delayed_update: the directory is there, so none is created.
LEMMA StageKeeps ==
  ASSUME NEW s \in Sessions, NEW f \in Files PROVE Kept(Stage(s, f))
<1> SUFFICES ASSUME Gaps = {}, LockInv, Stage(s, f) PROVE LockInv'
  BY Zenon DEF Kept
<1> USE DelayAssumption DEF Stage, Goto, MayRun, publication
<1>1. UNCHANGED <<dir, ninodes>> /\ dir \in Inodes
  BY DEF LockInv, TypeOK, Exclusive, EnsureDirectory, Inodes
<1>2. TypeOK'
  BY <1>1 DEF LockInv, TypeOK, Closing
<1>3. AtLock'
  BY <1>1 DEF LockInv, TypeOK, AtLock, Closing
<1>4. StagedSafe'
  BY <1>1 DEF LockInv, TypeOK, StagedSafe, Exclusive, Progress, Holds
<1>5. Exclusive'
  BY <1>1 DEF LockInv, TypeOK, Exclusive, Holds
<1>6. Progress'
  BY DEF LockInv, TypeOK, Progress, Holds
<1>7. Removal'
  BY <1>1 DEF LockInv, TypeOK, Exclusive, Removal, Holds
<1> QED BY <1>2, <1>3, <1>4, <1>5, <1>6, <1>7, Zenon DEF LockInv

\* The end of the stream.
LEMMA EndKeeps ==
  ASSUME NEW s \in Sessions PROVE Kept(StreamEnds(s))
<1> SUFFICES ASSUME Gaps = {}, LockInv, StreamEnds(s) PROVE LockInv'
  BY Zenon DEF Kept
<1> USE DelayAssumption DEF StreamEnds, Goto, MayRun, publication, fs
<1>0. \/ pc' = [pc EXCEPT ![s] = "publish"] /\ ok' = ok
      \/ pc' = [pc EXCEPT ![s] = "cleanup"] /\ ok' = [ok EXCEPT ![s] = FALSE]
  BY Zenon
<1>1. TypeOK'
  <2>1. ok' \in [Sessions -> BOOLEAN]
    BY <1>0, ZenonT(60) DEF LockInv, TypeOK
  <2>2. pc' \in [Sessions -> {"open", "lock", "wipe", "run", "publish", "done"} \cup Closing]
    BY <1>0 DEF LockInv, TypeOK, Closing
  <2>3. \A t \in Sessions : pc[t] # "done" => pc'[t] # "done"
    BY <1>0 DEF LockInv, TypeOK
  <2> QED BY <2>1, <2>2, <2>3 DEF LockInv, TypeOK
<1>2. AtLock' /\ StagedSafe'
  BY DEF LockInv, TypeOK, AtLock, StagedSafe, Closing
<1>3. Exclusive'
  BY DEF LockInv, TypeOK, Exclusive, Progress, Holds
<1>4. Progress'
  <2>1. CASE pc' = [pc EXCEPT ![s] = "publish"] /\ ok' = ok
    BY <2>1, ZenonT(60) DEF LockInv, TypeOK, Progress, Holds
  <2>2. CASE pc' = [pc EXCEPT ![s] = "cleanup"] /\ ok' = [ok EXCEPT ![s] = FALSE]
    BY <2>2 DEF LockInv, TypeOK, Progress, Holds
  <2> QED BY <1>0, <2>1, <2>2, Zenon
<1>5. Removal'
  BY DEF LockInv, TypeOK, Exclusive, Removal, Progress, Holds
<1> QED BY <1>1, <1>2, <1>3, <1>4, <1>5, Zenon DEF LockInv

\* delay_publish_entry.
LEMMA PublishKeeps ==
  ASSUME NEW s \in Sessions, NEW f \in Files PROVE Kept(PublishEntry(s, f))
<1> SUFFICES ASSUME Gaps = {}, LockInv, PublishEntry(s, f) PROVE LockInv'
  BY Zenon DEF Kept
<1> USE DelayAssumption DEF Goto, MayRun
<1>0. /\ dir \in Inodes /\ staged[dir][f] = s /\ pc[s] = "publish"
      /\ f \in entries[s] \ attempted[s]
      /\ attempted' = [attempted EXCEPT ![s] = attempted[s] \cup {f}]
      /\ UNCHANGED <<dir, ninodes, lock, fd, rfd, prepared, entries, crashed>>
      /\ \A t \in Sessions \ {s} : pc[t] # "lock"
  BY DEF LockInv, TypeOK, Exclusive, StagedSafe, Inodes, PublishEntry
<1>a. \/ /\ installed' = [installed EXCEPT ![s] = installed[s] \cup {f}]
         /\ staged' = [staged EXCEPT ![dir][f] = None]
         /\ final' = [final EXCEPT ![f] = s]
         /\ pc' = [pc EXCEPT ![s] = "publish"] /\ UNCHANGED ok
      \/ /\ ok' = [ok EXCEPT ![s] = FALSE] /\ pc' = [pc EXCEPT ![s] = "p_open"]
         /\ UNCHANGED <<final, installed, staged>>
  BY <1>0, Zenon DEF PublishEntry, RenameResult
<1>1. CASE /\ installed' = [installed EXCEPT ![s] = installed[s] \cup {f}]
           /\ staged' = [staged EXCEPT ![dir][f] = None]
           /\ final' = [final EXCEPT ![f] = s]
           /\ pc' = [pc EXCEPT ![s] = "publish"] /\ UNCHANGED ok
  <2>1. TypeOK'
    BY <1>0, <1>1 DEF LockInv, TypeOK, Closing
  <2>2. AtLock' /\ StagedSafe'
    BY <1>0, <1>1 DEF LockInv, TypeOK, AtLock, StagedSafe, Exclusive, Holds, Closing
  <2>3. Exclusive'
    BY <1>0, <1>1 DEF LockInv, TypeOK, Exclusive, Holds
  <2>4. Progress'
    <3>1. \A t \in Sessions \ {s} :
             /\ pc'[t] = pc[t] /\ attempted'[t] = attempted[t]
             /\ installed'[t] = installed[t] /\ ok'[t] = ok[t]
             /\ prepared'[t] = prepared[t] /\ entries'[t] = entries[t]
      BY <1>0, <1>1, Zenon DEF LockInv, TypeOK
    <3>2. /\ attempted'[s] = attempted[s] \cup {f} /\ installed'[s] = installed[s] \cup {f}
          /\ pc'[s] = "publish" /\ ok'[s] = ok[s]
          /\ prepared'[s] = prepared[s] /\ entries'[s] = entries[s]
      BY <1>0, <1>1, Zenon DEF LockInv, TypeOK
    <3>3. attempted'[s] \subseteq entries'[s] /\ (ok'[s] => installed'[s] = attempted'[s])
      BY <1>0, <3>2 DEF LockInv, Progress
    <3>4. prepared'[s]
      BY <1>0, <3>2, Zenon DEF LockInv, Progress, Holds
    <3> SUFFICES ASSUME NEW t \in Sessions PROVE Progress!(t)'
      BY Zenon DEF Progress
    <3>5. CASE t = s
      BY <3>2, <3>3, <3>4, <3>5, ZenonT(60)
    <3>6. CASE t # s
      BY <3>1, <3>6 DEF LockInv, Progress, Holds
    <3> QED BY <3>5, <3>6, ZenonT(60)
  <2>5. Removal'
    BY <1>0, <1>1 DEF LockInv, TypeOK, Exclusive, Removal, Holds
  <2> QED BY <2>1, <2>2, <2>3, <2>4, <2>5, Zenon DEF LockInv
<1>2. CASE /\ ok' = [ok EXCEPT ![s] = FALSE] /\ pc' = [pc EXCEPT ![s] = "p_open"]
           /\ UNCHANGED <<final, installed, staged>>
  <2>1. TypeOK'
    BY <1>0, <1>2 DEF LockInv, TypeOK, Closing
  <2>2. AtLock' /\ StagedSafe'
    <3>1. AtLock'
      BY <1>0, <1>2 DEF LockInv, TypeOK, AtLock, Closing
    <3>2. StagedSafe'
      BY <1>0, <1>2 DEF LockInv, TypeOK, StagedSafe
    <3> QED BY <3>1, <3>2, Zenon
  <2>3. Exclusive'
    BY <1>0, <1>2 DEF LockInv, TypeOK, Exclusive, Progress, Holds
  <2>4. Progress'
    BY <1>0, <1>2 DEF LockInv, TypeOK, Progress, Holds
  <2>5. Removal'
    BY <1>0, <1>2 DEF LockInv, TypeOK, Exclusive, Removal, Holds
  <2> QED BY <2>1, <2>2, <2>3, <2>4, <2>5, Zenon DEF LockInv
<1> QED BY <1>a, <1>1, <1>2, Zenon

\* The end of the loop of delay_updates_publish.
LEMMA PublishedKeeps ==
  ASSUME NEW s \in Sessions PROVE Kept(Published(s))
<1> SUFFICES ASSUME Gaps = {}, LockInv, Published(s) PROVE LockInv'
  BY Zenon DEF Kept
<1> USE DelayAssumption DEF Published, Goto, MayRun, publication, fs, ctx
<1>1. TypeOK'
  BY DEF LockInv, TypeOK, Closing
<1>2. AtLock' /\ StagedSafe'
  BY DEF LockInv, TypeOK, AtLock, StagedSafe, Closing
<1>3. Exclusive'
  BY DEF LockInv, TypeOK, Exclusive, Progress, Holds
<1>4. Progress'
  BY DEF LockInv, TypeOK, Progress, Holds
<1>5. Removal'
  BY DEF LockInv, TypeOK, Exclusive, Removal, Progress, Holds
<1> QED BY <1>1, <1>2, <1>3, <1>4, <1>5, Zenon DEF LockInv

\* delay_updates_remove_staging_tree, called by publish and by cleanup.
LEMMA RemovalKeeps ==
  ASSUME NEW s \in Sessions, NEW c \in {"publish", "cleanup"} PROVE Kept(
    RemoveOpen(s, Tree[c]) \/ RemoveWipe(s, Tree[c]) \/ RemoveDirectory(s, Tree[c]))
<1> SUFFICES ASSUME Gaps = {}, LockInv, RemoveOpen(s, Tree[c]) \/ RemoveWipe(s, Tree[c]) \/ RemoveDirectory(s, Tree[c]) PROVE LockInv'
  BY Zenon DEF Kept
<1> DEFINE call == Tree[c]
<1>t. \/ /\ call.open = "p_open" /\ call.wipe = "p_wipe"
         /\ call.rmdir = "p_rmdir" /\ call.return = "answer"
      \/ /\ call.open = "c_open" /\ call.wipe = "c_wipe"
         /\ call.rmdir = "c_rmdir" /\ call.return = "close"
  BY DEF Tree
<1> HIDE DEF call
<1>a. \/ RemoveOpen(s, call) /\ pc[s] = call.open
      \/ RemoveWipe(s, call) /\ pc[s] = call.wipe
      \/ RemoveDirectory(s, call) /\ pc[s] = call.rmdir
  BY Zenon DEF call, RemoveOpen, RemoveWipe, RemoveDirectory
<1>0. Holds(s) /\ prepared[s] /\ \A t \in Sessions \ {s} : ~Holds(t)
  <2>1. pc[s] \in {"p_open", "c_open", "p_wipe", "c_wipe", "p_rmdir", "c_rmdir"}
    BY <1>t, <1>a, SMTT(60)
  <2> QED BY <2>1 DEF LockInv, Exclusive, Progress, Holds
<1>n. \A t \in Sessions \ {s} : pc[t] # "lock"
  BY <1>a, Zenon DEF RemoveOpen, RemoveWipe, RemoveDirectory, Goto, MayRun
<1>m. UNCHANGED <<ninodes, lock, final, attempted, installed, fd, prepared, entries, ok, crashed>>
  BY <1>a, Zenon DEF RemoveOpen, RemoveWipe, RemoveDirectory, publication, ctx, fs
<1> DEFINE Keeps(next) ==
      /\ pc' = [pc EXCEPT ![s] = next]
      /\ next \in {"p_wipe", "c_wipe", "p_rmdir", "c_rmdir", "answer", "close"}
      /\ next \in {"p_wipe", "p_rmdir", "answer"} =>
           pc[s] \in {"p_open", "p_wipe", "p_rmdir"}
\* What the three calls have in common.
<1>k. ASSUME NEW next, Keeps(next) PROVE AtLock' /\ Exclusive' /\ Progress'
  <2>1. AtLock'
    BY <1>n, <1>k, SMTT(60) DEF LockInv, TypeOK, Closing, AtLock
  <2>2. Exclusive'
    <3>1. \A t \in Sessions \ {s} : ~Holds(t)' /\ pc'[t] = pc[t]
      BY <1>0, <1>k, <1>m, Zenon DEF LockInv, TypeOK, Holds
    <3>2. Holds(s)' /\ pc'[s] \notin {"wipe", "run", "publish"}
      BY <1>0, <1>k, <1>m, Zenon DEF LockInv, TypeOK, Holds
    <3>3. \A t \in Sessions : pc'[t] \notin {"wipe", "run", "publish"}
      BY <3>1, <3>2, Zenon DEF Holds
    <3>4. \A i \in Inodes : lock[i] \in {None, s}
      BY <1>0 DEF LockInv, TypeOK, Exclusive
    <3> QED BY <1>m, <3>1, <3>2, <3>3, <3>4, Zenon DEF Exclusive
  <2>3. Progress'
    <3> SUFFICES ASSUME NEW t \in Sessions PROVE Progress!(t)'
      BY Zenon DEF Progress
    <3>1. CASE t = s
      <4>1. pc'[s] = next /\ pc[s] \notin {"wipe", "run", "publish"}
        BY <1>a, <1>t, <1>k, Zenon DEF LockInv, TypeOK
      <4>2. pc[s] \in {"p_open", "p_wipe", "p_rmdir"} /\ ok[s] => installed[s] = entries[s]
        BY Zenon DEF LockInv, Progress
      <4> QED BY <1>0, <1>k, <1>m, <3>1, <4>1, <4>2, Zenon DEF Holds
    <3>2. CASE t # s
      <4>1. pc'[t] = pc[t]
        BY <1>k, <3>2, Zenon DEF LockInv, TypeOK
      <4> QED BY <1>m, <3>2, <4>1, Zenon DEF LockInv, Progress, Holds
    <3> QED BY <3>1, <3>2, Zenon
  <2> QED BY <2>1, <2>2, <2>3, Zenon
<1>1. CASE RemoveOpen(s, call) /\ pc[s] = call.open
  <2>1. \E next : Keeps(next) /\ IF dir = 0 THEN next \in {"answer", "close"} /\ UNCHANGED rfd
                                 ELSE next \in {"p_wipe", "c_wipe"} /\ rfd' = [rfd EXCEPT ![s] = dir]
    BY <1>1, <1>t, Zenon DEF RemoveOpen, Goto
  <2>2. UNCHANGED <<dir, staged>>
    BY <1>1, Zenon DEF RemoveOpen, fs
  <2> HIDE DEF Keeps
  <2>3. PICK next : Keeps(next) /\ IF dir = 0 THEN next \in {"answer", "close"} /\ UNCHANGED rfd
                                 ELSE next \in {"p_wipe", "c_wipe"} /\ rfd' = [rfd EXCEPT ![s] = dir]
    BY <2>1, Zenon
  <2>4. AtLock' /\ Exclusive' /\ Progress'
    BY <1>k, <2>3, Zenon
  <2> USE DEF Keeps
  <2>5. TypeOK'
    BY <1>m, <2>2, <2>3 DEF LockInv, TypeOK, Closing
  <2>6. StagedSafe' /\ Removal'
    BY <1>0, <1>m, <2>2, <2>3 DEF LockInv, TypeOK, StagedSafe, Removal, Holds
  <2> QED BY <2>4, <2>5, <2>6, Zenon DEF LockInv
<1>2. CASE RemoveWipe(s, call) /\ pc[s] = call.wipe
  <2>1. /\ \E next \in {"p_rmdir", "c_rmdir"} : Keeps(next)
        /\ UNCHANGED <<dir, rfd>> /\ staged' = [staged EXCEPT ![rfd[s]] = Empty]
    BY <1>2, <1>t, ZenonT(60) DEF RemoveWipe, Goto
  <2>2. rfd[s] = dir /\ dir \in Inodes
    BY <1>2, <1>t DEF LockInv, Removal, TypeOK, Inodes
  <2> HIDE DEF Keeps
  <2>3. PICK next \in {"p_rmdir", "c_rmdir"} : Keeps(next)
    BY <2>1, Zenon
  <2>4. AtLock' /\ Exclusive' /\ Progress'
    BY <1>k, <2>3, Zenon
  <2> USE DEF Keeps
  <2>5. TypeOK'
    <3>1. staged' \in [Inodes -> [Files -> Sessions \cup {None}]]
      BY <2>1, <2>2, SMTT(60) DEF LockInv, TypeOK, Empty
    <3> QED BY <1>m, <2>1, <2>3, <3>1 DEF LockInv, TypeOK, Closing
  <2>6. StagedSafe'
    BY <1>0, <2>3 DEF LockInv, TypeOK, StagedSafe, Holds
  <2>7. Removal'
    <3>1. staged'[dir] = Empty
      BY <2>1, <2>2, Zenon DEF LockInv, TypeOK
    <3>2. pc'[s] \in {"p_rmdir", "c_rmdir"} /\ Holds(s)'
      BY <2>3, Zenon DEF LockInv, TypeOK, Holds
    <3>3. \A t \in Sessions \ {s} : pc'[t] = pc[t]
      BY <2>3, Zenon DEF LockInv, TypeOK
    <3>4. \A t \in Sessions \ {s} :
            /\ pc'[t] \notin {"p_wipe", "c_wipe", "p_rmdir", "c_rmdir", "answer"}
            /\ ~(pc'[t] = "close" /\ prepared'[t])
      BY <1>0, <1>m, <3>3, ZenonT(60) DEF Holds
    <3>5. dir' # 0 /\ rfd'[s] = dir' /\ staged'[dir'] = Empty
      BY <2>1, <2>2, <3>1 DEF Inodes
    <3>6. \A t \in Sessions : Removal!1!(t)'
      BY <3>2, <3>4, <3>5, Zenon
    <3> QED BY <3>2, <3>6, ZenonT(60) DEF Removal
  <2> QED BY <2>4, <2>5, <2>6, <2>7, Zenon DEF LockInv
<1>3. CASE RemoveDirectory(s, call) /\ pc[s] = call.rmdir
  <2>1. /\ \E next \in {"answer", "close"} : Keeps(next)
        /\ UNCHANGED <<rfd, staged>>
    BY <1>3, <1>t, ZenonT(60) DEF RemoveDirectory, Goto
  <2>2. dir' = 0
    <3>1. dir # 0 /\ staged[dir] = Empty
      BY <1>3, <1>t, Zenon DEF LockInv, Removal
    <3> QED BY <1>3, <3>1, Zenon DEF RemoveDirectory
  <2> HIDE DEF Keeps
  <2>3. PICK next \in {"answer", "close"} : Keeps(next)
    BY <2>1, Zenon
  <2>4. AtLock' /\ Exclusive' /\ Progress'
    BY <1>k, <2>3, Zenon
  <2> USE DEF Keeps
  <2>5. TypeOK'
    BY DelayAssumption, <1>m, <2>1, <2>2, <2>3 DEF LockInv, TypeOK, Closing
  <2>6. StagedSafe' /\ Removal'
    BY <1>0, <1>m, <2>1, <2>2, <2>3 DEF LockInv, TypeOK, StagedSafe, Removal, Holds
  <2> QED BY <2>4, <2>5, <2>6, Zenon DEF LockInv
<1> QED BY <1>a, <1>1, <1>2, <1>3, Zenon

\* The answer, and the end of the session in success, in failure or by a kill.
LEMMA LeaveKeeps ==
  ASSUME NEW s \in Sessions PROVE Kept(Answer(s) \/ Cleanup(s) \/ Close(s) \/ Crash(s))
<1> SUFFICES ASSUME Gaps = {}, LockInv, Answer(s) \/ Cleanup(s) \/ Close(s) \/ Crash(s) PROVE LockInv'
  BY Zenon DEF Kept
<1> USE DelayAssumption DEF Goto, MayRun, publication, ctx
<1>1. CASE Answer(s)
  <2> USE <1>1 DEF Answer, fs
  <2>1. TypeOK'
    BY Zenon DEF LockInv, TypeOK, Closing
  <2>2. AtLock' /\ StagedSafe'
    BY DEF LockInv, TypeOK, AtLock, StagedSafe, Exclusive, Closing
  <2>3. Exclusive'
    BY DEF LockInv, TypeOK, Exclusive, Progress, Holds, Inodes
  <2>4. Progress'
    BY DEF LockInv, TypeOK, Progress, Holds
  <2>5. Removal'
    BY DEF LockInv, TypeOK, Exclusive, Removal, Progress, Holds
  <2> QED BY <2>1, <2>2, <2>3, <2>4, <2>5, Zenon DEF LockInv
<1>2. CASE Cleanup(s)
  <2> USE <1>2 DEF Cleanup, OwnsStaging, fs
  <2>1. TypeOK'
    BY Zenon DEF LockInv, TypeOK, Closing
  <2>2. AtLock' /\ StagedSafe'
    BY DEF LockInv, TypeOK, AtLock, StagedSafe, Exclusive, Closing
  <2>3. Exclusive'
    BY DEF LockInv, TypeOK, Exclusive, Progress, Holds, Inodes
  <2>4. Progress'
    BY DEF LockInv, TypeOK, Progress, Holds
  <2>5. Removal'
    BY DEF LockInv, TypeOK, Exclusive, Removal, Progress, Holds
  <2> QED BY <2>1, <2>2, <2>3, <2>4, <2>5, Zenon DEF LockInv
<1>3. CASE Close(s)
  <2> USE <1>3 DEF Close, Unlocked
  <2>1. TypeOK'
    BY Zenon DEF LockInv, TypeOK, Closing
  <2>2. AtLock' /\ StagedSafe'
    BY DEF LockInv, TypeOK, AtLock, StagedSafe, Exclusive, Closing
  <2>3. Exclusive'
    BY DEF LockInv, TypeOK, Exclusive, Progress, Holds, Inodes
  <2>4. Progress'
    BY DEF LockInv, TypeOK, Progress, Holds
  <2>5. Removal'
    BY DEF LockInv, TypeOK, Exclusive, Removal, Progress, Holds
  <2> QED BY <2>1, <2>2, <2>3, <2>4, <2>5, Zenon DEF LockInv
<1>4. CASE Crash(s)
  <2> USE <1>4 DEF Crash, Unlocked
  <2>1. TypeOK'
    BY Zenon DEF LockInv, TypeOK, Closing
  <2>2. AtLock' /\ StagedSafe'
    BY SMTT(60) DEF LockInv, TypeOK, AtLock, StagedSafe, Exclusive, Closing
  <2>3. Exclusive'
    BY DEF LockInv, TypeOK, Exclusive, Progress, Holds, Inodes
  <2>4. Progress'
    BY SMTT(60) DEF LockInv, TypeOK, Progress, Holds
  <2>5. Removal'
    BY DEF LockInv, TypeOK, Exclusive, Removal, Progress, Holds
  <2> QED BY <2>1, <2>2, <2>3, <2>4, <2>5, Zenon DEF LockInv
<1> QED BY <1>1, <1>2, <1>3, <1>4, Zenon

\* Every step keeps the invariant.
LEMMA LockStep == ASSUME Gaps = {}, LockInv, [Next]_vars PROVE LockInv'
<1>1. CASE UNCHANGED vars
  BY <1>1, StutterKeeps, Zenon DEF Kept
<1>2. CASE \E s \in Sessions : Session(s) \/ Crash(s)
  BY <1>2, OpenKeeps, LockKeeps, WipeKeeps, StageKeeps, EndKeeps, PublishKeeps,
     PublishedKeeps, RemovalKeeps, LeaveKeeps, Zenon DEF Session, Kept
<1> QED BY <1>1, <1>2, SMTT(60) DEF Next, Over

\* Under the lock, with nothing run in the two windows it leaves open, no
\* session loses what it staged (delay_updates_prepare).
THEOREM StagedIsSafe == ASSUME Gaps = {} PROVE Spec => []StagedSafe
<1>1. LockInv => StagedSafe
  BY Zenon DEF LockInv
<1> QED BY LockInit, LockStep, <1>1, PTL DEF Spec

\* A success that is answered covers every file of the session, and the staging
\* directory is gone when no session is left (delay_updates_publish,
\* delay_updates_cleanup).
THEOREM EndsClean == ASSUME Gaps = {} PROVE Spec => []SessionsEndClean
<1>1. LockInv => SessionsEndClean
  BY DEF LockInv, Progress, Removal, SessionsEndClean, Holds
<1> QED BY LockInit, LockStep, <1>1, PTL DEF Spec
=============================================================================
