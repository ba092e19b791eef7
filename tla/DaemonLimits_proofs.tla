------------------------- MODULE DaemonLimits_proofs ------------------------
(***************************************************************************)
(* The daemon's connection registry, for any number of processes, slots,   *)
(* modules and sources, and for every cap.  The slots first: every child   *)
(* has a slot of its own that holds its pid, and the listener's count      *)
(* follows the children (SlotsInv).  Then the derived counters: each of    *)
(* them covers what is registered and what is being registered, and what   *)
(* is admitted is within its cap (CountersInv).                            *)
(***************************************************************************)
EXTENDS DaemonLimits, FiniteSetTheorems, TLAPS

\* A leaf that names no prover is for the SMT solver, which has a minute for it.
USE SMTT(60)

\* What fork() handed to a child.
Args == [slot : Slots, module : Modules, host : Hosts \cup {None}]

\* Between the fork and the publication a child's slot is CLAIMED.
Registering == MidRegistration \cup {"gate", "refused"}

\* Every child has a slot of its own, which holds its pid once the parent has
\* recorded it; a slot that no child has is the one the listener has claimed.
Owned ==
    /\ \A p \in Unreaped :
         /\ args[p] \in Args /\ slot_state[args[p].slot] # "FREE"
         /\ slot_pid[args[p].slot] = IF listener = "forked" /\ p = pid THEN None ELSE p
         /\ child[p] \in Registering => slot_state[args[p].slot] = "CLAIMED"
         /\ child[p] = "host_full" => args[p].host # None
    /\ \A p, q \in Unreaped : args[p].slot = args[q].slot => p = q
    /\ \A s \in Occupied : (\E p \in Unreaped : args[p].slot = s) \/ (listener = "fork" /\ s = g_current_slot)
    /\ listener = "fork" =>
         /\ g_current_slot \in Slots /\ slot_pid[g_current_slot] = None
         /\ slot_state[g_current_slot] = "CLAIMED"
         /\ \A p \in Unreaped : args[p].slot # g_current_slot
    /\ listener = "forked" => pid \in Unreaped /\ args[pid].slot = g_current_slot
    /\ handler # "idle" => listener # "forked"

\* The listener counts the children it has recorded, and accepts only below the limit.
Counting ==
    /\ Cardinality(Unreaped) = g_active_connections + (IF listener = "forked" THEN 1 ELSE 0)
    /\ Cardinality(Unreaped) <= max_connections
    /\ listener \in {"claim", "fork"} => Cardinality(Unreaped) < max_connections
    /\ Cardinality(Occupied) = Cardinality(Unreaped) + (IF listener = "fork" THEN 1 ELSE 0)

SlotsInv == TypeOK /\ Owned /\ Counting

---------------------------------------------------------------------------

\* One element more, and one less.
LEMMA OneMore == ASSUME NEW S, NEW x, IsFiniteSet(S), x \notin S
                 PROVE  Cardinality(S \cup {x}) = Cardinality(S) + 1
  BY FS_AddElement, Zenon
(* A finite set without one of its members. *)
LEMMA OneLess == ASSUME NEW S, NEW x, IsFiniteSet(S), x \in S
                 PROVE  Cardinality(S \ {x}) = Cardinality(S) - 1
  BY FS_RemoveElement, Zenon

\* Sets of processes and of slots are finite.
LEMMA Finite ==
  /\ \A S \in SUBSET Pids : IsFiniteSet(S) /\ Cardinality(S) \in Nat
  /\ \A S \in SUBSET Slots : IsFiniteSet(S) /\ Cardinality(S) \in Nat
<1>1. \A S : IsFiniteSet(S) => Cardinality(S) \in Nat
  BY FS_CardinalityType, ZenonT(60)
<1>2. \A S, T : IsFiniteSet(S) /\ T \in SUBSET S => IsFiniteSet(T)
  BY FS_Subset, ZenonT(60)
<1> QED BY <1>1, <1>2, DaemonAssumption, ZenonT(60)

\* The step A keeps the invariant of the slots.
SlotsKept(A) == SlotsInv /\ A => SlotsInv'

(* The invariant of the initial state. *)
LEMMA SlotsInit == Init => SlotsInv
<1> SUFFICES ASSUME Init PROVE SlotsInv
  BY Zenon
<1>1. TypeOK
  <2>1. sigchld \in BOOLEAN /\ unscanned \subseteq Slots
    BY ZenonT(60) DEF Init
  <2> QED BY <2>1, DaemonAssumption DEF Init, TypeOK
<1>2. Unreaped = {} /\ Occupied = {}
  BY Zenon DEF Init, Unreaped, Occupied
<1>3. Owned
  BY <1>2, Zenon DEF Init, Owned
<1>4. Counting
  BY <1>2, DaemonAssumption, FS_EmptySet DEF Init, Counting
<1> QED BY <1>1, <1>3, <1>4, Zenon DEF SlotsInv

\* A stuttering step.
LEMMA StutterKeeps == SlotsKept(UNCHANGED vars)
<1> SUFFICES ASSUME SlotsInv, UNCHANGED vars PROVE SlotsInv'
  BY Zenon DEF SlotsKept
<1> USE DEF vars, table, counters, parent, signal
<1>1. TypeOK'
  BY DEF SlotsInv, TypeOK
<1>2. Unreaped' = Unreaped /\ Occupied' = Occupied
  BY Zenon DEF Unreaped, Occupied
<1>3. Owned'
  BY <1>2 DEF SlotsInv, Owned
<1>4. Counting'
  BY <1>2, Zenon DEF SlotsInv, Counting
<1> QED BY <1>1, <1>3, <1>4, Zenon DEF SlotsInv

\* What a step of a child does to the slots: it stays a child, and may publish
\* its own slot.
Advances(p) ==
    /\ p \in Unreaped /\ child' = [child EXCEPT ![p] = child'[p]] /\ child'[p] # "none"
    /\ child'[p] \in Registering => child[p] \in Registering
    /\ child'[p] = "host_full" => args[p].host # None
    /\ \/ slot_state' = slot_state
       \/ /\ child'[p] = "registered"
          /\ slot_state' = [slot_state EXCEPT ![args[p].slot] = "REGISTERED"]
    /\ UNCHANGED <<max_connections, slot_pid, parent, handler, args>>

(* A child's step moves that child's phase on. *)
LEMMA ChildAdvances == ASSUME NEW p \in Pids, SlotsInv, Child(p) PROVE TypeOK' /\ Advances(p)
<1>1. p \in Unreaped
  BY Zenon DEF Child, RegisterModule, ModuleFull, RegisterHost, SkipHost, HostFull, Publish, Exit,
     Step, Unreaped
<1>2. args[p] \in Args /\ (child[p] = "host_full" => args[p].host # None) /\ TypeOK
  BY <1>1, Zenon DEF SlotsInv, Owned
<1> USE DEF Advances, TypeOK, MidRegistration, Registering, Step, parent
<1>3. CASE RegisterModule(p)
  BY <1>1, <1>2, <1>3 DEF RegisterModule, table, signal, Args
<1>4. CASE ModuleFull(p)
  BY <1>1, <1>2, <1>4 DEF ModuleFull, table, signal, Args
<1>5. CASE RegisterHost(p)
  BY <1>1, <1>2, <1>5 DEF RegisterHost, table, signal, Args
<1>6. CASE SkipHost(p)
  BY <1>1, <1>2, <1>6, Zenon DEF SkipHost, table, counters, signal
<1>7. CASE HostFull(p)
  BY <1>1, <1>2, <1>7 DEF HostFull, table, signal, Args
<1>8. CASE Publish(p)
  BY <1>1, <1>2, <1>8 DEF Publish, counters, signal, Args
<1>9. CASE Exit(p)
  BY <1>1, <1>2, <1>9, Zenon DEF Exit, table, counters
<1> QED BY <1>3, <1>4, <1>5, <1>6, <1>7, <1>8, <1>9, Zenon DEF Child

(* A child's step keeps the slots. *)
LEMMA ChildKeeps == ASSUME NEW p \in Pids PROVE SlotsKept(Child(p))
<1> SUFFICES ASSUME SlotsInv, Child(p) PROVE SlotsInv'
  BY Zenon DEF SlotsKept
<1>1. TypeOK' /\ Advances(p) /\ TypeOK
  BY ChildAdvances, Zenon DEF SlotsInv
<1>2. args[p] \in Args
  BY <1>1, Zenon DEF SlotsInv, Owned, Advances
<1>3. Unreaped' = Unreaped /\ \A q \in Pids \ {p} : child'[q] = child[q]
  BY <1>1 DEF Advances, Unreaped, TypeOK
<1>4. Occupied' = Occupied
  BY <1>1, <1>2 DEF Advances, SlotsInv, Owned, Occupied, TypeOK, Args
<1>5. Owned'
  <2>1. \A q \in Unreaped : q # p => args[q].slot # args[p].slot
    BY <1>1, Zenon DEF SlotsInv, Owned, Advances
  <2>2. \A q \in Unreaped :
          /\ args'[q] \in Args /\ slot_state'[args'[q].slot] # "FREE"
          /\ child'[q] \in Registering => slot_state'[args'[q].slot] = "CLAIMED"
          /\ child'[q] = "host_full" => args'[q].host # None
    BY <1>1, <1>2, <1>3, <2>1 DEF SlotsInv, Owned, Advances, TypeOK, Args, Registering, MidRegistration, Unreaped
  <2>3. UNCHANGED <<slot_pid, g_current_slot, listener, pid, handler, args, Unreaped, Occupied>>
    BY <1>1, <1>3, <1>4, Zenon DEF Advances, parent
  <2>4. listener = "fork" => slot_state'[g_current_slot] = "CLAIMED"
    BY <1>1, <1>2 DEF SlotsInv, Owned, Advances, Args, TypeOK
  <2> QED
    BY <2>2, <2>3, <2>4 DEF SlotsInv, Owned
<1>6. Counting'
  BY <1>1, <1>3, <1>4, Zenon DEF SlotsInv, Counting, Advances, parent
<1> QED BY <1>1, <1>5, <1>6, Zenon DEF SlotsInv

\* The accept loop where it changes neither the slots nor the children.
LEMMA LoopKeeps == SlotsKept(Refuse \/ Accept \/ ClaimFails)
<1> SUFFICES ASSUME SlotsInv, Refuse \/ Accept \/ ClaimFails PROVE SlotsInv'
  BY Zenon DEF SlotsKept
<1>1. /\ UNCHANGED <<max_connections, table, counters, g_active_connections, g_current_slot, pid,
                     signal, child, args, derived>>
      /\ \/ listener' = listener
         \/ /\ listener' \in {"accept", "claim"} /\ listener \in {"accept", "claim"}
            /\ listener' = "claim" => g_active_connections < max_connections
  BY DaemonAssumption DEF SlotsInv, TypeOK, Refuse, Accept, ClaimFails, AtLimit, vars, parent
<1>2. TypeOK'
  BY <1>1 DEF SlotsInv, TypeOK, table, counters, signal
<1>3. Unreaped' = Unreaped /\ Occupied' = Occupied
  BY <1>1, Zenon DEF Unreaped, Occupied, table
<1>4. Owned'
  BY <1>1, <1>3 DEF SlotsInv, Owned, table, signal
<1>5. Counting'
  <2>1. max_connections \in Nat /\ g_active_connections \in Nat
    BY DaemonAssumption, Zenon DEF SlotsInv, TypeOK
  <2> QED
    BY <1>1, <1>3, <2>1 DEF SlotsInv, Counting
<1> QED BY <1>2, <1>4, <1>5, Zenon DEF SlotsInv

\* daemon_limits_claim_slot.
LEMMA ClaimKeeps == SlotsKept(Claim)
<1> SUFFICES ASSUME SlotsInv, Claim PROVE SlotsInv'
  BY Zenon DEF SlotsKept
<1>1. PICK s \in Slots :
        /\ slot_state[s] = "FREE"
        /\ slot_state' = [slot_state EXCEPT ![s] = "CLAIMED"]
        /\ slot_pid' = [slot_pid EXCEPT ![s] = None]
        /\ slot_module' = [slot_module EXCEPT ![s] = None]
        /\ slot_host' = [slot_host EXCEPT ![s] = None]
        /\ g_current_slot' = s
  BY ZenonT(60) DEF Claim
<1>2. /\ listener = "claim" /\ listener' = "fork"
      /\ UNCHANGED <<max_connections, counters, g_active_connections, pid, signal, child, args, derived>>
  BY Zenon DEF Claim
<1>3. TypeOK'
  BY <1>1, <1>2, Zenon DEF SlotsInv, TypeOK, counters, signal
<1>4. Unreaped' = Unreaped /\ Occupied' = Occupied \cup {s} /\ s \notin Occupied
  BY <1>1, <1>2, Zenon DEF SlotsInv, TypeOK, Unreaped, Occupied
<1>5. \A p \in Unreaped : args[p] \in Args /\ args[p].slot # s
  BY <1>1, Zenon DEF SlotsInv, Owned
<1>6. Owned'
  <2>1. \A p \in Unreaped : slot_state'[args[p].slot] = slot_state[args[p].slot]
                            /\ slot_pid'[args[p].slot] = slot_pid[args[p].slot]
    BY <1>1, <1>5, Zenon DEF SlotsInv, TypeOK, Args
  <2>2. slot_pid'[s] = None /\ slot_state'[s] = "CLAIMED"
    BY <1>1, Zenon DEF SlotsInv, TypeOK
  <2>3. handler' = handler
    BY <1>2, Zenon DEF signal
  <2> QED
    BY <1>1, <1>2, <1>4, <1>5, <2>1, <2>2, <2>3 DEF SlotsInv, Owned
<1>7. Counting'
  <2>1. IsFiniteSet(Occupied) /\ Cardinality(Occupied) \in Nat /\ Cardinality(Unreaped) \in Nat
    BY Finite, Zenon DEF Occupied, Unreaped
  <2> QED
    BY <1>2, <1>4, <2>1, OneMore DEF SlotsInv, Counting
<1> QED BY <1>3, <1>6, <1>7, Zenon DEF SlotsInv

\* fork() in the listener.
LEMMA ForkKeeps == SlotsKept(Fork)
<1> SUFFICES ASSUME SlotsInv, Fork PROVE SlotsInv'
  BY Zenon DEF SlotsKept
<1>1. PICK p \in Pids, m \in Modules, h \in Hosts \cup {None} :
        /\ child[p] = "none"
        /\ child' = [child EXCEPT ![p] = "gate"]
        /\ args' = [args EXCEPT ![p] = [slot |-> g_current_slot, module |-> m, host |-> h]]
        /\ pid' = p
  BY ZenonT(60) DEF Fork
<1>2. /\ listener = "fork" /\ listener' = "forked" /\ handler = "idle"
      /\ UNCHANGED <<max_connections, table, counters, g_active_connections, g_current_slot, signal, derived>>
  BY Zenon DEF Fork
<1>3. /\ g_current_slot \in Slots /\ slot_pid[g_current_slot] = None
      /\ slot_state[g_current_slot] = "CLAIMED"
      /\ \A q \in Unreaped : args[q] \in Args /\ args[q].slot # g_current_slot
  BY <1>2, Zenon DEF SlotsInv, Owned
<1>4. TypeOK'
  BY <1>1, <1>2, <1>3 DEF SlotsInv, TypeOK, counters, signal, table
<1>5. Unreaped' = Unreaped \cup {p} /\ p \notin Unreaped /\ Occupied' = Occupied
  BY <1>1, <1>2, Zenon DEF SlotsInv, TypeOK, Unreaped, Occupied, table
<1>6. args'[p] \in Args /\ args'[p].slot = g_current_slot /\ child'[p] = "gate"
  BY <1>1, <1>3, Zenon DEF SlotsInv, TypeOK, Args
<1>7. \A q \in Unreaped : q # p /\ args'[q] = args[q] /\ child'[q] = child[q]
  BY <1>1, Zenon DEF SlotsInv, TypeOK, Unreaped
<1>8. Owned'
  <2>1. UNCHANGED <<slot_state, slot_pid, g_current_slot, handler>>
    BY <1>2, Zenon DEF table, signal
  <2>2. \A q \in Unreaped' :
         /\ args'[q] \in Args /\ slot_state'[args'[q].slot] # "FREE"
         /\ slot_pid'[args'[q].slot] = IF q = p THEN None ELSE q
         /\ child'[q] \in Registering => slot_state'[args'[q].slot] = "CLAIMED"
         /\ child'[q] = "host_full" => args'[q].host # None
    BY <1>2, <1>3, <1>5, <1>6, <1>7, <2>1 DEF SlotsInv, Owned
  <2>3. \A q, r \in Unreaped' : args'[q].slot = args'[r].slot => q = r
    BY <1>3, <1>5, <1>6, <1>7 DEF SlotsInv, Owned
  <2>4. \A s \in Occupied' : \E q \in Unreaped' : args'[q].slot = s
    BY <1>2, <1>5, <1>6, <1>7 DEF SlotsInv, Owned
  <2> QED
    BY <1>1, <1>2, <1>5, <1>6, <2>1, <2>2, <2>3, <2>4 DEF Owned
<1>9. Counting'
  <2>1. IsFiniteSet(Unreaped) /\ Cardinality(Occupied) \in Nat /\ Cardinality(Unreaped) \in Nat
    BY Finite, Zenon DEF Occupied, Unreaped
  <2>2. max_connections \in Nat /\ g_active_connections \in Nat
    BY DaemonAssumption, Zenon DEF SlotsInv, TypeOK
  <2> QED
    BY <1>2, <1>5, <2>1, <2>2, OneMore DEF SlotsInv, Counting
<1> QED BY <1>4, <1>8, <1>9, Zenon DEF SlotsInv

\* fork() failed, and fork() succeeded.
LEMMA ForkFailsKeeps == SlotsKept(ForkFails)
<1> SUFFICES ASSUME SlotsInv, ForkFails PROVE SlotsInv'
  BY Zenon DEF SlotsKept
<1> DEFINE s == g_current_slot
<1>1. /\ listener = "fork" /\ listener' = "accept"
      /\ slot_state' = [slot_state EXCEPT ![s] = "FREE"]
      /\ slot_pid' = [slot_pid EXCEPT ![s] = None]
      /\ UNCHANGED <<max_connections, slot_module, slot_host, counters, g_active_connections,
                     g_current_slot, pid, signal, child, args, derived>>
  BY Zenon DEF ForkFails
<1>2. /\ s \in Slots /\ slot_state[s] = "CLAIMED"
      /\ \A p \in Unreaped : args[p] \in Args /\ args[p].slot # s
  BY <1>1, Zenon DEF SlotsInv, Owned
<1> HIDE DEF s
<1>3. TypeOK'
  BY <1>1, <1>2, Zenon DEF SlotsInv, TypeOK, counters, signal
<1>4. Unreaped' = Unreaped /\ Occupied' = Occupied \ {s} /\ s \in Occupied
  BY <1>1, <1>2, Zenon DEF SlotsInv, TypeOK, Unreaped, Occupied
<1>5. Owned'
  <2>1. \A p \in Unreaped : slot_state'[args[p].slot] = slot_state[args[p].slot]
                            /\ slot_pid'[args[p].slot] = slot_pid[args[p].slot]
    BY <1>1, <1>2, Zenon DEF SlotsInv, TypeOK, Args
  <2>2. handler' = handler
    BY <1>1, Zenon DEF signal
  <2> QED
    BY <1>1, <1>2, <1>4, <2>1, <2>2 DEF SlotsInv, Owned, s
<1>6. Counting'
  <2>1. IsFiniteSet(Occupied) /\ Cardinality(Occupied) \in Nat /\ Cardinality(Unreaped) \in Nat
    BY Finite, Zenon DEF Occupied, Unreaped
  <2> QED
    BY <1>1, <1>4, <2>1, OneLess DEF SlotsInv, Counting
<1> QED BY <1>3, <1>5, <1>6, Zenon DEF SlotsInv

(* The parent notes the child in its slot. *)
LEMMA ForkedKeeps == SlotsKept(Forked)
<1> SUFFICES ASSUME SlotsInv, Forked PROVE SlotsInv'
  BY Zenon DEF SlotsKept
<1>1. /\ listener = "forked" /\ listener' = "accept" /\ handler = "idle"
      /\ slot_pid' = [slot_pid EXCEPT ![g_current_slot] = pid]
      /\ g_active_connections' = g_active_connections + 1
      /\ UNCHANGED <<max_connections, slot_state, slot_module, slot_host, counters, g_current_slot,
                     pid, signal, child, args, derived>>
  BY Zenon DEF Forked
<1>2. /\ pid \in Unreaped /\ args[pid] \in Args /\ args[pid].slot = g_current_slot
      /\ \A p \in Unreaped : args[p] \in Args /\ (args[p].slot = g_current_slot => p = pid)
  BY <1>1 DEF SlotsInv, Owned
<1>3. TypeOK'
  BY <1>1, <1>2 DEF SlotsInv, TypeOK, counters, signal, Args, Unreaped
<1>4. Unreaped' = Unreaped /\ Occupied' = Occupied
  BY <1>1, Zenon DEF Unreaped, Occupied
<1>5. Owned'
  <2>1. \A p \in Unreaped : slot_pid'[args[p].slot] = p
    BY <1>1, <1>2, Zenon DEF SlotsInv, Owned, TypeOK, Args
  <2>2. handler' = handler
    BY <1>1, Zenon DEF signal
  <2> QED
    BY <1>1, <1>4, <2>1, <2>2 DEF SlotsInv, Owned
<1>6. Counting'
  <2>1. max_connections \in Nat /\ g_active_connections \in Nat
    BY DaemonAssumption, Zenon DEF SlotsInv, TypeOK
  <2> QED
    BY <1>1, <1>4, <2>1 DEF SlotsInv, Counting
<1> QED BY <1>3, <1>5, <1>6, Zenon DEF SlotsInv

\* waitpid returned a child: its slot, and no other, is freed.
LEMMA ReapFrees ==
  ASSUME SlotsInv, handler = "reap", NEW p \in Pids, child[p] = "zombie"
  PROVE  /\ args[p] \in Args /\ p \in Unreaped /\ args[p].slot \in Occupied
         /\ {s \in Slots : slot_state[s] # "FREE" /\ slot_pid[s] = p} = {args[p].slot}
<1>1. p \in Unreaped /\ listener # "forked"
  BY Zenon DEF SlotsInv, Owned, Unreaped
<1>2. \A q \in Unreaped : args[q] \in Args /\ slot_state[args[q].slot] # "FREE" /\ slot_pid[args[q].slot] = q
  BY <1>1, Zenon DEF SlotsInv, Owned
<1>3. ASSUME NEW s \in Slots, slot_state[s] # "FREE", slot_pid[s] = p
      PROVE  s = args[p].slot
  <2>1. CASE \E q \in Unreaped : args[q].slot = s
    BY <1>2, <1>3, <2>1, Zenon
  <2>2. CASE listener = "fork" /\ s = g_current_slot
    BY <1>3, <2>2, DaemonAssumption, Zenon DEF SlotsInv, Owned
  <2> QED BY <1>3, <2>1, <2>2, Zenon DEF SlotsInv, Owned, Occupied
<1> QED BY <1>1, <1>2, <1>3, Zenon DEF Args, Occupied

(* Reaping a child frees its slot. *)
LEMMA ReapKeeps == SlotsKept(Reap)
<1> SUFFICES ASSUME SlotsInv, Reap PROVE SlotsInv'
  BY Zenon DEF SlotsKept
<1>1. PICK p \in Pids :
        /\ child[p] = "zombie"
        /\ child' = [child EXCEPT ![p] = "none"]
        /\ args' = [args EXCEPT ![p] = None]
        /\ LET owned == {s \in Slots : slot_state[s] # "FREE" /\ slot_pid[s] = p}
           IN  /\ slot_state' = [s \in Slots |-> IF s \in owned THEN "FREE" ELSE slot_state[s]]
               /\ slot_pid' = [s \in Slots |-> IF s \in owned THEN None ELSE slot_pid[s]]
  BY ZenonT(60) DEF Reap
<1> DEFINE t == args[p].slot
<1>2. /\ handler = "reap"
      /\ g_active_connections' = IF g_active_connections > 0 THEN g_active_connections - 1 ELSE 0
      /\ UNCHANGED <<max_connections, slot_module, slot_host, counters, listener, g_current_slot,
                     pid, signal, derived>>
  BY Zenon DEF Reap
<1>3. args[p] \in Args /\ p \in Unreaped /\ t \in Occupied
  BY <1>1, <1>2, ReapFrees, Zenon
<1>4. /\ slot_state' = [s \in Slots |-> IF s \in {t} THEN "FREE" ELSE slot_state[s]]
      /\ slot_pid' = [s \in Slots |-> IF s \in {t} THEN None ELSE slot_pid[s]]
  BY <1>1, <1>2, ReapFrees, ZenonT(60)
<1>5. TypeOK'
  BY <1>1, <1>2, <1>4 DEF SlotsInv, TypeOK, counters, signal
<1>6. Unreaped' = Unreaped \ {p} /\ Occupied' = Occupied \ {t}
  BY <1>1, <1>4 DEF SlotsInv, TypeOK, Unreaped, Occupied
<1>7. \A q \in Unreaped' :
        /\ q \in Unreaped /\ args'[q] = args[q] /\ child'[q] = child[q]
        /\ args[q] \in Args /\ args[q].slot # t
        /\ slot_state'[args[q].slot] = slot_state[args[q].slot]
        /\ slot_pid'[args[q].slot] = slot_pid[args[q].slot]
  <2>1. \A q \in Unreaped' : q \in Unreaped /\ q # p
    BY <1>6, Zenon
  <2>2. \A q \in Unreaped' : args[q] \in Args /\ args[q].slot # t
    BY <1>3, <2>1, Zenon DEF SlotsInv, Owned
  <2> QED BY <1>1, <1>4, <2>1, <2>2 DEF SlotsInv, TypeOK, Unreaped, Args
<1>8. Owned'
  <2>1. listener # "forked" /\ handler' = "reap"
    BY <1>2, Zenon DEF SlotsInv, Owned, signal
  <2>2. \A s \in Occupied' : (\E q \in Unreaped' : args'[q].slot = s) \/ (listener' = "fork" /\ s = g_current_slot')
    BY <1>2, <1>6, <1>7 DEF SlotsInv, Owned
  <2>3. listener = "fork" => t # g_current_slot
    BY <1>3, Zenon DEF SlotsInv, Owned
  <2>4. listener = "fork" => /\ slot_pid'[g_current_slot] = None /\ slot_state'[g_current_slot] = "CLAIMED"
                             /\ \A q \in Unreaped' : args'[q].slot # g_current_slot
    BY <1>4, <1>7, <2>3, Zenon DEF SlotsInv, Owned
  <2> QED
    BY <1>2, <1>7, <2>1, <2>2, <2>4 DEF SlotsInv, Owned
<1>9. Counting'
  <2>1. /\ IsFiniteSet(Unreaped) /\ IsFiniteSet(Occupied)
        /\ Cardinality(Occupied) \in Nat /\ Cardinality(Unreaped) \in Nat
    BY Finite, Zenon DEF Occupied, Unreaped
  <2>2. Cardinality(Unreaped') = Cardinality(Unreaped) - 1 /\ Cardinality(Occupied') = Cardinality(Occupied) - 1
    BY <1>3, <1>6, <2>1, OneLess, Zenon
  <2>3. Cardinality(Unreaped') \in Nat
    BY Finite, Zenon DEF Unreaped
  <2>4. max_connections \in Nat /\ g_active_connections \in Nat /\ listener # "forked"
    BY <1>2, DaemonAssumption, Zenon DEF SlotsInv, TypeOK, Owned
  <2> QED
    BY <1>2, <2>1, <2>2, <2>3, <2>4 DEF SlotsInv, Counting
<1> QED BY <1>5, <1>8, <1>9, Zenon DEF SlotsInv

\* The rest of the handler, which leaves the slots alone.
LEMMA HandlerKeeps == SlotsKept(HandlerEnter \/ ZeroModules \/ ZeroHosts \/ Scan)
<1> SUFFICES ASSUME SlotsInv, HandlerEnter \/ ZeroModules \/ ZeroHosts \/ Scan PROVE SlotsInv'
  BY Zenon DEF SlotsKept
<1>1. /\ UNCHANGED <<max_connections, table, parent, child, args>>
      /\ handler' # "idle" => handler # "idle" \/ listener # "forked"
  BY Zenon DEF HandlerEnter, ZeroModules, ZeroHosts, Scan, Blocked
<1>2. TypeOK'
  <2>1. CASE HandlerEnter
    <3>1. sigchld' \in BOOLEAN
      BY <2>1, ZenonT(60) DEF HandlerEnter
    <3> QED BY <1>1, <2>1, <3>1, Zenon DEF HandlerEnter, SlotsInv, TypeOK, table, parent, counters
  <2>2. CASE ZeroModules
    BY <1>1, <2>2 DEF ZeroModules, Zeroed, SlotsInv, TypeOK, table, parent
  <2>3. CASE ZeroHosts
    BY <1>1, <2>3 DEF ZeroHosts, Zeroed, ScanRange, SlotsInv, TypeOK, table, parent
  <2>4. CASE Scan
    <3>1. /\ unscanned' \subseteq Slots /\ handler' \in {"idle", "scan"}
          /\ module_active' \in [Modules -> Int] /\ host_active' \in [Hosts -> Int]
      <4>1. PICK s \in unscanned :
              /\ unscanned' = unscanned \ {s}
              /\ module_active' = [m \in Modules |-> module_active[m] +
                                      IF Counted(s) /\ slot_module[s] = m THEN 1 ELSE 0]
              /\ host_active' = [h \in Hosts |-> host_active[h] +
                                    IF Counted(s) /\ slot_host[s] = h THEN 1 ELSE 0]
              /\ handler' = IF unscanned = {s} THEN "idle" ELSE "scan"
        BY <2>4, Zenon DEF Scan
      <4>2. module_active \in [Modules -> Int] /\ host_active \in [Hosts -> Int] /\ unscanned \subseteq Slots
        BY Zenon DEF SlotsInv, TypeOK
      <4>3. unscanned' \subseteq Slots /\ handler' \in {"idle", "scan"}
        BY <4>1, <4>2, Zenon
      <4>4. module_active' \in [Modules -> Int]
        BY <4>1, <4>2
      <4>5. host_active' \in [Hosts -> Int]
        BY <4>1, <4>2
      <4> QED BY <4>3, <4>4, <4>5, Zenon
    <3>2. UNCHANGED <<sigchld, derived>>
      BY <2>4, Zenon DEF Scan
    <3> QED BY <1>1, <3>1, <3>2, Zenon DEF SlotsInv, TypeOK, table, parent
  <2> QED BY <2>1, <2>2, <2>3, <2>4, Zenon
<1>3. Unreaped' = Unreaped /\ Occupied' = Occupied
  BY <1>1, Zenon DEF Unreaped, Occupied, table
<1>4. Owned'
  BY <1>1, <1>3, Zenon DEF SlotsInv, Owned, table, parent
<1>5. Counting'
  BY <1>1, <1>3, Zenon DEF SlotsInv, Counting, parent
<1> QED BY <1>2, <1>4, <1>5, Zenon DEF SlotsInv

(* Every step keeps the slots. *)
LEMMA SlotsStep == SlotsInv /\ [Next]_vars => SlotsInv'
<1> QED
  BY StutterKeeps, LoopKeeps, ClaimKeeps, ForkKeeps, ForkFailsKeeps, ForkedKeeps, ReapKeeps, HandlerKeeps,
     ChildKeeps, Zenon DEF SlotsKept, Next, Listener, Handler

\* At accept() the invariant is the property.
LEMMA SlotsFollow == SlotsInv => SlotsFollowChildren
<1> SUFFICES ASSUME SlotsInv, listener = "accept"
             PROVE  /\ g_active_connections = Cardinality(Unreaped)
                    /\ Cardinality(Unreaped) <= max_connections
                    /\ Cardinality(Occupied) = Cardinality(Unreaped)
                    /\ \A p \in Unreaped : slot_pid[args[p].slot] = p /\ args[p].slot \in Occupied
  BY Zenon DEF SlotsFollowChildren
<1>1. g_active_connections \in Nat /\ Cardinality(Unreaped) \in Nat
  BY Finite, Zenon DEF SlotsInv, TypeOK, Unreaped
<1>2. \A p \in Unreaped : slot_pid[args[p].slot] = p /\ args[p].slot \in Occupied
  BY Zenon DEF SlotsInv, Owned, Occupied, Args
<1> QED BY <1>1, <1>2 DEF SlotsInv, Counting

\* No slot and no count leaks: back at accept(), each child not yet reaped has
\* one occupied slot with its pid, and g_active_connections counts the children
\* (sigchld_handler, daemon_limits_claim_slot, daemon_limits_reclaim_pid).
THEOREM SlotsAreExact == Spec => []SlotsFollowChildren
<1> QED BY SlotsInit, SlotsStep, SlotsFollow, PTL DEF Spec

---------------------------------------------------------------------------
(* The counters of the modules and of the sources.                         *)

\* The children of a module, or of a source, that its counter counts besides the
\* REGISTERED slots, and those of them that have passed the cap.
PendingModule(m) == {p \in Pids : child[p] \in MidRegistration /\ args[p].module = m}
AdmittedModule(m) == {p \in PendingModule(m) : child[p] # "module_full"}
PendingHost(h) == {p \in Pids : child[p] \in {"host_full", "publish"} /\ args[p].host = h}
AdmittedHost(h) == {p \in PendingHost(h) : child[p] = "publish"}

\* A counter that no recompute is rebuilding covers the slots and the children
\* it counts, exactly unless a child has died since; a recompute has counted the
\* slots it has read; what is registered or admitted is within the cap.
Tally(at, overlap, unread, dead, count, registered, pending, admitted, cap) ==
    /\ overlap # "raced" =>
         /\ at = "scan" => count = Cardinality(registered \ unread)
         /\ at \in {"idle", "reap"} => count >= Cardinality(registered) + Cardinality(pending)
         /\ at = "idle" /\ dead = {} => count = Cardinality(registered) + Cardinality(pending)
    /\ overlap = "clean" /\ cap > 0 => Cardinality(registered) + Cardinality(admitted) <= cap

Zombies == {p \in Pids : child[p] = "zombie"}

ModuleTally(m) ==
    /\ Tally(handler, derived, unscanned, Zombies, module_active[m],
             RegisteredModule(m), PendingModule(m), AdmittedModule(m), ModuleCap)
    /\ derived # "raced" /\ handler = "zero" => module_active[m] = 0
HostTally(h) ==
    Tally(handler, derived, unscanned, Zombies, host_active[h],
          RegisteredHost(h), PendingHost(h), AdmittedHost(h), HostCap)

CountersInv ==
    /\ derived # "raced" /\ InRecompute => \A p \in Pids : child[p] \notin MidRegistration
    /\ \A m \in Modules : ModuleTally(m)
    /\ \A h \in Hosts : HostTally(h)

---------------------------------------------------------------------------
(* A counter and the sets it stands for, over one step. *)

\* After an overlap nothing is said of the counters.
LEMMA TallyRaced ==
  ASSUME NEW at, NEW un, NEW dead, NEW c, NEW R, NEW P, NEW A, NEW cap
  PROVE  Tally(at, "raced", un, dead, c, R, P, A, cap)
  BY Zenon DEF Tally

\* The handler is entered.
LEMMA TallyEnter ==
  ASSUME NEW d, NEW un, NEW dead, NEW c, NEW R, NEW P, NEW A, NEW cap,
         Tally("idle", d, un, dead, c, R, P, A, cap)
  PROVE  Tally("reap", d, un, dead, c, R, P, A, cap)
  BY Zenon DEF Tally

\* Nothing is added and the counter stays; the handler may be entered.
LEMMA TallyShrinks ==
  ASSUME NEW at, NEW at2, NEW d, NEW un, NEW dead, NEW dead2, NEW c \in Int, NEW cap \in Nat,
         NEW R \in SUBSET Slots, NEW P \in SUBSET Pids, NEW A \in SUBSET Pids,
         NEW R2 \in SUBSET R, NEW P2 \in SUBSET P, NEW A2 \in SUBSET A,
         at2 = at \/ (at2 = "reap" /\ at = "idle"), at = "scan" => R2 = R,
         at2 = "idle" => dead2 # {} \/ (dead = {} /\ R2 = R /\ P2 = P),
         Tally(at, d, un, dead, c, R, P, A, cap)
  PROVE  Tally(at2, d, un, dead2, c, R2, P2, A2, cap)
<1>1. /\ Cardinality(R2) <= Cardinality(R) /\ Cardinality(P2) <= Cardinality(P)
      /\ Cardinality(A2) <= Cardinality(A)
  BY FS_Subset, Finite, Zenon
<1>2. /\ Cardinality(R) \in Nat /\ Cardinality(P) \in Nat /\ Cardinality(A) \in Nat
      /\ Cardinality(R2) \in Nat /\ Cardinality(P2) \in Nat /\ Cardinality(A2) \in Nat
  BY Finite, Zenon
<1>3. d = "clean" /\ cap > 0 => Cardinality(R2) + Cardinality(A2) <= cap
  BY <1>1, <1>2 DEF Tally
<1>4. at2 \in {"idle", "reap"} /\ d # "raced" => c >= Cardinality(R2) + Cardinality(P2)
  BY <1>1, <1>2 DEF Tally
<1>5. at2 = "idle" /\ dead2 = {} /\ d # "raced" => c = Cardinality(R2) + Cardinality(P2)
  BY Zenon DEF Tally
<1>6. at2 = "scan" /\ d # "raced" => c = Cardinality(R2 \ un)
  BY Zenon DEF Tally
<1> QED BY <1>3, <1>4, <1>5, <1>6, Zenon DEF Tally

\* A child adds itself to the counter; admitted, it found the counter below the cap.
LEMMA TallyUp ==
  ASSUME NEW at, at \in {"idle", "reap"}, NEW d, NEW un, NEW dead, NEW c \in Int, NEW cap \in Nat,
         NEW R \in SUBSET Slots, NEW P \in SUBSET Pids, NEW A \in SUBSET P, NEW A2,
         NEW p \in Pids \ P,
         A2 = A \/ (A2 = A \cup {p} /\ ~OverCap(c + 1, cap)),
         Tally(at, d, un, dead, c, R, P, A, cap)
  PROVE  Tally(at, d, un, dead, c + 1, R, P \cup {p}, A2, cap)
<1>1. A \in SUBSET Pids /\ p \notin A
  BY Zenon
<1>2. Cardinality(P \cup {p}) = Cardinality(P) + 1 /\ Cardinality(A \cup {p}) = Cardinality(A) + 1
  BY <1>1, OneMore, Finite, Zenon
<1>3. Cardinality(R) \in Nat /\ Cardinality(P) \in Nat /\ Cardinality(A) \in Nat
  BY <1>1, Finite, Zenon
<1>4. Cardinality(A) <= Cardinality(P)
  BY FS_Subset, Finite, Zenon
<1>5. CASE A2 = A
  BY <1>2, <1>3, <1>5 DEF Tally
<1>6. CASE A2 = A \cup {p} /\ ~OverCap(c + 1, cap)
  <2>1. Cardinality(A2) = Cardinality(A) + 1
    BY <1>2, <1>6, Zenon
  <2>2. CASE d = "raced"
    BY <2>2, TallyRaced, Zenon
  <2>3. CASE d # "raced"
    <3>1. c >= Cardinality(R) + Cardinality(P)
      BY <2>3, Zenon DEF Tally
    <3> QED BY <1>2, <1>3, <1>4, <1>6, <2>1, <2>3, <3>1 DEF Tally, OverCap
  <2> QED BY <2>2, <2>3, Zenon
<1> QED BY <1>5, <1>6, Zenon

\* A child takes its increment back.
LEMMA TallyDown ==
  ASSUME NEW at, at \in {"idle", "reap"}, NEW d, NEW un, NEW dead, NEW c \in Int, NEW cap \in Nat,
         NEW R \in SUBSET Slots, NEW P \in SUBSET Pids, NEW A, NEW p \in P,
         Tally(at, d, un, dead, c, R, P, A, cap)
  PROVE  Tally(at, d, un, dead, c - 1, R, P \ {p}, A, cap)
<1>1. Cardinality(P \ {p}) = Cardinality(P) - 1
  BY OneLess, Finite, Zenon
<1>2. Cardinality(R) \in Nat /\ Cardinality(P) \in Nat
  BY Finite, Zenon
<1> QED BY <1>1, <1>2 DEF Tally

\* A child that was counted becomes a slot that is counted.
LEMMA TallyPublish ==
  ASSUME NEW at, at \in {"idle", "reap"}, NEW d, NEW un, NEW dead, NEW c \in Int, NEW cap \in Nat,
         NEW R \in SUBSET Slots, NEW P \in SUBSET Pids, NEW A \in SUBSET P, NEW p \in A,
         NEW s \in Slots \ R,
         Tally(at, d, un, dead, c, R, P, A, cap)
  PROVE  Tally(at, d, un, dead, c, R \cup {s}, P \ {p}, A \ {p}, cap)
<1>1. A \in SUBSET Pids /\ p \in P
  BY Zenon
<1>2. /\ Cardinality(P \ {p}) = Cardinality(P) - 1 /\ Cardinality(A \ {p}) = Cardinality(A) - 1
      /\ Cardinality(R \cup {s}) = Cardinality(R) + 1
  BY <1>1, OneLess, OneMore, Finite, Zenon
<1>3. Cardinality(R) \in Nat /\ Cardinality(P) \in Nat /\ Cardinality(A) \in Nat
  BY <1>1, Finite, Zenon
<1> QED BY <1>2, <1>3 DEF Tally

\* The same for the counter of a module.
LEMMA ModulePublish ==
  ASSUME NEW m, NEW p, NEW s,
         s \in Slots \ RegisteredModule(m),
         Tally(handler, derived, unscanned, Zombies, module_active[m], RegisteredModule(m),
               PendingModule(m), AdmittedModule(m), ModuleCap),
         /\ RegisteredModule(m) \in SUBSET Slots /\ PendingModule(m) \in SUBSET Pids
         /\ AdmittedModule(m) \in SUBSET PendingModule(m) /\ p \in AdmittedModule(m)
         /\ module_active[m] \in Int /\ ModuleCap \in Nat /\ handler \in {"idle", "reap"}
  PROVE  Tally(handler, derived, unscanned, Zombies, module_active[m], RegisteredModule(m) \cup {s},
               PendingModule(m) \ {p}, AdmittedModule(m) \ {p}, ModuleCap)
BY TallyPublish

\* The same for the counter of a host.
LEMMA HostPublish ==
  ASSUME NEW h, NEW p, NEW s,
         s \in Slots \ RegisteredHost(h),
         Tally(handler, derived, unscanned, Zombies, host_active[h], RegisteredHost(h),
               PendingHost(h), AdmittedHost(h), HostCap),
         /\ RegisteredHost(h) \in SUBSET Slots /\ PendingHost(h) \in SUBSET Pids
         /\ AdmittedHost(h) \in SUBSET PendingHost(h) /\ p \in AdmittedHost(h)
         /\ host_active[h] \in Int /\ HostCap \in Nat /\ handler \in {"idle", "reap"}
  PROVE  Tally(handler, derived, unscanned, Zombies, host_active[h], RegisteredHost(h) \cup {s},
               PendingHost(h) \ {p}, AdmittedHost(h) \ {p}, HostCap)
BY TallyPublish

\* The recompute reads one slot; at the end the counter is the number of slots.
LEMMA TallyScan ==
  ASSUME NEW at, NEW d, NEW un \in SUBSET Slots, NEW dead, NEW c \in Int, NEW cap \in Nat,
         NEW R \in SUBSET Slots, NEW A, NEW s \in un,
         at = IF un = {s} THEN "idle" ELSE "scan",
         Tally("scan", d, un, dead, c, R, {}, A, cap)
  PROVE  Tally(at, d, un \ {s}, dead, c + IF s \in R THEN 1 ELSE 0, R, {}, A, cap)
<1>1. R \ (un \ {s}) = IF s \in R THEN (R \ un) \cup {s} ELSE R \ un
  BY Zenon
<1>2. s \notin R \ un /\ R \ un \in SUBSET Slots
  BY Zenon
<1>3. /\ Cardinality(R \ (un \ {s})) = Cardinality(R \ un) + IF s \in R THEN 1 ELSE 0
      /\ Cardinality(R \ un) \in Nat /\ Cardinality(R) \in Nat
  <2>1. IsFiniteSet(R \ un) /\ Cardinality(R \ un) \in Nat /\ Cardinality(R) \in Nat
    BY <1>2, Finite, Zenon
  <2>2. Cardinality((R \ un) \cup {s}) = Cardinality(R \ un) + 1
    BY <1>2, <2>1, OneMore, Zenon
  <2> QED BY <1>1, <2>1, <2>2
<1>4. un = {s} => R \ (un \ {s}) = R
  BY Zenon
<1>5. Cardinality({}) = 0
  BY FS_EmptySet, Zenon
<1> QED BY <1>3, <1>4, <1>5 DEF Tally

---------------------------------------------------------------------------
(* The counters. *)

\* The sets are of processes and of slots.
LEMMA Sets ==
  /\ \A m : /\ RegisteredModule(m) \in SUBSET Slots /\ PendingModule(m) \in SUBSET Pids
            /\ AdmittedModule(m) \in SUBSET PendingModule(m) /\ AdmittedModule(m) \in SUBSET Pids
  /\ \A h : /\ RegisteredHost(h) \in SUBSET Slots /\ PendingHost(h) \in SUBSET Pids
            /\ AdmittedHost(h) \in SUBSET PendingHost(h) /\ AdmittedHost(h) \in SUBSET Pids
  BY Zenon DEF RegisteredModule, PendingModule, AdmittedModule, RegisteredHost, PendingHost, AdmittedHost

(* The invariant of the initial state. *)
LEMMA CountersInit == Init => CountersInv
<1> SUFFICES ASSUME Init PROVE CountersInv
  BY Zenon
<1>1. \A m : RegisteredModule(m) = {} /\ PendingModule(m) = {} /\ AdmittedModule(m) = {}
  BY Zenon DEF Init, RegisteredModule, PendingModule, AdmittedModule, MidRegistration
<1>2. \A h : RegisteredHost(h) = {} /\ PendingHost(h) = {} /\ AdmittedHost(h) = {}
  BY Zenon DEF Init, RegisteredHost, PendingHost, AdmittedHost
<1>3. handler = "idle" /\ derived = "clean"
  BY Zenon DEF Init
<1>4. \A cap \in Nat : Tally(handler, derived, unscanned, Zombies, 0, {}, {}, {}, cap)
  BY <1>3, FS_EmptySet DEF Tally
<1>5. \A m \in Modules : ModuleTally(m)
  BY <1>1, <1>3, <1>4, DaemonAssumption, Zenon DEF ModuleTally, Init
<1>6. \A h \in Hosts : HostTally(h)
  BY <1>2, <1>4, DaemonAssumption, Zenon DEF HostTally, Init
<1> QED BY <1>3, <1>5, <1>6, Zenon DEF CountersInv, InRecompute

\* The sets of the modules, and of the sources, that a step leaves as they are,
\* with their counters.
ModulesStill == \A m \in Modules :
    /\ RegisteredModule(m)' = RegisteredModule(m) /\ PendingModule(m)' = PendingModule(m)
    /\ AdmittedModule(m)' = AdmittedModule(m) /\ module_active'[m] = module_active[m]
HostsStill == \A h \in Hosts :
    /\ RegisteredHost(h)' = RegisteredHost(h) /\ PendingHost(h)' = PendingHost(h)
    /\ AdmittedHost(h)' = AdmittedHost(h) /\ host_active'[h] = host_active[h]

\* The accept loop neither registers nor counts; nor does a stuttering step.
LEMMA ListenerStill ==
  ASSUME SlotsInv, Listener \/ UNCHANGED vars
  PROVE  /\ ModulesStill /\ HostsStill
         /\ UNCHANGED <<handler, derived, unscanned, module_active, host_active>>
         /\ \A p \in Pids : \/ child'[p] = child[p] /\ args'[p] = args[p]
                            \/ child[p] = "none" /\ child'[p] = "gate"
<1>1. /\ UNCHANGED <<handler, derived, unscanned, module_active, host_active>>
      /\ \A p \in Pids : \/ child'[p] = child[p] /\ args'[p] = args[p]
                         \/ child[p] = "none" /\ child'[p] = "gate"
  <2>1. CASE Fork
    BY <2>1, Zenon DEF Fork, counters, signal, SlotsInv, TypeOK
  <2>2. CASE ~Fork
    BY <2>2, Zenon DEF Listener, Refuse, Accept, Claim, ClaimFails, ForkFails, Forked, vars, counters, signal
  <2> QED BY <2>1, <2>2, Zenon
<1>2. \A s \in Slots :
        \/ UNCHANGED <<slot_state[s], slot_module[s], slot_host[s]>>
        \/ slot_state[s] # "REGISTERED" /\ slot_state'[s] # "REGISTERED"
  <2>1. CASE Claim
    BY <2>1, Zenon DEF Claim, SlotsInv, TypeOK
  <2>2. CASE ForkFails
    BY <2>2, Zenon DEF ForkFails, SlotsInv, TypeOK, Owned
  <2>3. CASE ~Claim /\ ~ForkFails
    <3>1. UNCHANGED <<slot_state, slot_module, slot_host>>
      BY <2>3, Zenon DEF Listener, Refuse, Accept, ClaimFails, Fork, Forked, vars, table
    <3> QED BY <3>1, Zenon
  <2> QED BY <2>1, <2>2, <2>3, Zenon
<1>3. ModulesStill
  BY <1>1, <1>2, Zenon DEF ModulesStill, RegisteredModule, PendingModule, AdmittedModule, MidRegistration
<1>4. HostsStill
  BY <1>1, <1>2, Zenon DEF HostsStill, RegisteredHost, PendingHost, AdmittedHost
<1> QED BY <1>1, <1>3, <1>4, Zenon

\* Where the sets and the counter stay, so does what is said of them.
LEMMA ModulesStillKeep ==
  ASSUME SlotsInv, CountersInv, ModulesStill, derived' = derived, unscanned' = unscanned, Zombies' = Zombies,
         handler' = handler \/ (handler' = "reap" /\ handler = "idle")
  PROVE  \A m \in Modules : ModuleTally(m)'
<1> SUFFICES ASSUME NEW m \in Modules PROVE ModuleTally(m)'
  BY Zenon
<1>1. module_active[m] \in Int /\ ModuleTally(m)
  BY Zenon DEF SlotsInv, TypeOK, CountersInv
<1>2. Tally(handler, derived, unscanned, Zombies, module_active[m], RegisteredModule(m),
            PendingModule(m), AdmittedModule(m), ModuleCap)
  BY <1>1, Zenon DEF ModuleTally
<1>3. Tally(handler', derived, unscanned, Zombies, module_active[m], RegisteredModule(m),
            PendingModule(m), AdmittedModule(m), ModuleCap)
  <2>1. CASE handler' = handler
    BY <1>2, <2>1, Zenon
  <2>2. CASE handler' = "reap" /\ handler = "idle"
    BY <1>2, <2>2, TallyEnter, Zenon
  <2> QED BY <2>1, <2>2, Zenon
<1> QED BY <1>1, <1>3, Zenon DEF ModuleTally, ModulesStill
(* The same for the host counters. *)
LEMMA HostsStillKeep ==
  ASSUME SlotsInv, CountersInv, HostsStill, derived' = derived, unscanned' = unscanned, Zombies' = Zombies,
         handler' = handler \/ (handler' = "reap" /\ handler = "idle")
  PROVE  \A h \in Hosts : HostTally(h)'
<1> SUFFICES ASSUME NEW h \in Hosts PROVE HostTally(h)'
  BY Zenon
<1>1. host_active[h] \in Int /\ HostTally(h)
  BY Zenon DEF SlotsInv, TypeOK, CountersInv
<1>2. Tally(handler, derived, unscanned, Zombies, host_active[h], RegisteredHost(h),
            PendingHost(h), AdmittedHost(h), HostCap)
  BY <1>1, Zenon DEF HostTally
<1>3. Tally(handler', derived, unscanned, Zombies, host_active[h], RegisteredHost(h),
            PendingHost(h), AdmittedHost(h), HostCap)
  <2>1. CASE handler' = handler
    BY <1>2, <2>1, Zenon
  <2>2. CASE handler' = "reap" /\ handler = "idle"
    BY <1>2, <2>2, TallyEnter, Zenon
  <2> QED BY <2>1, <2>2, Zenon
<1> QED BY <1>1, <1>3, Zenon DEF HostTally, HostsStill

\* The step A keeps the invariant of the counters.
CountersKept(A) == SlotsInv /\ CountersInv /\ A => CountersInv'

\* A child that has raised a counter while no recompute overlaps it is in none.
LEMMA Apart ==
  ASSUME SlotsInv, CountersInv, NEW p \in Pids, child[p] \in MidRegistration, derived # "raced"
  PROVE  handler \in {"idle", "reap"}
  BY Zenon DEF SlotsInv, TypeOK, CountersInv, InRecompute

\* fetch_add on the module's counter.
LEMMA RegisterModuleKeeps == ASSUME NEW p \in Pids PROVE CountersKept(RegisterModule(p))
<1> SUFFICES ASSUME SlotsInv, CountersInv, RegisterModule(p) PROVE CountersInv'
  BY Zenon DEF CountersKept
<1> DEFINE m0 == args[p].module
           over == OverCap(module_active[m0] + 1, ModuleCap)
<1>1. /\ p \in Unreaped /\ args[p] \in Args /\ m0 \in Modules
      /\ child \in [Pids -> MidRegistration \cup {"none", "gate", "refused", "registered", "zombie"}]
      /\ module_active \in [Modules -> Int] /\ handler \in {"idle", "reap", "zero", "scan"}
  BY Zenon DEF RegisterModule, Step, SlotsInv, Owned, TypeOK, Unreaped, Args
<1>2. /\ child[p] = "gate" /\ child' = [child EXCEPT ![p] = IF over THEN "module_full" ELSE "host"]
      /\ module_active' = [module_active EXCEPT ![m0] = module_active[m0] + 1]
      /\ derived' = IF InRecompute THEN "raced" ELSE derived
      /\ UNCHANGED <<slot_state, slot_module, slot_host, host_active, handler, unscanned, args>>
  BY Zenon DEF RegisterModule, Step, table, signal
<1> HIDE DEF over
<1>3. Zombies' = Zombies
  BY <1>1, <1>2, Zenon DEF Zombies
<1>4. \A q \in Pids \ {p} : child'[q] = child[q]
  BY <1>1, <1>2, Zenon
<1>5. child'[p] = IF over THEN "module_full" ELSE "host"
  BY <1>1, <1>2, Zenon
<1>6. CASE InRecompute
  <2>1. derived' = "raced"
    BY <1>2, <1>6, Zenon
  <2> QED BY <2>1, TallyRaced, Zenon DEF CountersInv, ModuleTally, HostTally
<1>7. CASE ~InRecompute
  <2>1. derived' = derived /\ ~InRecompute' /\ handler \in {"idle", "reap"}
    BY <1>1, <1>2, <1>7, Zenon DEF InRecompute
  <2>2. HostsStill
    BY <1>1, <1>2, <1>4, <1>5, Zenon DEF HostsStill, RegisteredHost, PendingHost, AdmittedHost
  <2>3. ASSUME NEW m \in Modules PROVE ModuleTally(m)'
    <3>1. RegisteredModule(m)' = RegisteredModule(m)
      BY <1>2, Zenon DEF RegisteredModule
    <3>2. ModuleTally(m) /\ module_active[m] \in Int
      BY <1>1, Zenon DEF CountersInv
    <3>3. CASE m = m0
      <4>1. p \notin PendingModule(m) /\ PendingModule(m)' = PendingModule(m) \cup {p}
        BY <1>1, <1>2, <1>4, <1>5, <3>3, Zenon DEF PendingModule, MidRegistration
      <4>2. \/ AdmittedModule(m)' = AdmittedModule(m)
            \/ AdmittedModule(m)' = AdmittedModule(m) \cup {p} /\ ~over
        BY <1>2, <1>4, <1>5, <4>1 DEF AdmittedModule
      <4>3. module_active'[m] = module_active[m] + 1
        BY <1>1, <1>2, <3>3, Zenon
      <4>4. Tally(handler, derived, unscanned, Zombies, module_active[m] + 1, RegisteredModule(m),
                  PendingModule(m) \cup {p}, AdmittedModule(m)', ModuleCap)
        <5>1. Tally(handler, derived, unscanned, Zombies, module_active[m], RegisteredModule(m),
                    PendingModule(m), AdmittedModule(m), ModuleCap)
          BY <3>2, Zenon DEF ModuleTally
        <5>2. /\ RegisteredModule(m) \in SUBSET Slots /\ PendingModule(m) \in SUBSET Pids
              /\ AdmittedModule(m) \in SUBSET PendingModule(m)
              /\ module_active[m] \in Int /\ ModuleCap \in Nat /\ handler \in {"idle", "reap"}
          BY <2>1, <3>2, Sets, DaemonAssumption, Zenon
        <5>3. p \in Pids \ PendingModule(m)
          BY <4>1, Zenon
        <5>4. \/ AdmittedModule(m)' = AdmittedModule(m)
              \/ AdmittedModule(m)' = AdmittedModule(m) \cup {p} /\ ~OverCap(module_active[m] + 1, ModuleCap)
          BY <3>3, <4>2, Zenon DEF over
        <5> QED BY <5>1, <5>2, <5>3, <5>4, TallyUp
      <4> QED BY <1>2, <1>3, <2>1, <3>1, <4>1, <4>3, <4>4, Zenon DEF ModuleTally, InRecompute
    <3>4. CASE m # m0
      <4>1. PendingModule(m)' = PendingModule(m)
        BY <1>2, <1>4, <1>5, <3>4, Zenon DEF PendingModule, MidRegistration
      <4>2. AdmittedModule(m)' = AdmittedModule(m) 
        BY <1>2, <1>4, <1>5, <3>4, <4>1, Zenon DEF AdmittedModule, PendingModule
      <4>3. module_active'[m] = module_active[m]
        BY <1>1, <1>2, <3>4, Zenon
      <4> QED BY <1>2, <1>3, <2>1, <3>1, <3>2, <4>1, <4>2, <4>3, Zenon DEF ModuleTally
    <3> QED BY <3>3, <3>4, Zenon
  <2>4. \A h \in Hosts : HostTally(h)'
    BY <1>2, <1>3, <2>1, <2>2, HostsStillKeep, Zenon
  <2> QED BY <2>1, <2>3, <2>4, Zenon DEF CountersInv
<1> QED BY <1>6, <1>7, Zenon

\* The increment is taken back.
LEMMA ModuleFullKeeps == ASSUME NEW p \in Pids PROVE CountersKept(ModuleFull(p))
<1> SUFFICES ASSUME SlotsInv, CountersInv, ModuleFull(p) PROVE CountersInv'
  BY Zenon DEF CountersKept
<1> DEFINE m0 == args[p].module
<1>1. /\ p \in Unreaped /\ args[p] \in Args /\ m0 \in Modules
      /\ child \in [Pids -> MidRegistration \cup {"none", "gate", "refused", "registered", "zombie"}]
      /\ module_active \in [Modules -> Int] /\ handler \in {"idle", "reap", "zero", "scan"}
  BY Zenon DEF ModuleFull, Step, SlotsInv, Owned, TypeOK, Unreaped, Args
<1>2. /\ child[p] = "module_full" /\ child' = [child EXCEPT ![p] = "refused"]
      /\ module_active' = [module_active EXCEPT ![m0] = module_active[m0] - 1]
      /\ UNCHANGED <<slot_state, slot_module, slot_host, host_active, handler, unscanned, args, derived>>
  BY Zenon DEF ModuleFull, Step, table, signal
<1>3. Zombies' = Zombies
  BY <1>1, <1>2, Zenon DEF Zombies
<1>4. /\ \A q \in Pids \ {p} : child'[q] = child[q]
      /\ child'[p] = "refused"
  BY <1>1, <1>2, Zenon
<1>5. CASE derived = "raced"
  BY <1>2, <1>5, TallyRaced, Zenon DEF CountersInv, ModuleTally, HostTally
<1>6. CASE derived # "raced"
  <2>1. handler \in {"idle", "reap"} /\ ~InRecompute'
    BY <1>2, <1>6, Apart, Zenon DEF MidRegistration, InRecompute
  <2>2. HostsStill
    BY <1>1, <1>2, <1>4, Zenon DEF HostsStill, RegisteredHost, PendingHost, AdmittedHost
  <2>3. ASSUME NEW m \in Modules PROVE ModuleTally(m)'
    <3>1. RegisteredModule(m)' = RegisteredModule(m)
      BY <1>2, Zenon DEF RegisteredModule
    <3>2. ModuleTally(m) /\ module_active[m] \in Int
      BY <1>1, Zenon DEF CountersInv
    <3>3. AdmittedModule(m)' = AdmittedModule(m)
      BY <1>2, <1>4, Zenon DEF AdmittedModule, PendingModule, MidRegistration
    <3>4. CASE m = m0
      <4>1. p \in PendingModule(m) /\ PendingModule(m)' = PendingModule(m) \ {p}
        BY <1>1, <1>2, <1>4, <3>4, Zenon DEF PendingModule, MidRegistration
      <4>2. module_active'[m] = module_active[m] - 1
        BY <1>1, <1>2, <3>4, Zenon
      <4>3. Tally(handler, derived, unscanned, Zombies, module_active[m] - 1, RegisteredModule(m),
                  PendingModule(m) \ {p}, AdmittedModule(m), ModuleCap)
        <5>1. Tally(handler, derived, unscanned, Zombies, module_active[m], RegisteredModule(m),
                    PendingModule(m), AdmittedModule(m), ModuleCap)
          BY <3>2, Zenon DEF ModuleTally
        <5>2. /\ RegisteredModule(m) \in SUBSET Slots /\ PendingModule(m) \in SUBSET Pids
              /\ AdmittedModule(m) \in SUBSET PendingModule(m)
              /\ module_active[m] \in Int /\ ModuleCap \in Nat /\ handler \in {"idle", "reap"}
          BY <2>1, <3>2, Sets, DaemonAssumption, Zenon
        <5> QED BY <4>1, <5>1, <5>2, TallyDown
      <4> QED BY <1>2, <1>3, <2>1, <3>1, <3>3, <4>1, <4>2, <4>3, Zenon DEF ModuleTally, InRecompute
    <3>5. CASE m # m0
      <4>1. PendingModule(m)' = PendingModule(m)
        BY <1>2, <1>4, <3>5, Zenon DEF PendingModule, MidRegistration
      <4>2. module_active'[m] = module_active[m]
        BY <1>1, <1>2, <3>5, Zenon
      <4> QED BY <1>2, <1>3, <3>1, <3>2, <3>3, <4>1, <4>2, Zenon DEF ModuleTally
    <3> QED BY <3>4, <3>5, Zenon
  <2>4. \A h \in Hosts : HostTally(h)'
    BY <1>2, <1>3, <2>2, HostsStillKeep, Zenon
  <2> QED BY <2>1, <2>3, <2>4, Zenon DEF CountersInv
<1> QED BY <1>5, <1>6, Zenon

\* fetch_add on the source's counter.
LEMMA RegisterHostKeeps == ASSUME NEW p \in Pids PROVE CountersKept(RegisterHost(p))
<1> SUFFICES ASSUME SlotsInv, CountersInv, RegisterHost(p) PROVE CountersInv'
  BY Zenon DEF CountersKept
<1> DEFINE h0 == args[p].host
           over == OverCap(host_active[h0] + 1, HostCap)
<1>1. /\ p \in Unreaped /\ args[p] \in Args /\ h0 \in Hosts
      /\ child \in [Pids -> MidRegistration \cup {"none", "gate", "refused", "registered", "zombie"}]
      /\ host_active \in [Hosts -> Int] /\ handler \in {"idle", "reap", "zero", "scan"}
  BY Zenon DEF RegisterHost, Step, SlotsInv, Owned, TypeOK, Unreaped, Args
<1>2. /\ child[p] = "host" /\ child' = [child EXCEPT ![p] = IF over THEN "host_full" ELSE "publish"]
      /\ host_active' = [host_active EXCEPT ![h0] = host_active[h0] + 1]
      /\ UNCHANGED <<slot_state, slot_module, slot_host, module_active, handler, unscanned, args, derived>>
  BY Zenon DEF RegisterHost, Step, table, signal
<1> HIDE DEF over
<1>3. Zombies' = Zombies
  BY <1>1, <1>2, Zenon DEF Zombies
<1>4. /\ \A q \in Pids \ {p} : child'[q] = child[q]
      /\ child'[p] = IF over THEN "host_full" ELSE "publish"
  BY <1>1, <1>2, Zenon
<1>5. CASE derived = "raced"
  BY <1>2, <1>5, TallyRaced, Zenon DEF CountersInv, ModuleTally, HostTally
<1>6. CASE derived # "raced"
  <2>1. handler \in {"idle", "reap"} /\ ~InRecompute'
    BY <1>2, <1>6, Apart, Zenon DEF MidRegistration, InRecompute
  <2>2. ModulesStill
    BY <1>1, <1>2, <1>4, Zenon DEF ModulesStill, RegisteredModule, PendingModule, AdmittedModule, MidRegistration
  <2>3. ASSUME NEW h \in Hosts PROVE HostTally(h)'
    <3>1. RegisteredHost(h)' = RegisteredHost(h)
      BY <1>2, Zenon DEF RegisteredHost
    <3>2. HostTally(h) /\ host_active[h] \in Int
      BY <1>1, Zenon DEF CountersInv
    <3>3. CASE h = h0
      <4>1. p \notin PendingHost(h) /\ PendingHost(h)' = PendingHost(h) \cup {p}
        BY <1>1, <1>2, <1>4, <3>3, Zenon DEF PendingHost
      <4>2. \/ AdmittedHost(h)' = AdmittedHost(h)
            \/ AdmittedHost(h)' = AdmittedHost(h) \cup {p} /\ ~over
        BY <1>2, <1>4, <4>1 DEF AdmittedHost
      <4>3. host_active'[h] = host_active[h] + 1
        BY <1>1, <1>2, <3>3, Zenon
      <4>4. Tally(handler, derived, unscanned, Zombies, host_active[h] + 1, RegisteredHost(h),
                  PendingHost(h) \cup {p}, AdmittedHost(h)', HostCap)
        <5>1. Tally(handler, derived, unscanned, Zombies, host_active[h], RegisteredHost(h),
                    PendingHost(h), AdmittedHost(h), HostCap)
          BY <3>2, Zenon DEF HostTally
        <5>2. /\ RegisteredHost(h) \in SUBSET Slots /\ PendingHost(h) \in SUBSET Pids
              /\ AdmittedHost(h) \in SUBSET PendingHost(h)
              /\ host_active[h] \in Int /\ HostCap \in Nat /\ handler \in {"idle", "reap"}
          BY <2>1, <3>2, Sets, DaemonAssumption, Zenon
        <5>3. p \in Pids \ PendingHost(h)
          BY <4>1, Zenon
        <5>4. \/ AdmittedHost(h)' = AdmittedHost(h)
              \/ AdmittedHost(h)' = AdmittedHost(h) \cup {p} /\ ~OverCap(host_active[h] + 1, HostCap)
          BY <3>3, <4>2, Zenon DEF over
        <5> QED BY <5>1, <5>2, <5>3, <5>4, TallyUp
      <4> QED BY <1>2, <1>3, <3>1, <4>1, <4>3, <4>4, Zenon DEF HostTally
    <3>4. CASE h # h0
      <4>1. PendingHost(h)' = PendingHost(h) /\ AdmittedHost(h)' = AdmittedHost(h)
        BY <1>2, <1>4, <3>4, Zenon DEF PendingHost, AdmittedHost
      <4>2. host_active'[h] = host_active[h]
        BY <1>1, <1>2, <3>4, Zenon
      <4> QED BY <1>2, <1>3, <3>1, <3>2, <4>1, <4>2, Zenon DEF HostTally
    <3> QED BY <3>3, <3>4, Zenon
  <2>4. \A m \in Modules : ModuleTally(m)'
    BY <1>2, <1>3, <2>2, ModulesStillKeep, Zenon
  <2> QED BY <2>1, <2>3, <2>4, Zenon DEF CountersInv
<1> QED BY <1>5, <1>6, Zenon

\* The source's increment is taken back first; the module's is still counted.
LEMMA HostFullKeeps == ASSUME NEW p \in Pids PROVE CountersKept(HostFull(p))
<1> SUFFICES ASSUME SlotsInv, CountersInv, HostFull(p) PROVE CountersInv'
  BY Zenon DEF CountersKept
<1> DEFINE h0 == args[p].host
<1>1. /\ p \in Unreaped /\ args[p] \in Args /\ h0 \in Hosts
      /\ child \in [Pids -> MidRegistration \cup {"none", "gate", "refused", "registered", "zombie"}]
      /\ module_active \in [Modules -> Int]
      /\ host_active \in [Hosts -> Int] /\ handler \in {"idle", "reap", "zero", "scan"}
  BY Zenon DEF HostFull, Step, SlotsInv, Owned, TypeOK, Unreaped, Args
<1>2. /\ child[p] = "host_full" /\ child' = [child EXCEPT ![p] = "module_full"]
      /\ host_active' = [host_active EXCEPT ![h0] = host_active[h0] - 1]
      /\ UNCHANGED <<slot_state, slot_module, slot_host, module_active, handler, unscanned, args, derived>>
  BY Zenon DEF HostFull, Step, table, signal
<1>3. Zombies' = Zombies
  BY <1>1, <1>2, Zenon DEF Zombies
<1>4. /\ \A q \in Pids \ {p} : child'[q] = child[q]
      /\ child'[p] = "module_full"
  BY <1>1, <1>2, Zenon
<1>5. CASE derived = "raced"
  BY <1>2, <1>5, TallyRaced, Zenon DEF CountersInv, ModuleTally, HostTally
<1>6. CASE derived # "raced"
  <2>1. handler \in {"idle", "reap"} /\ ~InRecompute'
    BY <1>2, <1>6, Apart, Zenon DEF MidRegistration, InRecompute
  <2>2. ASSUME NEW m \in Modules PROVE ModuleTally(m)'
    <3>1. RegisteredModule(m)' = RegisteredModule(m) /\ ModuleTally(m) /\ module_active[m] \in Int
      BY <1>1, <1>2, Zenon DEF RegisteredModule, CountersInv
    <3>2. PendingModule(m)' = PendingModule(m)
      BY <1>2, <1>4, Zenon DEF PendingModule, MidRegistration
    <3>3. AdmittedModule(m)' \in SUBSET AdmittedModule(m)
      BY <1>2, <1>4, <3>2 DEF AdmittedModule
    <3>4. Tally(handler, derived, unscanned, Zombies, module_active[m], RegisteredModule(m),
                PendingModule(m), AdmittedModule(m)', ModuleCap)
      BY <3>1, <3>3, Sets, TallyShrinks, DaemonAssumption, Zenon DEF ModuleTally
    <3> QED BY <1>2, <1>3, <2>1, <3>1, <3>2, <3>4, Zenon DEF ModuleTally, InRecompute
  <2>3. ASSUME NEW h \in Hosts PROVE HostTally(h)'
    <3>1. RegisteredHost(h)' = RegisteredHost(h)
      BY <1>2, Zenon DEF RegisteredHost
    <3>2. HostTally(h) /\ host_active[h] \in Int
      BY <1>1, Zenon DEF CountersInv
    <3>3. AdmittedHost(h)' = AdmittedHost(h)
      BY <1>2, <1>4, Zenon DEF AdmittedHost, PendingHost
    <3>4. CASE h = h0
      <4>1. p \in PendingHost(h) /\ PendingHost(h)' = PendingHost(h) \ {p}
        BY <1>1, <1>2, <1>4, <3>4, Zenon DEF PendingHost
      <4>2. host_active'[h] = host_active[h] - 1
        BY <1>1, <1>2, <3>4, Zenon
      <4>3. Tally(handler, derived, unscanned, Zombies, host_active[h] - 1, RegisteredHost(h),
                  PendingHost(h) \ {p}, AdmittedHost(h), HostCap)
        <5>1. Tally(handler, derived, unscanned, Zombies, host_active[h], RegisteredHost(h),
                    PendingHost(h), AdmittedHost(h), HostCap)
          BY <3>2, Zenon DEF HostTally
        <5>2. /\ RegisteredHost(h) \in SUBSET Slots /\ PendingHost(h) \in SUBSET Pids
              /\ AdmittedHost(h) \in SUBSET PendingHost(h)
              /\ host_active[h] \in Int /\ HostCap \in Nat /\ handler \in {"idle", "reap"}
          BY <2>1, <3>2, Sets, DaemonAssumption, Zenon
        <5> QED BY <4>1, <5>1, <5>2, TallyDown
      <4> QED BY <1>2, <1>3, <3>1, <3>3, <4>1, <4>2, <4>3, Zenon DEF HostTally
    <3>5. CASE h # h0
      <4>1. PendingHost(h)' = PendingHost(h)
        BY <1>2, <1>4, <3>5, Zenon DEF PendingHost
      <4>2. host_active'[h] = host_active[h]
        BY <1>1, <1>2, <3>5, Zenon
      <4> QED BY <1>2, <1>3, <3>1, <3>2, <3>3, <4>1, <4>2, Zenon DEF HostTally
    <3> QED BY <3>4, <3>5, Zenon
  <2> QED BY <2>1, <2>2, <2>3, Zenon DEF CountersInv
<1> QED BY <1>5, <1>6, Zenon

\* A source without a bucket.
LEMMA SkipHostKeeps == ASSUME NEW p \in Pids PROVE CountersKept(SkipHost(p))
<1> SUFFICES ASSUME SlotsInv, CountersInv, SkipHost(p) PROVE CountersInv'
  BY Zenon DEF CountersKept
<1>1. child \in [Pids -> MidRegistration \cup {"none", "gate", "refused", "registered", "zombie"}]
  BY Zenon DEF SlotsInv, TypeOK
<1>2. /\ child[p] = "host" /\ child' = [child EXCEPT ![p] = "publish"] /\ args[p].host = None
      /\ UNCHANGED <<slot_state, slot_module, slot_host, module_active, host_active, handler, unscanned,
                     args, derived>>
  BY Zenon DEF SkipHost, Step, table, signal, counters
<1>3. Zombies' = Zombies /\ child'[p] = "publish" /\ \A q \in Pids \ {p} : child'[q] = child[q]
  BY <1>1, <1>2, Zenon DEF Zombies
<1>4. ModulesStill
  BY <1>2, <1>3, Zenon DEF ModulesStill, RegisteredModule, PendingModule, AdmittedModule, MidRegistration
<1>5. HostsStill
  BY <1>2, <1>3, DaemonAssumption, Zenon DEF HostsStill, RegisteredHost, PendingHost, AdmittedHost
<1>6. derived # "raced" => ~InRecompute'
  BY <1>2, Apart, Zenon DEF MidRegistration, InRecompute
<1> QED
  BY <1>2, <1>3, <1>4, <1>5, <1>6, ModulesStillKeep, HostsStillKeep, Zenon DEF CountersInv

\* REGISTERED is released: the child's slot is counted instead of the child.
LEMMA PublishKeeps == ASSUME NEW p \in Pids PROVE CountersKept(Publish(p))
<1> SUFFICES ASSUME SlotsInv, CountersInv, Publish(p) PROVE CountersInv'
  BY Zenon DEF CountersKept
<1> DEFINE s == args[p].slot
<1>1. /\ args[p] \in Args /\ s \in Slots /\ slot_state[s] = "CLAIMED"
      /\ child \in [Pids -> MidRegistration \cup {"none", "gate", "refused", "registered", "zombie"}]
      /\ module_active \in [Modules -> Int] /\ host_active \in [Hosts -> Int]
      /\ slot_state \in [Slots -> {"FREE", "CLAIMED", "REGISTERED"}]
      /\ slot_module \in [Slots -> Modules \cup {None}] /\ slot_host \in [Slots -> Hosts \cup {None}]
  BY Zenon DEF Publish, Step, SlotsInv, Owned, TypeOK, Unreaped, Args, Registering, MidRegistration
<1>2. /\ child[p] = "publish" /\ child' = [child EXCEPT ![p] = "registered"]
      /\ slot_module' = [slot_module EXCEPT ![s] = args[p].module]
      /\ slot_host' = [slot_host EXCEPT ![s] = args[p].host]
      /\ slot_state' = [slot_state EXCEPT ![s] = "REGISTERED"]
      /\ UNCHANGED <<module_active, host_active, handler, unscanned, args, derived>>
  BY Zenon DEF Publish, Step, signal, counters
<1>3. Zombies' = Zombies /\ child'[p] = "registered" /\ \A q \in Pids \ {p} : child'[q] = child[q]
  BY <1>1, <1>2, Zenon DEF Zombies
<1>4. /\ slot_state'[s] = "REGISTERED" /\ slot_module'[s] = args[p].module /\ slot_host'[s] = args[p].host
      /\ \A t \in Slots \ {s} : /\ slot_state'[t] = slot_state[t] /\ slot_module'[t] = slot_module[t]
                                /\ slot_host'[t] = slot_host[t]
  BY <1>1, <1>2, Zenon
<1>5. CASE derived = "raced"
  BY <1>2, <1>5, TallyRaced, Zenon DEF CountersInv, ModuleTally, HostTally
<1>6. CASE derived # "raced"
  <2>1. handler \in {"idle", "reap"} /\ ~InRecompute'
    BY <1>2, <1>6, Apart, Zenon DEF MidRegistration, InRecompute
  <2>2. ASSUME NEW m \in Modules PROVE ModuleTally(m)'
    <3>1. ModuleTally(m) /\ module_active[m] \in Int
      BY <1>1, Zenon DEF CountersInv
    <3>2. CASE m = args[p].module
      <4>1. s \notin RegisteredModule(m) /\ RegisteredModule(m)' = RegisteredModule(m) \cup {s}
        <5>1. s \notin RegisteredModule(m)
          BY <1>1, Zenon DEF RegisteredModule
        <5>2. s \in RegisteredModule(m)'
          BY <1>1, <1>4, <3>2, Zenon DEF RegisteredModule
        <5>3. \A t : t # s => (t \in RegisteredModule(m)' <=> t \in RegisteredModule(m))
          BY <1>1, <1>4, Zenon DEF RegisteredModule
        <5> QED BY <5>1, <5>2, <5>3, Zenon
      <4>2. /\ PendingModule(m)' = PendingModule(m) \ {p}
            /\ AdmittedModule(m)' = AdmittedModule(m) \ {p} /\ p \in AdmittedModule(m)
        BY <1>2, <1>3, <3>2, Zenon DEF PendingModule, AdmittedModule, MidRegistration
      <4>3. Tally(handler, derived, unscanned, Zombies, module_active[m], RegisteredModule(m) \cup {s},
                  PendingModule(m) \ {p}, AdmittedModule(m) \ {p}, ModuleCap)
        <5>1. s \in Slots \ RegisteredModule(m)
          BY <1>1, <4>1, Zenon
        <5>2. Tally(handler, derived, unscanned, Zombies, module_active[m], RegisteredModule(m),
                    PendingModule(m), AdmittedModule(m), ModuleCap)
          BY <3>1, Zenon DEF ModuleTally
        <5>3. /\ RegisteredModule(m) \in SUBSET Slots /\ PendingModule(m) \in SUBSET Pids
              /\ AdmittedModule(m) \in SUBSET PendingModule(m) /\ p \in AdmittedModule(m)
              /\ module_active[m] \in Int /\ ModuleCap \in Nat /\ handler \in {"idle", "reap"}
          BY <2>1, <3>1, <4>2, Sets, DaemonAssumption, Zenon
        <5> QED BY <5>1, <5>2, <5>3, ModulePublish, Zenon
      <4> QED BY <1>2, <1>3, <2>1, <4>1, <4>2, <4>3, Zenon DEF ModuleTally, InRecompute
    <3>3. CASE m # args[p].module
      <4>1. RegisteredModule(m)' = RegisteredModule(m)
        BY <1>1, <1>4, <3>3, Zenon DEF RegisteredModule
      <4>2. PendingModule(m)' = PendingModule(m) /\ AdmittedModule(m)' = AdmittedModule(m)
        BY <1>2, <1>3, <3>3, Zenon DEF PendingModule, AdmittedModule, MidRegistration
      <4> QED BY <1>2, <1>3, <3>1, <4>1, <4>2, Zenon DEF ModuleTally
    <3> QED BY <3>2, <3>3, Zenon
  <2>3. ASSUME NEW h \in Hosts PROVE HostTally(h)'
    <3>1. HostTally(h) /\ host_active[h] \in Int
      BY <1>1, Zenon DEF CountersInv
    <3>2. CASE h = args[p].host
      <4>1. s \notin RegisteredHost(h) /\ RegisteredHost(h)' = RegisteredHost(h) \cup {s}
        <5>1. s \notin RegisteredHost(h)
          BY <1>1, Zenon DEF RegisteredHost
        <5>2. s \in RegisteredHost(h)'
          BY <1>1, <1>4, <3>2, Zenon DEF RegisteredHost
        <5>3. \A t : t # s => (t \in RegisteredHost(h)' <=> t \in RegisteredHost(h))
          BY <1>1, <1>4, Zenon DEF RegisteredHost
        <5> QED BY <5>1, <5>2, <5>3, Zenon
      <4>2. /\ PendingHost(h)' = PendingHost(h) \ {p}
            /\ AdmittedHost(h)' = AdmittedHost(h) \ {p} /\ p \in AdmittedHost(h)
        BY <1>2, <1>3, <3>2, Zenon DEF PendingHost, AdmittedHost
      <4>3. Tally(handler, derived, unscanned, Zombies, host_active[h], RegisteredHost(h) \cup {s},
                  PendingHost(h) \ {p}, AdmittedHost(h) \ {p}, HostCap)
        <5>1. s \in Slots \ RegisteredHost(h)
          BY <1>1, <4>1, Zenon
        <5>2. Tally(handler, derived, unscanned, Zombies, host_active[h], RegisteredHost(h),
                    PendingHost(h), AdmittedHost(h), HostCap)
          BY <3>1, Zenon DEF HostTally
        <5>3. /\ RegisteredHost(h) \in SUBSET Slots /\ PendingHost(h) \in SUBSET Pids
              /\ AdmittedHost(h) \in SUBSET PendingHost(h) /\ p \in AdmittedHost(h)
              /\ host_active[h] \in Int /\ HostCap \in Nat /\ handler \in {"idle", "reap"}
          BY <2>1, <3>1, <4>2, Sets, DaemonAssumption, Zenon
        <5> QED BY <5>1, <5>2, <5>3, HostPublish, Zenon
      <4> QED BY <1>2, <1>3, <4>1, <4>2, <4>3, Zenon DEF HostTally
    <3>3. CASE h # args[p].host
      <4>1. RegisteredHost(h)' = RegisteredHost(h)
        BY <1>1, <1>4, <3>3, Zenon DEF RegisteredHost
      <4>2. PendingHost(h)' = PendingHost(h) /\ AdmittedHost(h)' = AdmittedHost(h)
        BY <1>2, <1>3, <3>3, Zenon DEF PendingHost, AdmittedHost
      <4> QED BY <1>2, <1>3, <3>1, <4>1, <4>2, Zenon DEF HostTally
    <3> QED BY <3>2, <3>3, Zenon
  <2> QED BY <2>1, <2>2, <2>3, Zenon DEF CountersInv
<1> QED BY <1>5, <1>6, Zenon

\* A child ends, or is reaped: what was counted of it may be gone, the counters stay.
LEMMA EndKeeps == CountersKept(Reap \/ \E p \in Pids : Exit(p))
<1> SUFFICES ASSUME SlotsInv, CountersInv, Reap \/ \E p \in Pids : Exit(p) PROVE CountersInv'
  BY Zenon DEF CountersKept
<1>1. /\ UNCHANGED <<slot_module, slot_host, module_active, host_active, handler, unscanned, derived>>
      /\ handler = "idle" => Zombies' # {}
      /\ \A s \in Slots : slot_state'[s] \in {slot_state[s], "FREE"}
      /\ handler # "reap" => slot_state' = slot_state
      /\ \A q \in Pids : (child'[q] = child[q] /\ args'[q] = args[q]) \/ child'[q] \in {"none", "zombie"}
  <2>1. CASE Reap
    BY <2>1, Zenon DEF Reap, SlotsInv, TypeOK, counters, signal
  <2>2. CASE \E p \in Pids : Exit(p)
    BY <2>2, Zenon DEF Exit, SlotsInv, TypeOK, counters, table, Zombies
  <2> QED BY <2>1, <2>2, Zenon
<1>2. ASSUME NEW m \in Modules PROVE ModuleTally(m)'
  <2>1. ModuleTally(m) /\ module_active[m] \in Int
    BY Zenon DEF CountersInv, SlotsInv, TypeOK
  <2>2. /\ RegisteredModule(m)' \in SUBSET RegisteredModule(m)
        /\ handler # "reap" => RegisteredModule(m)' = RegisteredModule(m)
    BY <1>1, Zenon DEF RegisteredModule
  <2>3. PendingModule(m)' \in SUBSET PendingModule(m) /\ AdmittedModule(m)' \in SUBSET AdmittedModule(m)
    BY <1>1, Zenon DEF PendingModule, AdmittedModule, MidRegistration
  <2>4. Tally(handler, derived, unscanned, Zombies', module_active[m], RegisteredModule(m)',
              PendingModule(m)', AdmittedModule(m)', ModuleCap)
    <3>1. Tally(handler, derived, unscanned, Zombies, module_active[m], RegisteredModule(m),
                PendingModule(m), AdmittedModule(m), ModuleCap)
      BY <2>1, Zenon DEF ModuleTally
    <3>2. /\ RegisteredModule(m) \in SUBSET Slots /\ PendingModule(m) \in SUBSET Pids
          /\ AdmittedModule(m) \in SUBSET Pids /\ ModuleCap \in Nat
      BY Sets, DaemonAssumption, Zenon
    <3>3. handler = "scan" => RegisteredModule(m)' = RegisteredModule(m)
      BY <2>2
    <3>4. handler = "idle" => Zombies' # {}
      BY <1>1, Zenon
    <3> QED BY <2>1, <2>2, <2>3, <3>1, <3>2, <3>3, <3>4, TallyShrinks, Zenon
  <2> QED BY <1>1, <2>1, <2>4, Zenon DEF ModuleTally
<1>3. ASSUME NEW h \in Hosts PROVE HostTally(h)'
  <2>1. HostTally(h) /\ host_active[h] \in Int
    BY Zenon DEF CountersInv, SlotsInv, TypeOK
  <2>2. /\ RegisteredHost(h)' \in SUBSET RegisteredHost(h)
        /\ handler # "reap" => RegisteredHost(h)' = RegisteredHost(h)
    BY <1>1, Zenon DEF RegisteredHost
  <2>3. PendingHost(h)' \in SUBSET PendingHost(h) /\ AdmittedHost(h)' \in SUBSET AdmittedHost(h)
    BY <1>1, Zenon DEF PendingHost, AdmittedHost
  <2>4. Tally(handler, derived, unscanned, Zombies', host_active[h], RegisteredHost(h)',
              PendingHost(h)', AdmittedHost(h)', HostCap)
    <3>1. Tally(handler, derived, unscanned, Zombies, host_active[h], RegisteredHost(h),
                PendingHost(h), AdmittedHost(h), HostCap)
      BY <2>1, Zenon DEF HostTally
    <3>2. /\ RegisteredHost(h) \in SUBSET Slots /\ PendingHost(h) \in SUBSET Pids
          /\ AdmittedHost(h) \in SUBSET Pids /\ HostCap \in Nat
      BY Sets, DaemonAssumption, Zenon
    <3>3. handler = "scan" => RegisteredHost(h)' = RegisteredHost(h)
      BY <2>2
    <3>4. handler = "idle" => Zombies' # {}
      BY <1>1, Zenon
    <3> QED BY <2>1, <2>2, <2>3, <3>1, <3>2, <3>3, <3>4, TallyShrinks, Zenon
  <2> QED BY <1>1, <2>4, Zenon DEF HostTally
<1> QED BY <1>1, <1>2, <1>3, Zenon DEF CountersInv, InRecompute, MidRegistration

\* The accept loop, a stuttering step and the delivery of SIGCHLD.
LEMMA IdleKeeps == CountersKept(Listener \/ HandlerEnter \/ UNCHANGED vars)
<1> SUFFICES ASSUME SlotsInv, CountersInv, Listener \/ HandlerEnter \/ UNCHANGED vars
             PROVE  CountersInv'
  BY Zenon DEF CountersKept
<1>1. CASE Listener \/ UNCHANGED vars
  <2>1. /\ ModulesStill /\ HostsStill
        /\ UNCHANGED <<handler, derived, unscanned>>
        /\ \A p \in Pids : child'[p] = child[p] \/ (child[p] = "none" /\ child'[p] = "gate")
    BY <1>1, ListenerStill, Zenon
  <2>2. Zombies' = Zombies /\ \A p \in Pids : child'[p] \in MidRegistration => child[p] \in MidRegistration
    BY <2>1, Zenon DEF Zombies, MidRegistration
  <2> QED BY <2>1, <2>2, ModulesStillKeep, HostsStillKeep, Zenon DEF CountersInv, InRecompute
<1>2. CASE HandlerEnter
  <2>1. /\ handler = "idle" /\ handler' = "reap"
        /\ UNCHANGED <<derived, unscanned, slot_state, slot_module, slot_host, module_active, host_active,
                       child, args>>
    BY <1>2, Zenon DEF HandlerEnter, table, counters
  <2>2. ModulesStill /\ HostsStill /\ Zombies' = Zombies /\ ~InRecompute'
    BY <2>1, Zenon DEF ModulesStill, HostsStill, Zombies, RegisteredModule, PendingModule, AdmittedModule,
       RegisteredHost, PendingHost, AdmittedHost, InRecompute
  <2> QED BY <2>1, <2>2, ModulesStillKeep, HostsStillKeep, Zenon DEF CountersInv
<1> QED BY <1>1, <1>2, Zenon

\* The recompute.
LEMMA RecomputeKeeps == CountersKept(ZeroModules \/ ZeroHosts \/ Scan)
<1> SUFFICES ASSUME SlotsInv, CountersInv, ZeroModules \/ ZeroHosts \/ Scan PROVE CountersInv'
  BY Zenon DEF CountersKept
<1>1. /\ UNCHANGED <<slot_state, slot_module, slot_host, child, args>>
      /\ Zombies' = Zombies
  <2>1. UNCHANGED <<slot_state, slot_module, slot_host, child, args>>
    BY Zenon DEF ZeroModules, ZeroHosts, Scan, table
  <2> QED BY <2>1, Zenon DEF Zombies
<1>2. \A m : /\ RegisteredModule(m)' = RegisteredModule(m) /\ PendingModule(m)' = PendingModule(m)
             /\ AdmittedModule(m)' = AdmittedModule(m)
  BY <1>1, Zenon DEF RegisteredModule, PendingModule, AdmittedModule
<1>3. \A h : /\ RegisteredHost(h)' = RegisteredHost(h) /\ PendingHost(h)' = PendingHost(h)
             /\ AdmittedHost(h)' = AdmittedHost(h)
  BY <1>1, Zenon DEF RegisteredHost, PendingHost, AdmittedHost
<1>4. /\ module_active \in [Modules -> Int] /\ host_active \in [Hosts -> Int]
      /\ derived \in {"clean", "raced", "healed"} /\ unscanned \in SUBSET Slots
  BY Zenon DEF SlotsInv, TypeOK
<1>5. CASE ZeroModules
  <2>1. handler' = "zero" /\ module_active' = [m \in Modules |-> 0]
    BY <1>4, <1>5, Zenon DEF ZeroModules, Zeroed
  <2>2. /\ derived' = "clean" => derived = "clean"
        /\ derived' # "raced" => \A p \in Pids : child[p] \notin MidRegistration
    <3>1. CASE \E p \in Pids : child[p] \in MidRegistration
      <4>1. derived' = "raced"
        BY <1>5, <3>1, Zenon DEF ZeroModules
      <4> QED BY <4>1, Zenon
    <3>2. CASE \A p \in Pids : child[p] \notin MidRegistration
      <4>1. derived' = IF derived = "raced" THEN "healed" ELSE derived
        BY <1>4, <1>5, <3>2, Zenon DEF ZeroModules
      <4> QED BY <3>2, <4>1, Zenon
    <3> QED BY <3>1, <3>2, Zenon
  <2>3. ASSUME NEW m \in Modules PROVE ModuleTally(m)'
    <3>1. Tally(handler, derived, unscanned, Zombies, module_active[m], RegisteredModule(m),
                PendingModule(m), AdmittedModule(m), ModuleCap)
      BY Zenon DEF CountersInv, ModuleTally
    <3>2. Tally("zero", derived', unscanned', Zombies', module_active'[m], RegisteredModule(m),
                PendingModule(m), AdmittedModule(m), ModuleCap)
      BY <2>2, <3>1, Zenon DEF Tally
    <3>3. module_active'[m] = 0
      BY <2>1, Zenon
    <3> QED BY <1>2, <2>1, <3>2, <3>3, Zenon DEF ModuleTally
  <2>4. ASSUME NEW h \in Hosts PROVE HostTally(h)'
    <3>1. Tally(handler, derived, unscanned, Zombies, host_active[h], RegisteredHost(h),
                PendingHost(h), AdmittedHost(h), HostCap)
      BY Zenon DEF CountersInv, HostTally
    <3>2. Tally("zero", derived', unscanned', Zombies', host_active'[h], RegisteredHost(h),
                PendingHost(h), AdmittedHost(h), HostCap)
      BY <2>2, <3>1, Zenon DEF Tally
    <3> QED BY <1>3, <2>1, <3>2, Zenon DEF HostTally
  <2> QED BY <1>1, <2>2, <2>3, <2>4, Zenon DEF CountersInv
<1>6. CASE ZeroHosts
  <2>1. /\ handler = "zero" /\ handler' = "scan" /\ host_active' = [h \in Hosts |-> 0]
        /\ unscanned' = Slots /\ UNCHANGED <<module_active, derived>>
    BY <1>4, <1>6, Zenon DEF ZeroHosts, Zeroed, ScanRange
  <2>2. \A S \in SUBSET Slots : Cardinality(S \ Slots) = 0
    <3>1. \A S \in SUBSET Slots : S \ Slots = {}
      BY Zenon
    <3> QED BY <3>1, FS_EmptySet, Zenon
  <2>3. \A m \in Modules : ModuleTally(m)'
    BY <1>2, <2>1, <2>2, Sets, Zenon DEF CountersInv, ModuleTally, Tally
  <2>4. \A h \in Hosts : HostTally(h)'
    BY <1>3, <2>1, <2>2, Sets, Zenon DEF CountersInv, HostTally, Tally
  <2> QED BY <1>1, <2>1, <2>3, <2>4, Zenon DEF CountersInv, InRecompute
<1>7. CASE Scan
  <2>1. PICK s \in unscanned :
          /\ unscanned' = unscanned \ {s}
          /\ module_active' = [m \in Modules |-> module_active[m] +
                                  IF Counted(s) /\ slot_module[s] = m THEN 1 ELSE 0]
          /\ host_active' = [h \in Hosts |-> host_active[h] +
                                  IF Counted(s) /\ slot_host[s] = h THEN 1 ELSE 0]
          /\ handler' = IF unscanned = {s} THEN "idle" ELSE "scan"
    BY <1>7, Zenon DEF Scan
  <2>2. handler = "scan" /\ derived' = derived
    BY <1>7, Zenon DEF Scan
  <2>3. CASE derived = "raced"
    BY <2>2, <2>3, TallyRaced, Zenon DEF CountersInv, ModuleTally, HostTally
  <2>4. CASE derived # "raced"
    <3>1. \A p \in Pids : child[p] \notin MidRegistration
      BY <2>2, <2>4, Zenon DEF CountersInv, InRecompute
    <3>2. s \in Slots
      BY <1>4, Zenon
    <3>3. ASSUME NEW m \in Modules PROVE ModuleTally(m)'
      <4>1. PendingModule(m) = {}
        BY <3>1, Zenon DEF PendingModule
      <4>2. module_active[m] \in Int /\ module_active'[m] = module_active[m] + IF s \in RegisteredModule(m) THEN 1 ELSE 0
        BY <1>4, <2>1, <3>2, Zenon DEF RegisteredModule, Counted
      <4>3. Tally("scan", derived, unscanned, Zombies, module_active[m], RegisteredModule(m), {},
                  AdmittedModule(m), ModuleCap)
        BY <2>2, <4>1, Zenon DEF CountersInv, ModuleTally
      <4>4. Tally(handler', derived, unscanned \ {s}, Zombies, module_active'[m], RegisteredModule(m), {},
                  AdmittedModule(m), ModuleCap)
        <5>1. RegisteredModule(m) \in SUBSET Slots /\ ModuleCap \in Nat
          BY Sets, DaemonAssumption, Zenon
        <5>2. handler' = IF unscanned = {s} THEN "idle" ELSE "scan"
          BY <2>1, Zenon
        <5>3. Tally(handler', derived, unscanned \ {s}, Zombies,
                    module_active[m] + IF s \in RegisteredModule(m) THEN 1 ELSE 0,
                    RegisteredModule(m), {}, AdmittedModule(m), ModuleCap)
          BY <1>4, <4>2, <4>3, <5>1, <5>2, TallyScan, ZenonT(60)
        <5> QED BY <4>2, <5>3, Zenon
      <4>5. handler' # "zero"
        BY <2>1, Zenon
      <4> QED BY <1>1, <1>2, <2>1, <2>2, <4>1, <4>4, <4>5, Zenon DEF ModuleTally
    <3>4. ASSUME NEW h \in Hosts PROVE HostTally(h)'
      <4>1. PendingHost(h) = {}
        BY <3>1, Zenon DEF PendingHost, MidRegistration
      <4>2. host_active[h] \in Int /\ host_active'[h] = host_active[h] + IF s \in RegisteredHost(h) THEN 1 ELSE 0
        BY <1>4, <2>1, <3>2, Zenon DEF RegisteredHost, Counted
      <4>3. Tally("scan", derived, unscanned, Zombies, host_active[h], RegisteredHost(h), {},
                  AdmittedHost(h), HostCap)
        BY <2>2, <4>1, Zenon DEF CountersInv, HostTally
      <4>4. Tally(handler', derived, unscanned \ {s}, Zombies, host_active'[h], RegisteredHost(h), {},
                  AdmittedHost(h), HostCap)
        <5>1. RegisteredHost(h) \in SUBSET Slots /\ HostCap \in Nat
          BY Sets, DaemonAssumption, Zenon
        <5>2. handler' = IF unscanned = {s} THEN "idle" ELSE "scan"
          BY <2>1, Zenon
        <5>3. Tally(handler', derived, unscanned \ {s}, Zombies,
                    host_active[h] + IF s \in RegisteredHost(h) THEN 1 ELSE 0,
                    RegisteredHost(h), {}, AdmittedHost(h), HostCap)
          BY <1>4, <4>2, <4>3, <5>1, <5>2, TallyScan, ZenonT(60)
        <5> QED BY <4>2, <5>3, Zenon
      <4> QED BY <1>1, <1>3, <2>1, <2>2, <4>1, <4>4, Zenon DEF HostTally
    <3> QED BY <1>1, <3>1, <3>3, <3>4, Zenon DEF CountersInv
  <2> QED BY <2>3, <2>4, Zenon
<1> QED BY <1>5, <1>6, <1>7, Zenon

(* Every step keeps the counters. *)
LEMMA CountersStep == SlotsInv /\ CountersInv /\ [Next]_vars => CountersInv'
  BY IdleKeeps, RecomputeKeeps, EndKeeps, RegisterModuleKeeps, ModuleFullKeeps, RegisterHostKeeps,
     HostFullKeeps, SkipHostKeeps, PublishKeeps, Zenon DEF CountersKept, Next, Handler, Child

\* No recompute having overlapped a registration, no more connections are
\* REGISTERED than the caps allow, whatever the number of children registering,
\* refused and killed at once (daemon_limits_register, daemon_limits_recompute).
THEOREM CapsHold == Spec => []CapsHeldUnlessRaced
<1>1. CountersInv => CapsHeldUnlessRaced
  <2> SUFFICES ASSUME CountersInv, derived = "clean" PROVE WithinCaps
    BY Zenon DEF CapsHeldUnlessRaced
  <2>1. \A m \in Modules : ModuleCap > 0 =>
          Cardinality(RegisteredModule(m)) + Cardinality(AdmittedModule(m)) <= ModuleCap
    BY Zenon DEF CountersInv, ModuleTally, Tally
  <2>2. \A h \in Hosts : HostCap > 0 =>
          Cardinality(RegisteredHost(h)) + Cardinality(AdmittedHost(h)) <= HostCap
    BY Zenon DEF CountersInv, HostTally, Tally
  <2>3. /\ \A m : Cardinality(RegisteredModule(m)) \in Nat /\ Cardinality(AdmittedModule(m)) \in Nat
        /\ \A h : Cardinality(RegisteredHost(h)) \in Nat /\ Cardinality(AdmittedHost(h)) \in Nat
    BY Sets, Finite, Zenon
  <2> QED BY <2>1, <2>2, <2>3, DaemonAssumption DEF WithinCaps
<1> QED BY SlotsInit, SlotsStep, CountersInit, CountersStep, <1>1, PTL DEF Spec

\* No slot and no count leaks: the slots and g_active_connections follow the
\* children, and at rest the derived counters are the number of REGISTERED slots
\* (sigchld_handler, daemon_limits_reclaim_pid, daemon_limits_recompute).
THEOREM RegistryIsExact == Spec => []RegistryHeals
<1>1. SlotsInv => SlotsFollowChildren
  BY SlotsFollow
<1>2. ASSUME CountersInv, SlotsInv, derived # "raced", handler = "idle",
             \A p \in Pids : child[p] \notin MidRegistration \cup {"zombie"}
      PROVE  /\ \A m \in Modules : module_active[m] = Cardinality(RegisteredModule(m))
             /\ \A h \in Hosts : host_active[h] = Cardinality(RegisteredHost(h))
  <2>1. Zombies = {} /\ (\A m : PendingModule(m) = {}) /\ (\A h : PendingHost(h) = {})
    BY <1>2, Zenon DEF Zombies, PendingModule, PendingHost, MidRegistration
  <2>2. /\ \A m \in Modules : module_active[m] = Cardinality(RegisteredModule(m)) + Cardinality({})
        /\ \A h \in Hosts : host_active[h] = Cardinality(RegisteredHost(h)) + Cardinality({})
    BY <1>2, <2>1, Zenon DEF CountersInv, ModuleTally, HostTally, Tally
  <2>3. /\ Cardinality({}) = 0
        /\ \A m : Cardinality(RegisteredModule(m)) \in Nat
        /\ \A h : Cardinality(RegisteredHost(h)) \in Nat
    BY FS_EmptySet, Sets, Finite, Zenon
  <2> QED BY <2>2, <2>3
<1>3. SlotsInv /\ CountersInv => RegistryHeals
  BY <1>1, <1>2, Zenon DEF RegistryHeals
<1> QED BY SlotsInit, SlotsStep, CountersInit, CountersStep, <1>3, PTL DEF Spec
=============================================================================
