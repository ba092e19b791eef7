---------------------------- MODULE DaemonLimits ----------------------------
(***************************************************************************)
(* The daemon's connection registry (shared/daemon_limits.c) with the      *)
(* listener that forks one child per connection and reaps the children in  *)
(* its SIGCHLD handler (shared/transport_tcp.c).                           *)
(*                                                                         *)
(* The registry lives in memory shared by the listener and its children.   *)
(* The code uses atomics and no lock, so every atomic operation that       *)
(* another process can observe is a step of its own.  The handler runs on  *)
(* the listener's only thread, at any point where SIGCHLD is not blocked.  *)
(*                                                                         *)
(* Every source address has its own bucket here: the open-addressed table  *)
(* that assigns buckets has at least four per slot.                        *)
(*                                                                         *)
(* Faulty variants, named Bad..., stand before the definition they are a   *)
(* plausible slip of; the README says which property finds each of them.   *)
(***************************************************************************)
EXTENDS Integers, FiniteSets

CONSTANTS Pids,             \* process ids a forked child may get
          Slots,            \* indices of the slot table
          Modules,          \* the configured daemon modules
          Hosts,            \* the source addresses that connect
          None,             \* -1: no module, no bucket; 0: no pid
          ModuleCap,        \* a module's "max connections", 0 for no cap
          HostCap,          \* "max connections per host", 0 for no cap
          ConnectionLimits  \* the values of the listener's max_connections

ASSUME DaemonAssumption ==
    /\ ModuleCap \in Nat /\ HostCap \in Nat
    /\ ConnectionLimits \subseteq Nat \ {0}
    /\ None \notin Pids \cup Modules \cup Hosts
    /\ Slots \in SUBSET Nat /\ IsFiniteSet(Slots) /\ IsFiniteSet(Pids)

VARIABLES
    max_connections,  \* fixed when the listener starts
    slot_state, slot_pid, slot_module, slot_host,   \* the slot table
    module_active, host_active,                     \* the derived counters
    g_active_connections,
    listener,         \* where the accept loop is
    g_current_slot,
    pid,              \* what fork() returned to the listener
    handler,          \* where the SIGCHLD handler is, "idle" if not running
    unscanned,        \* slots the recompute in progress has not read yet
    sigchld,          \* SIGCHLD is pending (signals do not queue)
    child,            \* where each process is
    args,             \* the slot, module and source of each child
    derived           \* history: has a recompute overlapped a registration?

table == <<slot_state, slot_pid, slot_module, slot_host>>
counters == <<module_active, host_active>>
parent == <<g_active_connections, listener, g_current_slot, pid>>
signal == <<handler, unscanned, sigchld>>
vars == <<max_connections, table, counters, parent, signal, child, args, derived>>

(* A child has raised a counter and has neither published its slot nor     *)
(* taken the increment back.                                               *)
MidRegistration == {"host", "module_full", "host_full", "publish"}

(* waitpid has not yet returned the process. *)
Unreaped == {p \in Pids : child[p] # "none"}

Init ==
    /\ max_connections \in ConnectionLimits
    /\ slot_state = [s \in Slots |-> "FREE"]
    /\ slot_pid = [s \in Slots |-> None]
    /\ slot_module = [s \in Slots |-> None]
    /\ slot_host = [s \in Slots |-> None]
    /\ module_active = [m \in Modules |-> 0]
    /\ host_active = [h \in Hosts |-> 0]
    /\ g_active_connections = 0
    /\ listener = "accept"
    /\ g_current_slot = None
    /\ pid = None
    /\ handler = "idle"
    /\ unscanned = {}
    /\ sigchld = FALSE
    /\ child = [p \in Pids |-> "none"]
    /\ args = [p \in Pids |-> None]
    /\ derived = "clean"

---------------------------------------------------------------------------
(* The accept loop. *)

AtLimit ==
    g_active_connections >= max_connections

(* At the limit the accepted connection is closed at once. *)
Refuse ==
    /\ listener = "accept" /\ handler = "idle"
    /\ AtLimit
    /\ UNCHANGED vars

(* accept() returned below the limit. *)
Accept ==
    /\ listener = "accept" /\ handler = "idle"
    /\ ~AtLimit
    /\ listener' = "claim"
    /\ UNCHANGED <<max_connections, table, counters, g_active_connections,
                   g_current_slot, pid, signal, child, args, derived>>

(* daemon_limits_claim_slot: the first FREE slot. *)
Claim ==
    /\ listener = "claim" /\ handler = "idle"
    /\ \E s \in Slots :
        /\ slot_state[s] = "FREE"
        /\ \A t \in Slots : t < s => slot_state[t] # "FREE"
        /\ slot_state' = [slot_state EXCEPT ![s] = "CLAIMED"]
        /\ slot_pid' = [slot_pid EXCEPT ![s] = None]
        /\ slot_module' = [slot_module EXCEPT ![s] = None]
        /\ slot_host' = [slot_host EXCEPT ![s] = None]
        /\ g_current_slot' = s
    /\ listener' = "fork"
    /\ UNCHANGED <<max_connections, counters, g_active_connections, pid, signal,
                   child, args, derived>>

(* Every slot is in use: the connection is refused. *)
ClaimFails ==
    /\ listener = "claim" /\ handler = "idle"
    /\ \A s \in Slots : slot_state[s] # "FREE"
    /\ listener' = "accept"
    /\ UNCHANGED <<max_connections, table, counters, g_active_connections,
                   g_current_slot, pid, signal, child, args, derived>>

(* SIGCHLD is blocked, then fork() makes a child that inherits the slot.   *)
(* Which module it will ask for, and from where, is the client's choice;   *)
(* a loopback peer has no bucket.                                          *)
Fork ==
    /\ listener = "fork" /\ handler = "idle"
    /\ \E p \in Pids, m \in Modules, h \in Hosts \cup {None} :
        /\ child[p] = "none"
        /\ child' = [child EXCEPT ![p] = "gate"]
        /\ args' = [args EXCEPT ![p] = [slot |-> g_current_slot, module |-> m, host |-> h]]
        /\ pid' = p
    /\ listener' = "forked"
    /\ UNCHANGED <<max_connections, table, counters, g_active_connections,
                   g_current_slot, signal, derived>>

(* fork() failed: the reservation is released. *)
ForkFails ==
    /\ listener = "fork" /\ handler = "idle"
    /\ slot_state' = [slot_state EXCEPT ![g_current_slot] = "FREE"]
    /\ slot_pid' = [slot_pid EXCEPT ![g_current_slot] = None]
    /\ listener' = "accept"
    /\ UNCHANGED <<max_connections, slot_module, slot_host, counters,
                   g_active_connections, g_current_slot, pid, signal, child, args, derived>>

(* The parent counts the child and records its pid, then unblocks SIGCHLD. *)
Forked ==
    /\ listener = "forked" /\ handler = "idle"
    /\ slot_pid' = [slot_pid EXCEPT ![g_current_slot] = pid]
    /\ g_active_connections' = g_active_connections + 1
    /\ listener' = "accept"
    /\ UNCHANGED <<max_connections, slot_state, slot_module, slot_host, counters,
                   g_current_slot, pid, signal, child, args, derived>>

Listener == Refuse \/ Accept \/ Claim \/ ClaimFails \/ Fork \/ ForkFails \/ Forked

---------------------------------------------------------------------------
(* daemon_limits_register, in the child.  The slot is always CLAIMED here. *)

InRecompute == handler \in {"zero", "scan"}

Step(p, from, to) ==
    /\ child[p] = from
    /\ child' = [child EXCEPT ![p] = to]

BadOverCap(count, cap) ==
    count > cap + 1

OverCap(count, cap) ==
    cap > 0 /\ count > cap

(* fetch_add on the module's counter; over the cap it is taken back. *)
RegisterModule(p) ==
    LET m == args[p].module
        count == module_active[m] + 1
    IN  /\ Step(p, "gate", IF OverCap(count, ModuleCap) THEN "module_full" ELSE "host")
        /\ module_active' = [module_active EXCEPT ![m] = count]
        /\ derived' = IF InRecompute THEN "raced" ELSE derived
        /\ UNCHANGED <<max_connections, table, host_active, parent, signal, args>>

ModuleFull(p) ==
    /\ Step(p, "module_full", "refused")
    /\ module_active' = [module_active EXCEPT ![args[p].module] = @ - 1]
    /\ UNCHANGED <<max_connections, table, host_active, parent, signal, args, derived>>

(* The same for the source's counter. *)
RegisterHost(p) ==
    LET h == args[p].host
        count == host_active[h] + 1
    IN  /\ child[p] = "host" /\ h # None
        /\ Step(p, "host", IF OverCap(count, HostCap) THEN "host_full" ELSE "publish")
        /\ host_active' = [host_active EXCEPT ![h] = count]
        /\ UNCHANGED <<max_connections, table, module_active, parent, signal, args, derived>>

(* A source without a bucket is not counted. *)
SkipHost(p) ==
    /\ Step(p, "host", "publish")
    /\ args[p].host = None
    /\ UNCHANGED <<max_connections, table, counters, parent, signal, args, derived>>

(* Over the per-source cap both increments are taken back, this one first. *)
HostFull(p) ==
    /\ Step(p, "host_full", "module_full")
    /\ host_active' = [host_active EXCEPT ![args[p].host] = @ - 1]
    /\ UNCHANGED <<max_connections, table, module_active, parent, signal, args, derived>>

(* The module and the bucket are stored before REGISTERED is released, and *)
(* read only after it is acquired.                                         *)
Publish(p) ==
    LET s == args[p].slot
    IN  /\ Step(p, "publish", "registered")
        /\ slot_module' = [slot_module EXCEPT ![s] = args[p].module]
        /\ slot_host' = [slot_host EXCEPT ![s] = args[p].host]
        /\ slot_state' = [slot_state EXCEPT ![s] = "REGISTERED"]
        /\ UNCHANGED <<max_connections, slot_pid, counters, parent, signal, args, derived>>

(* A child ends by itself or is killed, wherever it is. *)
Exit(p) ==
    /\ child[p] \notin {"none", "zombie"}
    /\ child' = [child EXCEPT ![p] = "zombie"]
    /\ sigchld' = TRUE
    /\ UNCHANGED <<max_connections, table, counters, parent, handler, unscanned, args, derived>>

Child(p) ==
    \/ RegisterModule(p) \/ ModuleFull(p) \/ RegisterHost(p) \/ SkipHost(p)
    \/ HostFull(p) \/ Publish(p) \/ Exit(p)

---------------------------------------------------------------------------
(* sigchld_handler, on the listener's thread. *)

BadBlocked == FALSE

(* SIGCHLD is blocked from before fork() until the pid is recorded. *)
Blocked == listener = "forked"

HandlerEnter ==
    /\ sigchld /\ handler = "idle" /\ ~Blocked
    /\ sigchld' = FALSE
    /\ handler' = "reap"
    /\ UNCHANGED <<max_connections, table, counters, parent, unscanned, child, args, derived>>

(* One dead child: the count goes down and daemon_limits_reclaim_pid frees *)
(* the slot with its pid, if there is one.                                 *)
Reap ==
    /\ handler = "reap"
    /\ \E p \in Pids :
        /\ child[p] = "zombie"
        /\ child' = [child EXCEPT ![p] = "none"]
        /\ args' = [args EXCEPT ![p] = None]
        /\ LET owned == {s \in Slots : slot_state[s] # "FREE" /\ slot_pid[s] = p}
           IN  /\ slot_state' = [s \in Slots |-> IF s \in owned THEN "FREE" ELSE slot_state[s]]
               /\ slot_pid' = [s \in Slots |-> IF s \in owned THEN None ELSE slot_pid[s]]
    /\ g_active_connections' = IF g_active_connections > 0 THEN g_active_connections - 1 ELSE 0
    /\ UNCHANGED <<max_connections, slot_module, slot_host, counters, listener,
                   g_current_slot, pid, signal, derived>>

BadNoneLeft ==
    TRUE

(* waitpid is called until it finds no dead child. *)
NoneLeft ==
    \A p \in Pids : child[p] # "zombie"

Zeroed(counter) ==
    [x \in DOMAIN counter |-> 0]

ScanRange ==
    Slots

(* daemon_limits_recompute zeroes the modules' counters, then those of the *)
(* sources.  A registration touches one counter of each array, so zeroing  *)
(* an array in one step loses no interleaving.                             *)
ZeroModules ==
    /\ handler = "reap" /\ NoneLeft
    /\ module_active' = Zeroed(module_active)
    /\ handler' = "zero"
    /\ derived' = IF \E p \in Pids : child[p] \in MidRegistration THEN "raced"
                  ELSE IF derived = "raced" THEN "healed" ELSE derived
    /\ UNCHANGED <<max_connections, table, host_active, parent, unscanned, sigchld, child, args>>

ZeroHosts ==
    /\ handler = "zero"
    /\ host_active' = Zeroed(host_active)
    /\ handler' = "scan"
    /\ unscanned' = ScanRange
    /\ UNCHANGED <<max_connections, table, module_active, parent, sigchld, child, args, derived>>

Counted(s) ==
    slot_state[s] = "REGISTERED"

(* The slots are read in order and the REGISTERED ones counted. *)
Scan ==
    /\ handler = "scan"
    /\ \E s \in unscanned :
        /\ \A t \in unscanned : s <= t
        /\ unscanned' = unscanned \ {s}
        /\ module_active' =
              [m \in Modules |-> module_active[m] +
                    IF Counted(s) /\ slot_module[s] = m THEN 1 ELSE 0]
        /\ host_active' =
              [h \in Hosts |-> host_active[h] +
                    IF Counted(s) /\ slot_host[s] = h THEN 1 ELSE 0]
        /\ handler' = IF unscanned = {s} THEN "idle" ELSE "scan"
    /\ UNCHANGED <<max_connections, table, parent, sigchld, child, args, derived>>

Handler == HandlerEnter \/ Reap \/ ZeroModules \/ ZeroHosts \/ Scan

---------------------------------------------------------------------------

Next ==
    \/ Listener
    \/ Handler
    \/ \E p \in Pids : Child(p)

Spec == Init /\ [][Next]_vars

(* The kernel delivers a pending signal, the handler runs to its end, and  *)
(* the listener, once it has forked, leaves the blocked section.  Nothing  *)
(* is assumed of the children, nor of connections arriving.                *)
Fairness == WF_vars(Handler) /\ WF_vars(Forked)

FairSpec == Spec /\ Fairness

---------------------------------------------------------------------------
(* Properties. *)

(* The type of every variable.  A counter may go below zero: a decrement   *)
(* can follow the zeroing of the increment it takes back.                  *)
TypeOK ==
    /\ max_connections \in ConnectionLimits
    /\ slot_state \in [Slots -> {"FREE", "CLAIMED", "REGISTERED"}]
    /\ slot_pid \in [Slots -> Pids \cup {None}]
    /\ slot_module \in [Slots -> Modules \cup {None}]
    /\ slot_host \in [Slots -> Hosts \cup {None}]
    /\ module_active \in [Modules -> Int]
    /\ host_active \in [Hosts -> Int]
    /\ g_active_connections \in Nat
    /\ listener \in {"accept", "claim", "fork", "forked"}
    /\ g_current_slot \in Slots \cup {None}
    /\ pid \in Pids \cup {None}
    /\ handler \in {"idle", "reap", "zero", "scan"}
    /\ unscanned \subseteq Slots
    /\ sigchld \in BOOLEAN
    /\ child \in [Pids -> MidRegistration \cup {"none", "gate", "refused", "registered", "zombie"}]
    /\ args \in [Pids -> {None} \cup [slot : Slots, module : Modules, host : Hosts \cup {None}]]
    /\ derived \in {"clean", "raced", "healed"}

Occupied == {s \in Slots : slot_state[s] # "FREE"}

RegisteredModule(m) == {s \in Slots : slot_state[s] = "REGISTERED" /\ slot_module[s] = m}
RegisteredHost(h) == {s \in Slots : slot_state[s] = "REGISTERED" /\ slot_host[s] = h}

WithinCaps ==
    /\ ModuleCap > 0 => \A m \in Modules : Cardinality(RegisteredModule(m)) <= ModuleCap
    /\ HostCap > 0 => \A h \in Hosts : Cardinality(RegisteredHost(h)) <= HostCap

(* While no recompute has overlapped a registration, concurrent            *)
(* registrations, refusals and children killed half-way never let more     *)
(* connections be REGISTERED than "max connections" of the module and      *)
(* "max connections per host" allow.                                       *)
CapsHeldUnlessRaced ==
    derived = "clean" => WithinCaps

(* Whatever children exit or are killed, and whenever SIGCHLD arrives, the *)
(* accept loop comes back to accept() with one occupied slot for each      *)
(* child not yet reaped, at most max_connections of them, each slot        *)
(* holding its child's pid, and g_active_connections counts them: no slot  *)
(* and no count leaks.                                                     *)
SlotsFollowChildren ==
    listener = "accept" =>
        /\ g_active_connections = Cardinality(Unreaped)
        /\ Cardinality(Unreaped) <= max_connections
        /\ Cardinality(Occupied) = Cardinality(Unreaped)
        /\ \A p \in Unreaped : slot_pid[args[p].slot] = p /\ args[p].slot \in Occupied

(* The registry is exact at rest: besides the slots, a count leaked by a   *)
(* child killed in mid-registration, or by an earlier overlap, does not    *)
(* persist: when the latest recompute overlapped no registration, every    *)
(* child is reaped and none is registering, the derived counters are the   *)
(* number of REGISTERED slots.                                             *)
RegistryHeals ==
    /\ SlotsFollowChildren
    /\ derived # "raced" /\ handler = "idle"
       /\ (\A p \in Pids : child[p] \notin MidRegistration \cup {"zombie"})
       =>  /\ \A m \in Modules : module_active[m] = Cardinality(RegisteredModule(m))
           /\ \A h \in Hosts : host_active[h] = Cardinality(RegisteredHost(h))

(* SIGCHLD does not queue, yet every dead child is reaped and so its slot  *)
(* comes back.                                                             *)
DeadChildrenReaped ==
    \A p \in Pids : child[p] = "zombie" ~> child[p] = "none"

===========================================================================
