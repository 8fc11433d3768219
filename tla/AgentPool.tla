------------------------------ MODULE AgentPool ------------------------------
(***************************************************************************)
(* `AgentPool` (pool.rs) and its use by the walkers: one pool of agent      *)
(* connections per host behind a tokio mutex, one slot per BecomeKey, each  *)
(* slot a mutex of its own around `Option<AgentConn>`.  A walker resolves   *)
(* the slot of a task (`resolve_target!`: its own host, or the one it      *)
(* delegates to) under the pool lock, lets go of the pool, and dispatches   *)
(* under the slot lock.  When its host has failed, `kill_all` takes the     *)
(* slot locks one by one while it holds the pool lock.                     *)
(***************************************************************************)
EXTENDS Naturals

CONSTANTS
  Hosts,   \* every host has a pool and a walker
  Keys,    \* BecomeKey: the EUIDs an agent may run under
  Rank,    \* key -> its place in the order of the pool's BTreeMap
  Login,   \* BecomeKey::None, whose slot is seeded by the connect phase
  Nobody,  \* a free lock
  MaxOps   \* bound: tasks dispatched by one walker

ASSUME PoolAssumption ==
  /\ Login \in Keys
  /\ Rank \in [Keys -> Nat]
  /\ \A j, k \in Keys : Rank[j] = Rank[k] => j = k
  /\ Nobody \notin Hosts
  /\ MaxOps \in Nat

VARIABLES
  poolLock,  \* who holds the mutex of a pool
  slots,     \* pool -> key -> "absent" | "live" | "dead" (the inner Option)
  slotLock,  \* pool -> key -> who holds the slot's mutex
  pc,        \* where a walker stands
  target,    \* the pool and key of the task it is at
  toKill,    \* the slots its kill_all has yet to visit
  ops,       \* tasks it has dispatched
  spawned    \* history: agents started per slot, the seeded one included

vars == <<poolLock, slots, slotLock, pc, target, toKill, ops, spawned>>

Init ==
  /\ poolLock = [p \in Hosts |-> Nobody]
  /\ slots = [p \in Hosts |-> [k \in Keys |-> IF k = Login THEN "live" ELSE "absent"]]
  /\ slotLock = [p \in Hosts |-> [k \in Keys |-> Nobody]]
  /\ pc = [w \in Hosts |-> "idle"]
  /\ target = [w \in Hosts |-> [pool |-> w, key |-> Login]]
  /\ toKill = [w \in Hosts |-> {}]
  /\ ops = [w \in Hosts |-> 0]
  /\ spawned = [p \in Hosts |-> [k \in Keys |-> IF k = Login THEN 1 ELSE 0]]

P(w) == target[w].pool
K(w) == target[w].key
Goto(w, l) == pc' = [pc EXCEPT ![w] = l]

-----------------------------------------------------------------------------
(* resolve_target! and get_or_spawn *)

\* The next task: its effective become and its `delegate_to:` name a slot.
Begin(w) ==
  /\ pc[w] = "idle" /\ ops[w] < MaxOps
  /\ \E p \in Hosts, k \in Keys : target' = [target EXCEPT ![w] = [pool |-> p, key |-> k]]
  /\ ops' = [ops EXCEPT ![w] = @ + 1]
  /\ Goto(w, "lockPool")
  /\ UNCHANGED <<poolLock, slots, slotLock, toKill, spawned>>

LockPool(w) ==
  /\ pc[w] = "lockPool" /\ poolLock[P(w)] = Nobody
  /\ poolLock' = [poolLock EXCEPT ![P(w)] = w]
  /\ Goto(w, "lookUp")
  /\ UNCHANGED <<slots, slotLock, target, toKill, ops, spawned>>

\* Mutant of LookUp: the pool is not locked while an agent is spawned.
LookUpUnlocked(w) ==
  /\ pc[w] = "lookUp"
  /\ poolLock' = [poolLock EXCEPT ![P(w)] = Nobody]
  /\ Goto(w, IF slots[P(w)][K(w)] # "absent" THEN "lockSlot" ELSE "spawn")
  /\ UNCHANGED <<slots, slotLock, target, toKill, ops, spawned>>

\* Mutant of LookUp: a dead agent counts as a missing one.
LookUpRespawns(w) ==
  /\ pc[w] = "lookUp"
  /\ IF slots[P(w)][K(w)] = "live"
       THEN /\ poolLock' = [poolLock EXCEPT ![P(w)] = Nobody]
            /\ Goto(w, "lockSlot")
       ELSE /\ Goto(w, "spawn")
            /\ UNCHANGED poolLock
  /\ UNCHANGED <<slots, slotLock, target, toKill, ops, spawned>>

\* A populated slot is shared, dead or alive; a missing one is spawned, with
\* the pool locked throughout.
LookUp(w) ==
  /\ pc[w] = "lookUp"
  /\ IF slots[P(w)][K(w)] # "absent"
       THEN /\ poolLock' = [poolLock EXCEPT ![P(w)] = Nobody]
            /\ Goto(w, "lockSlot")
       ELSE /\ Goto(w, "spawn")
            /\ UNCHANGED poolLock
  /\ UNCHANGED <<slots, slotLock, target, toKill, ops, spawned>>

SpawnSucceeds(w) ==
  /\ pc[w] = "spawn"
  /\ slots' = [slots EXCEPT ![P(w)][K(w)] = "live"]
  /\ spawned' = [spawned EXCEPT ![P(w)][K(w)] = @ + 1]
  /\ poolLock' = [poolLock EXCEPT ![P(w)] = Nobody]
  /\ Goto(w, "lockSlot")
  /\ UNCHANGED <<slotLock, target, toKill, ops>>

\* Mutant of SpawnFails: what is left in the slot is neither live nor dead.
SpawnLeavesDebris(w) ==
  /\ pc[w] = "spawn"
  /\ slots' = [slots EXCEPT ![P(w)][K(w)] = "failed"]
  /\ poolLock' = [poolLock EXCEPT ![P(w)] = Nobody]
  /\ Goto(w, "failed")
  /\ UNCHANGED <<slotLock, target, toKill, ops, spawned>>

\* The task fails without an agent; nothing is inserted.
SpawnFails(w) ==
  /\ pc[w] = "spawn"
  /\ poolLock' = [poolLock EXCEPT ![P(w)] = Nobody]
  /\ Goto(w, "failed")
  /\ UNCHANGED <<slots, slotLock, target, toKill, ops, spawned>>

-----------------------------------------------------------------------------
(* run_op_body *)

\* Mutant of LockSlot: the handle is used without its mutex.
UseUnlocked(w) ==
  /\ pc[w] = "lockSlot"
  /\ slotLock' = [slotLock EXCEPT ![P(w)][K(w)] = w]
  /\ Goto(w, "guarded")
  /\ UNCHANGED <<poolLock, slots, target, toKill, ops, spawned>>

LockSlot(w) ==
  /\ pc[w] = "lockSlot" /\ slotLock[P(w)][K(w)] = Nobody
  /\ slotLock' = [slotLock EXCEPT ![P(w)][K(w)] = w]
  /\ Goto(w, "guarded")
  /\ UNCHANGED <<poolLock, slots, target, toKill, ops, spawned>>

\* Mutant of SeeDead: the guard outlives the early return.
SeeDeadKeepsLock(w) ==
  /\ pc[w] = "guarded" /\ slots[P(w)][K(w)] = "dead"
  /\ Goto(w, IF P(w) = w THEN "broken" ELSE "failed")
  /\ UNCHANGED <<poolLock, slots, slotLock, target, toKill, ops, spawned>>

\* "agent conn is dead (host marked failed)": the connection counts as lost.
SeeDead(w) ==
  /\ pc[w] = "guarded" /\ slots[P(w)][K(w)] = "dead"
  /\ slotLock' = [slotLock EXCEPT ![P(w)][K(w)] = Nobody]
  /\ Goto(w, IF P(w) = w THEN "broken" ELSE "failed")
  /\ UNCHANGED <<poolLock, slots, target, toKill, ops, spawned>>

Dispatch(w) ==
  /\ pc[w] = "guarded" /\ slots[P(w)][K(w)] = "live"
  /\ Goto(w, "inOp")
  /\ UNCHANGED <<poolLock, slots, slotLock, target, toKill, ops, spawned>>

\* The agent answers, and the task is done or has another exchange to come, or the
\* exchange errors; only an error on the host's own connection counts against it.
OpEnds(w) ==
  /\ pc[w] = "inOp"
  /\ slotLock' = [slotLock EXCEPT ![P(w)][K(w)] = Nobody]
  /\ \E l \in {"idle", "lockSlot", "failed"} \cup (IF P(w) = w THEN {"broken"} ELSE {}) : Goto(w, l)
  /\ UNCHANGED <<poolLock, slots, target, toKill, ops, spawned>>

\* A task that needs no exchange after all.
Needless(w) ==
  /\ pc[w] = "lockSlot"
  /\ Goto(w, "idle")
  /\ UNCHANGED <<poolLock, slots, slotLock, target, toKill, ops, spawned>>

-----------------------------------------------------------------------------
(* kill_all: after a failure that is fatal for the host, or a lost connection *)

Shrug(w) ==
  /\ pc[w] = "failed"
  /\ Goto(w, "idle")
  /\ UNCHANGED <<poolLock, slots, slotLock, target, toKill, ops, spawned>>

GiveUp(w) ==
  /\ pc[w] \in {"failed", "broken"} /\ poolLock[w] = Nobody
  /\ poolLock' = [poolLock EXCEPT ![w] = w]
  /\ toKill' = [toKill EXCEPT ![w] = {k \in Keys : slots[w][k] # "absent"}]
  /\ Goto(w, "killing")
  /\ UNCHANGED <<slots, slotLock, target, ops, spawned>>

First(w, k) == k \in toKill[w] /\ \A j \in toKill[w] : Rank[k] <= Rank[j]

\* Mutant of KillSlot: the slot is emptied without taking its lock.
KillUnlocked(w) ==
  /\ pc[w] = "killing"
  /\ \E k \in Keys :
       /\ First(w, k)
       /\ slots' = [slots EXCEPT ![w][k] = "dead"]
       /\ toKill' = [toKill EXCEPT ![w] = @ \ {k}]
  /\ UNCHANGED <<poolLock, slotLock, pc, target, ops, spawned>>

\* Lock the next slot (waiting for an operation in flight), empty it, unlock.
KillSlot(w) ==
  /\ pc[w] = "killing"
  /\ \E k \in Keys :
       /\ First(w, k) /\ slotLock[w][k] = Nobody
       /\ slots' = [slots EXCEPT ![w][k] = "dead"]
       /\ toKill' = [toKill EXCEPT ![w] = @ \ {k}]
  /\ UNCHANGED <<poolLock, slotLock, pc, target, ops, spawned>>

Killed(w) ==
  /\ pc[w] = "killing" /\ toKill[w] = {}
  /\ poolLock' = [poolLock EXCEPT ![w] = Nobody]
  /\ Goto(w, "gone")
  /\ UNCHANGED <<slots, slotLock, target, toKill, ops, spawned>>

WalkerStep(w) ==
  \/ LockPool(w) \/ LookUp(w) \/ SpawnSucceeds(w) \/ SpawnFails(w)
  \/ LockSlot(w) \/ SeeDead(w) \/ Dispatch(w) \/ OpEnds(w) \/ Needless(w)
  \/ GiveUp(w) \/ Shrug(w) \/ KillSlot(w) \/ Killed(w)

Next == \E w \in Hosts : Begin(w) \/ WalkerStep(w)

SafeSpec == Init /\ [][Next]_vars

-----------------------------------------------------------------------------
(* Properties *)

Labels == {"idle", "lockPool", "lookUp", "spawn", "lockSlot", "guarded", "inOp",
           "failed", "broken", "killing", "gone"}

\* The types of the pools and of the walkers.
TypeOK ==
  /\ poolLock \in [Hosts -> Hosts \cup {Nobody}]
  /\ slots \in [Hosts -> [Keys -> {"absent", "live", "dead"}]]
  /\ slotLock \in [Hosts -> [Keys -> Hosts \cup {Nobody}]]
  /\ pc \in [Hosts -> Labels]
  /\ target \in [Hosts -> [pool : Hosts, key : Keys]]
  /\ toKill \in [Hosts -> SUBSET Keys]
  /\ ops \in [Hosts -> Nat]
  /\ spawned \in [Hosts -> [Keys -> Nat]]

\* Single flight: however many walkers delegate to a host at once, and
\* whatever dies in between, a slot gets at most one agent in a run.
OneAgentPerSlot == \A p \in Hosts, k \in Keys : spawned[p][k] <= 1

\* Two walkers never exchange frames with one agent at the same time: the
\* frames of two operations would mix on its channel.
Exclusive ==
  \A v, w \in Hosts : (v # w /\ pc[v] = "inOp" /\ pc[w] = "inOp") => target[v] # target[w]

\* `kill_all` waits for the operation in flight: no connection disappears
\* under the walker that is using it.
InFlightLive == \A w \in Hosts : pc[w] = "inOp" => slots[P(w)][K(w)] = "live"

\* The pool locks, the slot locks and delegation across hosts form no cycle:
\* every walker gets past the task it is at.
Progress == \A w \in Hosts : pc[w] # "idle" ~> pc[w] \in {"idle", "gone"}

\* A kill is whole and final: when `kill_all` is through, nothing in the pool of
\* its host is alive or in use, though other walkers may have been looking up,
\* spawning, waiting for or using its slots meanwhile; and a slot that was
\* emptied never gets an agent again, whoever asks for it.  It is what the code
\* has of "every future op (including delegate_to hops) sees a dead handle"
\* (pool.rs:255-257): a key the pool had not met before the kill is spawned
\* (pool.rs:135), and the next operation under it finds a live agent.
KillFinal ==
  [][\A p \in Hosts :
       /\ pc[p] = "killing" /\ pc'[p] = "gone" =>
            /\ \A k \in Keys : slots'[p][k] # "live"
            /\ \A w \in Hosts : pc'[w] = "inOp" => target'[w].pool # p
       /\ \A k \in Keys : slots[p][k] = "dead" => slots'[p][k] = "dead"]_vars

\* What the locks of a pool are for: one agent to a slot, one walker to an agent,
\* and no agent taken from under an operation.
PoolSafe == TypeOK /\ OneAgentPerSlot /\ Exclusive /\ InFlightLive
=============================================================================
