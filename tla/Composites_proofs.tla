-------------------------- MODULE Composites_proofs --------------------------
(***************************************************************************)
(* The pools and the bodies that use them, for every set of hosts and keys   *)
(* and every plan of tasks: single flight, exclusive use of a connection and *)
(* no kill under an operation; what AgentPool promises holds of bodies of    *)
(* several exchanges, a private key on a target is only ever replaced by a   *)
(* body that did not see it, and what a body reports and leaves behind is   *)
(* what its task asked for.                                                 *)
(***************************************************************************)
EXTENDS Composites, TLAPS

-----------------------------------------------------------------------------
(* The pools *)

\* Who looks up, spawns or kills holds the pool.
PoolHeld == \A w \in Hosts :
  /\ pc[w] \in {"lookUp", "spawn"} => poolLock[P(w)] = w
  /\ pc[w] = "killing" => poolLock[w] = w

\* What is alive in the pool of a host under `kill_all` is yet to be visited.
KillsAll == \A w \in Hosts, k \in Keys :
  pc[w] = "killing" /\ slots[w][k] = "live" => k \in toKill[w]

\* Who looks at a connection or uses it holds the slot.
SlotHeld == \A w \in Hosts : pc[w] \in {"guarded", "inOp"} => slotLock[P(w)][K(w)] = w

\* Who spawns does so for a slot that is missing.
SpawnsMissing == \A w \in Hosts : pc[w] = "spawn" => slots[P(w)][K(w)] = "absent"

\* A missing slot never had an agent.
MissingNeverSpawned ==
  \A p \in Hosts, k \in Keys : slots[p][k] = "absent" => spawned[p][k] = 0

\* The inductive invariant.
IInv == /\ TypeOK
        /\ PoolHeld /\ SlotHeld /\ KillsAll
        /\ SpawnsMissing /\ MissingNeverSpawned
        /\ OneAgentPerSlot /\ InFlightLive

-----------------------------------------------------------------------------
\* Every step keeps the types of the pools and of the walkers.
LEMMA Typing == TypeOK /\ [Next]_vars => TypeOK'
<1> SUFFICES ASSUME TypeOK, [Next]_vars PROVE TypeOK'
  OBVIOUS
<1> USE PoolAssumption DEF TypeOK, Labels, P, K, Goto
<1>1. ASSUME NEW w \in Hosts, Begin(w) PROVE TypeOK'
  BY <1>1 DEF Begin
<1>2. ASSUME NEW w \in Hosts, LockPool(w) PROVE TypeOK'
  BY <1>2 DEF LockPool
<1>3. ASSUME NEW w \in Hosts, LookUp(w) PROVE TypeOK'
  BY <1>3 DEF LookUp
<1>4. ASSUME NEW w \in Hosts, SpawnSucceeds(w) PROVE TypeOK'
  BY <1>4 DEF SpawnSucceeds
<1>5. ASSUME NEW w \in Hosts, SpawnFails(w) PROVE TypeOK'
  BY <1>5 DEF SpawnFails
<1>6. ASSUME NEW w \in Hosts, LockSlot(w) PROVE TypeOK'
  BY <1>6 DEF LockSlot
<1>7. ASSUME NEW w \in Hosts, SeeDead(w) PROVE TypeOK'
  BY <1>7 DEF SeeDead
<1>8. ASSUME NEW w \in Hosts, Dispatch(w) PROVE TypeOK'
  BY <1>8 DEF Dispatch
<1>9. ASSUME NEW w \in Hosts, OpEnds(w) PROVE TypeOK'
  BY <1>9 DEF OpEnds
<1>10. ASSUME NEW w \in Hosts, Shrug(w) PROVE TypeOK'
  BY <1>10 DEF Shrug
<1>11. ASSUME NEW w \in Hosts, GiveUp(w) PROVE TypeOK'
  BY <1>11 DEF GiveUp
<1>12. ASSUME NEW w \in Hosts, KillSlot(w) PROVE TypeOK'
  BY <1>12 DEF KillSlot, First
<1>13. ASSUME NEW w \in Hosts, Killed(w) PROVE TypeOK'
  BY <1>13 DEF Killed
<1>14. ASSUME NEW w \in Hosts, Needless(w) PROVE TypeOK'
  BY <1>14 DEF Needless
<1>15. CASE UNCHANGED vars
  BY <1>15 DEF vars
<1> QED
  BY <1>1, <1>2, <1>3, <1>4, <1>5, <1>6, <1>7, <1>8, <1>9, <1>10, <1>11, <1>12,
     <1>13, <1>14, <1>15 DEF Next, WalkerStep

\* The initial state satisfies the invariant.
LEMMA InitInv == Init => IInv
  BY PoolAssumption DEF Init, IInv, TypeOK, PoolHeld, SlotHeld, KillsAll, SpawnsMissing,
     MissingNeverSpawned, OneAgentPerSlot, InFlightLive, P, K, Labels

\* Every step preserves the invariant.
LEMMA StepInv == IInv /\ [Next]_vars => IInv'
<1> SUFFICES ASSUME IInv, [Next]_vars PROVE IInv'
  OBVIOUS
<1> USE PoolAssumption
<1>0. TypeOK /\ TypeOK'
  BY Typing DEF IInv
<1>a. /\ PoolHeld /\ SlotHeld /\ KillsAll /\ SpawnsMissing
      /\ MissingNeverSpawned /\ OneAgentPerSlot /\ InFlightLive
  BY DEF IInv
<1> SUFFICES /\ PoolHeld' /\ SlotHeld' /\ KillsAll' /\ SpawnsMissing'
             /\ MissingNeverSpawned' /\ OneAgentPerSlot' /\ InFlightLive'
  BY <1>0 DEF IInv
<1> USE <1>0, <1>a DEF TypeOK, PoolHeld, SlotHeld, KillsAll, SpawnsMissing, MissingNeverSpawned,
        OneAgentPerSlot, InFlightLive, P, K, Goto
<1> DEFINE PoolGoal == /\ PoolHeld' /\ SlotHeld' /\ KillsAll' /\ SpawnsMissing'
                       /\ MissingNeverSpawned' /\ OneAgentPerSlot' /\ InFlightLive'
<1>1. ASSUME NEW w \in Hosts, Begin(w) PROVE PoolGoal
  BY <1>1 DEF Begin
<1>2. ASSUME NEW w \in Hosts, LockPool(w) PROVE PoolGoal
  BY <1>2 DEF LockPool
<1>3. ASSUME NEW w \in Hosts, LookUp(w) PROVE PoolGoal
  <2>1. CASE slots[P(w)][K(w)] # "absent"
    <3>1. poolLock[P(w)] = w
      BY <1>3 DEF LookUp
    <3>2. \A v \in Hosts : v # w => pc'[v] = pc[v]
      BY <1>3, <2>1 DEF LookUp
    <3>3. PoolHeld'
      <4> SUFFICES ASSUME NEW v \in Hosts
                   PROVE  /\ pc'[v] \in {"lookUp", "spawn"} => poolLock'[target'[v].pool] = v
                          /\ pc'[v] = "killing" => poolLock'[v] = v
        OBVIOUS
      <4>1. CASE v = w
        BY <1>3, <2>1, <4>1 DEF LookUp
      <4>2. CASE v # w
        <5>1. pc'[v] = pc[v] /\ target' = target
          BY <1>3, <3>2, <4>2 DEF LookUp
        <5>2. ASSUME NEW q \in Hosts, poolLock[q] = v PROVE poolLock'[q] = v
          BY <1>3, <2>1, <3>1, <4>2, <5>2 DEF LookUp
        <5> QED
          BY <5>1, <5>2
      <4> QED
        BY <4>1, <4>2
    <3>4. /\ SlotHeld' /\ KillsAll' /\ SpawnsMissing' /\ MissingNeverSpawned'
          /\ OneAgentPerSlot' /\ InFlightLive'
      BY <1>3, <2>1, <3>2 DEF LookUp
    <3> QED
      BY <3>3, <3>4
  <2>2. CASE slots[P(w)][K(w)] = "absent"
    BY <1>3, <2>2 DEF LookUp
  <2> QED
    BY <2>1, <2>2
<1>4. ASSUME NEW w \in Hosts, SpawnSucceeds(w) PROVE PoolGoal
  BY <1>4 DEF SpawnSucceeds
<1>5. ASSUME NEW w \in Hosts, SpawnFails(w) PROVE PoolGoal
  BY <1>5 DEF SpawnFails
<1>6. ASSUME NEW w \in Hosts, LockSlot(w) PROVE PoolGoal
  BY <1>6 DEF LockSlot
<1>7. ASSUME NEW w \in Hosts, SeeDead(w) PROVE PoolGoal
  BY <1>7 DEF SeeDead
<1>8. ASSUME NEW w \in Hosts, Dispatch(w) PROVE PoolGoal
  BY <1>8 DEF Dispatch
<1>9. ASSUME NEW w \in Hosts, OpEnds(w) PROVE PoolGoal
  BY <1>9 DEF OpEnds
<1>10. ASSUME NEW w \in Hosts, Shrug(w) PROVE PoolGoal
  BY <1>10 DEF Shrug
<1>11. ASSUME NEW w \in Hosts, GiveUp(w) PROVE PoolGoal
  BY <1>11 DEF GiveUp
<1>12. ASSUME NEW w \in Hosts, KillSlot(w) PROVE PoolGoal
  BY <1>12 DEF KillSlot, First
<1>13. ASSUME NEW w \in Hosts, Killed(w) PROVE PoolGoal
  BY <1>13 DEF Killed
<1>14. ASSUME NEW w \in Hosts, Needless(w) PROVE PoolGoal
  BY <1>14 DEF Needless
<1>15. CASE UNCHANGED vars
  BY <1>15 DEF vars
<1> QED
  BY <1>1, <1>2, <1>3, <1>4, <1>5, <1>6, <1>7, <1>8, <1>9, <1>10, <1>11, <1>12,
     <1>13, <1>14, <1>15 DEF Next, WalkerStep

\* The invariant holds in every reachable state.
THEOREM Invariance == SafeSpec => []IInv
  BY InitInv, StepInv, PTL DEF SafeSpec

-----------------------------------------------------------------------------
\* The pools, their slots and the walkers keep their types, for any hosts and
\* keys.
THEOREM TypeCorrect == SafeSpec => []TypeOK
<1>1. IInv => TypeOK
  BY DEF IInv
<1> QED
  BY <1>1, Invariance, PTL

\* Single flight of get_or_spawn: a slot never gets a second agent.
THEOREM SingleFlight == SafeSpec => []OneAgentPerSlot
<1>1. IInv => OneAgentPerSlot
  BY DEF IInv
<1> QED
  BY <1>1, Invariance, PTL

\* Two walkers never exchange frames with one agent at the same time.
THEOREM ExclusiveUse == SafeSpec => []Exclusive
<1>1. IInv => Exclusive
  BY DEF IInv, SlotHeld, Exclusive, P, K
<1> QED
  BY <1>1, Invariance, PTL

\* kill_all never empties a slot under the walker that is using it.
THEOREM NoKillInFlight == SafeSpec => []InFlightLive
<1>1. IInv => InFlightLive
  BY DEF IInv
<1> QED
  BY <1>1, Invariance, PTL

\* A kill is whole and final: kill_all leaves nothing alive or in use behind, for
\* nobody spawns into a pool it holds, and who spawns later does so for a slot
\* that is missing, never for one that was emptied.
THEOREM KillIsFinal == SafeSpec => KillFinal
<1> DEFINE Whole(p) == pc[p] = "killing" /\ pc'[p] = "gone" =>
                         /\ \A k \in Keys : slots'[p][k] # "live"
                         /\ \A w \in Hosts : pc'[w] = "inOp" => target'[w].pool # p
           Final(p) == \A k \in Keys : slots[p][k] = "dead" => slots'[p][k] = "dead"
<1>1. ASSUME IInv, [Next]_vars, NEW p \in Hosts PROVE Whole(p)
  <2> SUFFICES ASSUME pc[p] = "killing", pc'[p] = "gone"
               PROVE  /\ \A k \in Keys : slots'[p][k] # "live"
                      /\ \A w \in Hosts : pc'[w] = "inOp" => target'[w].pool # p
    OBVIOUS
  <2>1. IInv'
    BY <1>1, StepInv
  <2>2. Killed(p)
    <3> USE <1>1 DEF IInv, TypeOK, Goto
    <3>1. PICK w \in Hosts : Begin(w) \/ WalkerStep(w)
      BY DEF Next, vars
    <3>2. w = p
      BY <3>1 DEF WalkerStep, Begin, LockPool, LookUp, SpawnSucceeds, SpawnFails, LockSlot,
         SeeDead, Dispatch, OpEnds, Needless, Shrug, GiveUp, KillSlot, Killed
    <3> QED
      BY <3>1, <3>2 DEF WalkerStep, Begin, LockPool, LookUp, SpawnSucceeds, SpawnFails, LockSlot,
         SeeDead, Dispatch, OpEnds, Needless, Shrug, GiveUp, KillSlot
  <2>3. \A k \in Keys : slots'[p][k] # "live"
    BY <1>1, <2>2 DEF Killed, IInv, KillsAll
  <2>4. \A w \in Hosts : pc'[w] = "inOp" => target'[w].pool # p
    BY <2>1, <2>3 DEF IInv, InFlightLive, TypeOK, P, K
  <2> QED
    BY <2>3, <2>4
<1>2. ASSUME IInv, [Next]_vars, NEW p \in Hosts PROVE Final(p)
  <2> SUFFICES ASSUME NEW k \in Keys, slots[p][k] = "dead" PROVE slots'[p][k] = "dead"
    OBVIOUS
  <2> USE <1>2 DEF IInv, TypeOK, P, K
  <2>1. CASE UNCHANGED slots
    BY <2>1
  <2>2. ASSUME NEW w \in Hosts, SpawnSucceeds(w) PROVE slots'[p][k] = "dead"
    BY <2>2 DEF SpawnSucceeds, SpawnsMissing
  <2>3. ASSUME NEW w \in Hosts, KillSlot(w) PROVE slots'[p][k] = "dead"
    BY <2>3 DEF KillSlot
  <2>4. \/ UNCHANGED slots
        \/ \E w \in Hosts : SpawnSucceeds(w) \/ KillSlot(w)
    BY DEF Next, vars, WalkerStep, Begin, LockPool, LookUp, SpawnFails, LockSlot, SeeDead,
           Dispatch, OpEnds, Needless, Shrug, GiveUp, Killed
  <2> QED
    BY <2>1, <2>2, <2>3, <2>4
<1>3. IInv /\ [Next]_vars =>
        [\A p \in Hosts :
           /\ pc[p] = "killing" /\ pc'[p] = "gone" =>
                /\ \A k \in Keys : slots'[p][k] # "live"
                /\ \A w \in Hosts : pc'[w] = "inOp" => target'[w].pool # p
           /\ \A k \in Keys : slots[p][k] = "dead" => slots'[p][k] = "dead"]_vars
  BY <1>1, <1>2
<1> QED
  BY <1>3, Invariance, PTL DEF SafeSpec, KillFinal

\* What the locks of a pool are for, together: for any number of hosts and keys, a
\* slot has one agent, an agent one user, and no user loses it under way.
THEOREM PoolSafety == SafeSpec => []PoolSafe
<1>1. TypeOK /\ OneAgentPerSlot /\ Exclusive /\ InFlightLive <=> PoolSafe
  BY DEF PoolSafe
<1> QED
  BY <1>1, TypeCorrect, SingleFlight, ExclusiveUse, NoKillInFlight, PTL

-----------------------------------------------------------------------------
(* Bodies use the pools as AgentPool has it *)

\* Giving up the slot after an exchange is the end of an operation.
LEMMA ReleaseEndsOp ==
  ASSUME NEW w \in Hosts, pc[w] = "inOp", NEW l, Released(w, l),
         l \in {"idle", "lockSlot", "failed"} \/ (l = "broken" /\ P(w) = w)
  PROVE  OpEnds(w)
BY DEF Released, OpEnds

\* Every step of a body is a step of its walker in AgentPool, or none.
LEMMA PoolStepping == [CompositeNext]_<<vars, bodies>> => [Next]_vars
<1> SUFFICES ASSUME [CompositeNext]_<<vars, bodies>> PROVE [Next]_vars
  OBVIOUS
<1>1. CASE UNCHANGED <<vars, bodies>>
  BY <1>1
<1>2. ASSUME NEW w \in Hosts, BeginTask(w) PROVE Next
  BY <1>2 DEF BeginTask, Next
<1>3. ASSUME NEW w \in Hosts, PoolStep(w) PROVE Next
  BY <1>3 DEF PoolStep, Next, WalkerStep
<1>4. ASSUME NEW w \in Hosts, Enter(w) PROVE [Next]_vars
  <2>1. \/ Needless(w)
        \/ UNCHANGED vars
    BY <1>4 DEF Enter, Needless, vars
  <2> QED
    BY <2>1 DEF Next, WalkerStep
<1>5. ASSUME NEW w \in Hosts, ProbeEnds(w) PROVE OpEnds(w)
  <2>1. PICK l \in {"idle", "lockSlot", "failed"} : Released(w, l)
    BY <1>5 DEF ProbeEnds, Settled
  <2> QED
    BY <1>5, <2>1, ReleaseEndsOp DEF ProbeEnds
<1>6. ASSUME NEW w \in Hosts, ActEnds(w) PROVE OpEnds(w)
  <2>1. PICK l \in {"idle", "lockSlot"} : Released(w, l)
    BY <1>6 DEF ActEnds, Settled
  <2> QED
    BY <1>6, <2>1, ReleaseEndsOp DEF ActEnds
<1>7. ASSUME NEW w \in Hosts, ExchangeFails(w) PROVE OpEnds(w)
  BY <1>7, ReleaseEndsOp DEF ExchangeFails
<1>8. ASSUME NEW w \in Hosts, ExchangeBreaks(w) PROVE OpEnds(w)
  <2>1. pc[w] = "inOp" /\ Released(w, IF P(w) = w THEN "broken" ELSE "failed")
    BY <1>8 DEF ExchangeBreaks
  <2> QED
    BY <2>1, ReleaseEndsOp
<1>9. ASSUME NEW w \in Hosts, DeadEnds(w) \/ NoAgent(w) \/ PlainEnds(w) PROVE Next
  BY <1>9 DEF DeadEnds, NoAgent, PlainEnds, Next, WalkerStep
<1>10. ASSUME NEW w \in Hosts, OpEnds(w) PROVE Next
  BY <1>10 DEF Next, WalkerStep
<1> QED
  BY <1>1, <1>2, <1>3, <1>4, <1>5, <1>6, <1>7, <1>8, <1>9, <1>10 DEF CompositeNext, BodyStep

\* Bodies of several exchanges implement the walkers of AgentPool: each exchange
\* locks and releases its slot, with any number of them in a task.
THEOREM BodiesUsePool == SafeCompositeSpec => PoolRespected
<1>1. CompositeInit => Init
  BY DEF CompositeInit
<1> QED
  BY <1>1, PoolStepping, PTL DEF SafeCompositeSpec, PoolRespected, SafeSpec

\* Single flight, exclusive use and no kill under an operation hold of bodies of
\* several exchanges as well.
THEOREM BodiesSafe == SafeCompositeSpec => []PoolSafe
  BY BodiesUsePool, PoolSafety, PTL DEF PoolRespected

-----------------------------------------------------------------------------
(* Which key survives *)

Fields == {"stage", "left", "seen", "changed", "base", "alone"}

\* Every walker has a body and every target a place for a key.
Shaped ==
  /\ body = [w \in Hosts |-> body[w]]
  /\ machine = [p \in Hosts |-> machine[p]]
  /\ \A w \in Hosts : Fields \subseteq DOMAIN body[w]
  /\ \A p \in Hosts : "key" \in DOMAIN machine[p]

\* A body that counts as alone has no other one beside it.
Solitary == \A v, w \in Hosts : (v # w /\ InBody(v) /\ body[v].alone) => ~InBody(w)

\* What a body saw before it acts still stands if it is alone, and a body that
\* writes a key after a probe saw none.
SeenStands ==
  \A w \in Hosts :
    (body[w].stage = "act" /\ body[w].seen # Unseen) =>
      /\ body[w].alone => Machine(w) = body[w].seen
      /\ Task(w).kind = "key" => body[w].seen.key = NoKey

KeyInv == TypeOK /\ Shaped /\ Solitary /\ SeenStands

\* What an act does to a key: only a key task that knows of none writes one.
LEMMA ActedKey ==
  ASSUME NEW w \in Hosts, NEW m, "key" \in DOMAIN m, m.key # NoKey,
         Acted(w, m).key # m.key
  PROVE  Task(w).kind = "key" /\ body[w].seen # Unseen
<1> DEFINE t == Task(w)
           pair == IF t.kind = "member" THEN Head(body[w].left) ELSE <<>>
<1>1. CASE t.kind = "marker"
  BY <1>1 DEF Acted
<1>2. CASE t.kind = "key"
  BY <1>2 DEF Acted, KeyWritten
<1>3. CASE t.kind = "role"
  BY <1>3 DEF Acted, Role
<1>4. CASE t.kind = "member"
  BY <1>4 DEF Acted, Granted
<1>5. CASE t.kind = "db"
  BY <1>5 DEF Acted, Database
<1>6. CASE t.kind \notin {"marker", "key", "role", "member", "db"}
  BY <1>6 DEF Acted
<1> QED
  BY <1>1, <1>2, <1>3, <1>4, <1>5, <1>6

\* No act takes the place of the key away.
LEMMA ActedShape ==
  ASSUME NEW w \in Hosts, NEW m, "key" \in DOMAIN m
  PROVE  "key" \in DOMAIN Acted(w, m)
<1> DEFINE t == Task(w)
<1>1. CASE t.kind = "marker"
  BY <1>1 DEF Acted
<1>2. CASE t.kind = "key"
  BY <1>2 DEF Acted, KeyWritten
<1>3. CASE t.kind = "role"
  BY <1>3 DEF Acted, Role
<1>4. CASE t.kind = "member"
  BY <1>4 DEF Acted, Granted
<1>5. CASE t.kind = "db"
  BY <1>5 DEF Acted, Database
<1>6. CASE t.kind \notin {"marker", "key", "role", "member", "db"}
  BY <1>6 DEF Acted
<1> QED
  BY <1>1, <1>2, <1>3, <1>4, <1>5, <1>6

Acts(w) == body[w].stage = "act" /\ machine' = [machine EXCEPT ![P(w)] = Acted(w, machine[P(w)])]

KeyParts == Shaped /\ Solitary /\ SeenStands

\* A walker that goes on with its body short of an act, or ends it, after an act or
\* without one, disturbs no other body that is alone.
LEMMA Rests ==
  ASSUME KeyParts, TypeOK, NEW w \in Hosts, NEW b,
         body' = [body EXCEPT ![w] = b], Fields \subseteq DOMAIN b, b.stage # "act",
         b.stage \notin {"idle", "new"} => InBody(w) /\ b.alone = body[w].alone,
         UNCHANGED <<target, ops, work>>, UNCHANGED machine \/ Acts(w)
  PROVE  KeyParts'
<1> USE DEF KeyParts
<1>1. P(w) \in Hosts
  BY DEF TypeOK, P
<1>2. body'[w] = b /\ \A v \in Hosts \ {w} : body'[v] = body[v]
  BY DEF Shaped
<1>3. Shaped'
  <2>1. body' = [v \in Hosts |-> body'[v]] /\ \A v \in Hosts : Fields \subseteq DOMAIN body'[v]
    BY <1>2 DEF Shaped
  <2>2. CASE UNCHANGED machine
    BY <2>1, <2>2 DEF Shaped
  <2>3. CASE Acts(w)
    BY <1>1, <2>1, <2>3, ActedShape DEF Shaped, Acts
  <2> QED
    BY <2>2, <2>3
<1>4. \A v \in Hosts : InBody(v)' => InBody(v) /\ body'[v].alone = body[v].alone
  BY <1>2 DEF InBody
<1>5. Solitary'
  BY <1>4 DEF Solitary
<1>6. ASSUME NEW v \in Hosts, body'[v].stage = "act", body'[v].seen # Unseen
      PROVE  /\ body'[v].alone => Machine(v)' = body'[v].seen
             /\ Task(v)' .kind = "key" => body'[v].seen.key = NoKey
  <2>1. v # w /\ body'[v] = body[v] /\ Task(v)' = Task(v) /\ P(v)' = P(v)
    BY <1>2, <1>6 DEF Task, P
  <2>2. Task(v)' .kind = "key" => body'[v].seen.key = NoKey
    BY <1>6, <2>1 DEF SeenStands
  <2>3. ASSUME body'[v].alone PROVE UNCHANGED machine
    <3>1. InBody(v)
      BY <1>6, <2>1 DEF InBody
    <3>2. ~InBody(w)
      BY <2>1, <2>3, <3>1 DEF Solitary
    <3> QED
      BY <3>2 DEF Acts, InBody
  <2> QED
    BY <1>6, <2>1, <2>2, <2>3 DEF SeenStands, Machine
<1> QED
  BY <1>3, <1>5, <1>6 DEF SeenStands

\* So does a walker whose body is over.
LEMMA Leaves ==
  ASSUME KeyParts, TypeOK, NEW w \in Hosts, body' = [body EXCEPT ![w] = NoBody],
         UNCHANGED <<target, ops, work>>, UNCHANGED machine \/ Acts(w)
  PROVE  KeyParts'
<1>1. NoBody.stage = "idle" /\ Fields \subseteq DOMAIN NoBody
  BY DEF NoBody, Fields
<1> QED
  BY <1>1, Rests

\* Every step of every body keeps the invariant.
LEMMA KeyStep == KeyInv /\ [CompositeNext]_<<vars, bodies>> => KeyInv'
<1> SUFFICES ASSUME KeyInv, [CompositeNext]_<<vars, bodies>> PROVE KeyInv'
  OBVIOUS
<1>1. TypeOK /\ TypeOK' /\ KeyParts
  BY PoolStepping, Typing DEF KeyInv, KeyParts
<1> DEFINE KeyGoal == KeyParts'
<1>2. ASSUME UNCHANGED <<body, machine, target, ops, work>> PROVE KeyGoal
  BY <1>1, <1>2 DEF KeyParts, Shaped, Solitary, SeenStands, InBody, Machine, Task, P
<1>3. ASSUME UNCHANGED <<vars, bodies>> PROVE KeyGoal
  <2>1. UNCHANGED vars /\ UNCHANGED bodies
    BY <1>3
  <2>2. UNCHANGED <<body, machine, target, ops, work>>
    BY <2>1 DEF vars, bodies
  <2> QED
    BY <1>2, <2>2
<1>4. ASSUME NEW w \in Hosts, PoolStep(w) PROVE KeyGoal
  BY <1>2, <1>4 DEF PoolStep, bodies, LockPool, LookUp, SpawnSucceeds, LockSlot, Dispatch,
     GiveUp, Shrug, KillSlot, Killed
<1>5. ASSUME NEW w \in Hosts, BeginTask(w) PROVE KeyGoal
  <2>1. /\ body' = [body EXCEPT ![w] = [body[w] EXCEPT !.stage = "new"]]
        /\ UNCHANGED <<machine, work>>
        /\ \A v \in Hosts \ {w} : target'[v] = target[v] /\ ops'[v] = ops[v]
    BY <1>1, <1>5 DEF BeginTask, Begin, TypeOK
  <2>2. /\ body'[w].stage = "new" /\ Fields \subseteq DOMAIN body'[w]
        /\ \A v \in Hosts \ {w} : body'[v] = body[v]
    BY <1>1, <2>1 DEF KeyParts, Shaped, Fields
  <2>3. Shaped'
    BY <1>1, <2>1, <2>2 DEF KeyParts, Shaped
  <2>4. Solitary'
    BY <1>1, <2>2 DEF KeyParts, Solitary, InBody
  <2>5. SeenStands'
    BY <1>1, <2>1, <2>2 DEF KeyParts, SeenStands, Machine, Task, P
  <2> QED
    BY <2>3, <2>4, <2>5 DEF KeyParts
<1>6. ASSUME NEW w \in Hosts, Enter(w) PROVE KeyGoal
  <2> DEFINE others == {v \in Hosts \ {w} : InBody(v)}
             closed == [stage |-> IF Task(w).kind = "plain" THEN "plain"
                                  ELSE IF Probes(Task(w)) THEN "probe" ELSE "act",
                        left |-> IF Task(w).kind = "member" THEN Task(w).pairs ELSE <<>>,
                        seen |-> Unseen, changed |-> FALSE, base |-> Machine(w),
                        alone |-> others = {}]
  <2>1. UNCHANGED <<machine, target, ops, work>>
    BY <1>6 DEF Enter
  <2>2. CASE body' = [body EXCEPT ![w] = NoBody]
    BY <1>1, <2>1, <2>2, Leaves
  <2>3. CASE body' = [v \in Hosts |-> IF v = w THEN closed
                        ELSE IF v \in others THEN [body[v] EXCEPT !.alone = FALSE] ELSE body[v]]
    <3>1. /\ body'[w] = closed
          /\ \A v \in others : body'[v] = [body[v] EXCEPT !.alone = FALSE]
          /\ \A v \in Hosts \ {w} : v \notin others => body'[v] = body[v]
      BY <2>3
    <3>2. /\ closed.seen = Unseen /\ Fields \subseteq DOMAIN closed
          /\ closed.alone => others = {}
      BY DEF Fields
    <3>3. \A v \in others : /\ body'[v].stage = body[v].stage /\ body'[v].seen = body[v].seen
                            /\ ~body'[v].alone /\ DOMAIN body'[v] = DOMAIN body[v]
      BY <1>1, <3>1 DEF KeyParts, Shaped, Fields
    <3>4. Shaped'
      BY <1>1, <2>1, <2>3, <3>1, <3>2, <3>3 DEF KeyParts, Shaped
    <3>5. Solitary'
      <4> SUFFICES ASSUME NEW v \in Hosts, NEW u \in Hosts, v # u, InBody(v)', body'[v].alone
                   PROVE  ~InBody(u)'
        BY DEF Solitary
      <4>1. CASE v = w
        BY <3>1, <3>2, <4>1 DEF InBody
      <4>2. CASE v # w
        BY <3>1, <3>3, <4>2 DEF InBody
      <4> QED
        BY <4>1, <4>2
    <3>6. SeenStands'
      <4> SUFFICES ASSUME NEW v \in Hosts, body'[v].stage = "act", body'[v].seen # Unseen
                   PROVE  /\ body'[v].alone => Machine(v)' = body'[v].seen
                          /\ Task(v)' .kind = "key" => body'[v].seen.key = NoKey
        BY DEF SeenStands
      <4>1. v # w
        BY <3>1, <3>2
      <4>2. Machine(v)' = Machine(v) /\ Task(v)' = Task(v)
        BY <2>1 DEF Machine, Task, P
      <4>3. CASE v \in others
        BY <1>1, <3>3, <4>2, <4>3 DEF KeyParts, SeenStands
      <4>4. CASE v \notin others
        BY <1>1, <3>1, <4>1, <4>2, <4>4 DEF KeyParts, SeenStands
      <4> QED
        BY <4>3, <4>4
    <3> QED
      BY <3>4, <3>5, <3>6 DEF KeyParts
  <2>4. CASE Task(w).kind = "csr" /\ pem[w] # NoKey
    BY <1>6, <2>2, <2>4 DEF Enter
  <2>5. CASE ~(Task(w).kind = "csr" /\ pem[w] # NoKey)
    BY <1>6, <2>3, <2>5 DEF Enter
  <2> QED
    BY <2>4, <2>5
<1>7. ASSUME NEW w \in Hosts, ProbeEnds(w) PROVE KeyGoal
  <2> DEFINE t == Task(w)
             d == Decision(t, IF t.kind = "member" THEN Head(body[w].left) ELSE <<>>, Machine(w))
  <2>1. body[w].stage = "probe" /\ InBody(w) /\ Fields \subseteq DOMAIN body[w]
    BY <1>1, <1>7 DEF ProbeEnds, InBody, KeyParts, Shaped
  <2>2. UNCHANGED <<target, ops, work, machine>>
    BY <1>7 DEF ProbeEnds, Settled, Released
  <2>3. CASE body' = [body EXCEPT ![w] = NoBody]
    BY <1>1, <2>2, <2>3, Leaves
  <2>4. ASSUME NEW c, body' = [body EXCEPT ![w] = [body[w] EXCEPT
                          !.stage = "probe", !.changed = c, !.left = Tail(body[w].left)]]
        PROVE  KeyGoal
    <3> DEFINE b == [body[w] EXCEPT !.stage = "probe", !.changed = c, !.left = Tail(body[w].left)]
    <3>1. Fields \subseteq DOMAIN b /\ b.stage = "probe" /\ b.alone = body[w].alone
      BY <2>1 DEF Fields
    <3>2. body' = [body EXCEPT ![w] = b]
      BY <2>4
    <3> HIDE DEF b
    <3> QED
      BY <1>1, <2>1, <2>2, <3>1, <3>2, Rests
  <2>5. ASSUME d = "act",
               body' = [body EXCEPT ![w] = [body[w] EXCEPT !.stage = "act", !.seen = Machine(w)]]
        PROVE  KeyGoal
    <3>1. /\ body'[w].stage = "act" /\ body'[w].seen = Machine(w)
          /\ body'[w].alone = body[w].alone /\ Fields \subseteq DOMAIN body'[w]
          /\ \A v \in Hosts \ {w} : body'[v] = body[v]
      BY <1>1, <2>1, <2>5 DEF KeyParts, Shaped, Fields
    <3>2. \A v \in Hosts : Machine(v)' = Machine(v) /\ Task(v)' = Task(v)
      BY <2>2 DEF Machine, Task, P
    <3>3. t.kind = "key" => Machine(w).key = NoKey
      BY <2>5 DEF Decision
    <3>4. Shaped'
      BY <1>1, <2>2, <2>5, <3>1 DEF KeyParts, Shaped
    <3>5. Solitary'
      BY <1>1, <2>1, <3>1 DEF KeyParts, Solitary, InBody
    <3>6. SeenStands'
      BY <1>1, <3>1, <3>2, <3>3 DEF KeyParts, SeenStands
    <3> QED
      BY <3>4, <3>5, <3>6 DEF KeyParts
  <2> QED
    BY <1>7, <2>3, <2>4, <2>5 DEF ProbeEnds, Settled, Ended
<1>8. ASSUME NEW w \in Hosts, ActEnds(w) PROVE KeyGoal
  <2>1. /\ body[w].stage = "act" /\ InBody(w) /\ Fields \subseteq DOMAIN body[w]
        /\ Acts(w) /\ UNCHANGED <<target, ops, work>>
    BY <1>1, <1>8 DEF ActEnds, Acts, Machine, InBody, KeyParts, Shaped, Settled, Released
  <2>2. CASE body' = [body EXCEPT ![w] = NoBody]
    BY <1>1, <2>1, <2>2, Leaves
  <2>3. ASSUME NEW c, body' = [body EXCEPT ![w] = [body[w] EXCEPT
                          !.stage = "probe", !.changed = c, !.left = Tail(body[w].left)]]
        PROVE  KeyGoal
    <3> DEFINE b == [body[w] EXCEPT !.stage = "probe", !.changed = c, !.left = Tail(body[w].left)]
    <3>1. Fields \subseteq DOMAIN b /\ b.stage = "probe" /\ b.alone = body[w].alone
      BY <2>1 DEF Fields
    <3>2. body' = [body EXCEPT ![w] = b]
      BY <2>3
    <3> HIDE DEF b
    <3> QED
      BY <1>1, <2>1, <3>1, <3>2, Rests
  <2> QED
    BY <1>8, <2>2, <2>3 DEF ActEnds, Settled
<1>9. ASSUME NEW w \in Hosts, ExchangeFails(w) \/ ExchangeBreaks(w) PROVE KeyGoal
  <2>1. /\ UNCHANGED <<target, ops, work>> /\ body' = [body EXCEPT ![w] = NoBody]
        /\ UNCHANGED machine \/ Acts(w)
    BY <1>9 DEF ExchangeFails, ExchangeBreaks, Acts, Ended, Released
  <2> QED
    BY <1>1, <2>1, Leaves
<1>10. ASSUME NEW w \in Hosts, DeadEnds(w) \/ NoAgent(w) PROVE KeyGoal
  <2>1. /\ UNCHANGED <<target, ops, work, machine>> /\ body' = [body EXCEPT ![w] = NoBody]
    BY <1>10 DEF DeadEnds, NoAgent, Ended, SeeDead, SpawnFails
  <2> QED
    BY <1>1, <2>1, Leaves
<1>11. ASSUME NEW w \in Hosts, PlainEnds(w) PROVE KeyGoal
  <2>1. /\ UNCHANGED <<target, ops, work, machine>> /\ body' = [body EXCEPT ![w] = NoBody]
    BY <1>11 DEF PlainEnds, OpEnds
  <2> QED
    BY <1>1, <2>1, Leaves
<1> QED
  BY <1>1, <1>3, <1>4, <1>5, <1>6, <1>7, <1>8, <1>9, <1>10, <1>11
     DEF CompositeNext, BodyStep, KeyInv, KeyParts

LEMMA KeyInit == CompositeInit => KeyInv
<1> SUFFICES ASSUME CompositeInit PROVE KeyInv
  OBVIOUS
<1>1. TypeOK
  BY InitInv DEF CompositeInit, IInv
<1>2. PICK plan \in Plans : machine = plan.machine
  BY DEF CompositeInit
<1>3. Shaped
  <2>1. body = [w \in Hosts |-> NoBody]
    BY DEF CompositeInit
  <2>2. \A w \in Hosts : Fields \subseteq DOMAIN body[w]
    BY <2>1 DEF NoBody, Fields
  <2>3. \A p \in Hosts : IsMachine(machine[p])
    BY <1>2, PlansAssumption
  <2>4. ASSUME NEW m, IsMachine(m) PROVE "key" \in DOMAIN m
    <3> DEFINE r == [marker |-> m.marker, key |-> m.key, roles |-> m.roles, attrs |-> m.attrs,
                     members |-> m.members, db |-> m.db]
    <3>1. "key" \in DOMAIN r
      OBVIOUS
    <3>2. m = r
      BY <2>4 DEF IsMachine
    <3> QED
      BY <3>1, <3>2
  <2>5. \A p \in Hosts : "key" \in DOMAIN machine[p]
    BY <2>3, <2>4
  <2> QED
    BY <1>2, <2>1, <2>2, <2>5, PlansAssumption DEF Shaped
<1>4. Solitary /\ SeenStands
  BY DEF CompositeInit, Solitary, SeenStands, InBody, NoBody
<1> QED
  BY <1>1, <1>3, <1>4 DEF KeyInv

\* The invariant holds in every reachable state.
LEMMA KeyInvariance == SafeCompositeSpec => []KeyInv
BY KeyInit, KeyStep, PTL DEF SafeCompositeSpec

\* A private key in use on a target is replaced only by a body that had probed,
\* found none, and was not alone with the target: without another body beside it
\* `openssl_privatekey` never takes a key away.
THEOREM KeysSurvive == SafeCompositeSpec => KeyKept
<1> DEFINE Kept == \A p \in Hosts :
             (machine[p].key # NoKey /\ machine'[p].key # machine[p].key) =>
               \E w \in Hosts : /\ P(w) = p /\ body[w].stage = "act" /\ ~body[w].alone
                                /\ body[w].seen # Unseen /\ body[w].seen.key = NoKey
<1>1. KeyInv /\ [CompositeNext]_<<vars, bodies>> => [Kept]_<<vars, bodies>>
  <2> SUFFICES ASSUME KeyInv, CompositeNext, NEW p \in Hosts,
                      machine[p].key # NoKey, machine'[p].key # machine[p].key
               PROVE  \E w \in Hosts :
                        /\ P(w) = p /\ body[w].stage = "act" /\ ~body[w].alone
                        /\ body[w].seen # Unseen /\ body[w].seen.key = NoKey
    OBVIOUS
  <2>1. PICK w \in Hosts : Acts(w)
    BY DEF CompositeNext, BodyStep, BeginTask, PoolStep, bodies, Enter, ProbeEnds, ActEnds,
       ExchangeFails, ExchangeBreaks, DeadEnds, NoAgent, PlainEnds, Acts, Machine
  <2>2. P(w) = p /\ Acted(w, machine[p]).key # machine[p].key /\ "key" \in DOMAIN machine[p]
    BY <2>1 DEF KeyInv, Shaped, Acts
  <2>3. Task(w).kind = "key" /\ body[w].seen # Unseen
    BY <2>2, ActedKey
  <2>4. body[w].seen.key = NoKey /\ ~body[w].alone
    BY <2>1, <2>2, <2>3 DEF KeyInv, SeenStands, Acts, Machine
  <2> QED
    BY <2>1, <2>2, <2>3, <2>4 DEF Acts
<1> QED
  BY <1>1, KeyInvariance, PTL DEF SafeCompositeSpec, KeyKept

-----------------------------------------------------------------------------
(* What bodies leave behind and report: the invariant *)

\* Work is what the plan made it, and a target stays one.
Planned ==
  /\ work = [w \in Hosts |-> work[w]]
  /\ \A w \in Hosts : IsSequence(work[w]) /\ \A i \in DOMAIN work[w] : IsTask(work[w][i])
  /\ \A p \in Hosts : IsMachine(machine[p])

\* Every walker has a key of its own, or none, and a record of its bodies.
Recorded ==
  /\ pem = [w \in Hosts |-> pem[w]] /\ log = [w \in Hosts |-> log[w]]
  /\ \A w \in Hosts : IsSequence(log[w]) /\ (pem[w] = NoKey \/ Len(pem[w]) = 2)

Exchanging == {"lockSlot", "guarded", "inOp"}

\* Who is at a task is at one of its plan, on the target it names, and has not
\* recorded it yet; a body is at its slot.
AtTask ==
  \A w \in Hosts : body[w].stage # "idle" =>
    /\ Len(log[w]) < ops[w]
    /\ work[w] # <<>> => ops[w] \in DOMAIN work[w] /\ P(w) = Task(w).on
    /\ InBody(w) => pc[w] \in Exchanging

\* A body that exchanges, and how many of its pairs it has settled.
Underway(w) == body[w].stage \in {"probe", "act"}
SoFar(w) == Len(Task(w).pairs) - Len(body[w].left)

\* What is left to a body are the last of its pairs; it acts on what a probe found to
\* need it, or, with a key, perhaps without a probe.
Ahead(w) ==
  IF Task(w).kind = "member"
    THEN /\ IsSequence(body[w].left) /\ Len(body[w].left) \in 1 .. Len(Task(w).pairs)
         /\ \A i \in 1 .. Len(body[w].left) : body[w].left[i] = Task(w).pairs[SoFar(w) + i]
    ELSE body[w].left = <<>> /\ body[w].changed = FALSE
Meant(w) ==
  /\ Task(w).check => Task(w).kind = "marker"
  /\ \/ Task(w).kind = "key"
     \/ IsMachine(body[w].seen) /\ Decision(Task(w), Pair(w), body[w].seen) = "act"
InTurn ==
  \A w \in Hosts : Underway(w) =>
    work[w] # <<>> /\ Ahead(w) /\ (body[w].stage = "act" => Meant(w))

\* A body that places a key, and the record of one that did.
Placing(w) == Underway(w) /\ Task(w).kind = "key"
Placed(e) ==
  e.task.kind = "key" /\ e.result = "ok" /\ e.changed /\ ~e.task.check

\* The context's key: there while one is placed, not while one is read, from a body
\* for a key or a request, and the one that was placed last.
Held(w) ==
  /\ Placing(w) => pem[w] # NoKey
  /\ (Underway(w) /\ Task(w).kind = "csr") => pem[w] = NoKey
  /\ pem[w] # NoKey => \/ Placing(w)
                       \/ \E i \in DOMAIN log[w] : log[w][i].task.kind \in {"key", "csr"}
  /\ (log[w] # <<>> /\ ~Placing(w) /\ Placed(log[w][Len(log[w])]))
       => pem[w] = log[w][Len(log[w])].left.key
KeyHeld == \A w \in Hosts : Held(w)

\* A pair is as asked, or passed over.
PairMet(t, pair, m) ==
  \/ (pair \in m.members) = t.present
  \/ t.strict = FALSE /\ ~({pair[1], pair[2]} \subseteq m.roles)

\* A body that is alone knows its target: as it was, but for the memberships it granted
\* or revoked itself.
Unmoved(w) == Machine(w) = body[w].base
Foreseen(w) ==
  /\ Machine(w) = body[w].base
  /\ body[w].changed =
       (\E i \in 1 .. SoFar(w) : ~PairMet(Task(w), Task(w).pairs[i], body[w].base))
Granting(w) ==
  /\ \A i \in 1 .. SoFar(w) : PairMet(Task(w), Task(w).pairs[i], Machine(w))
  /\ IF Task(w).present THEN body[w].base.members \subseteq Machine(w).members
                        ELSE Machine(w).members \subseteq body[w].base.members
  /\ IF body[w].changed THEN body[w].base.members # Machine(w).members
                        ELSE Machine(w) = body[w].base
Knows(w) ==
  /\ IF Task(w).kind # "member" THEN Unmoved(w)
     ELSE IF Task(w).check THEN Foreseen(w) ELSE Granting(w)
  /\ (body[w].stage = "act" /\ Task(w).kind # "key") => Machine(w) = body[w].seen
AloneKnows == \A w \in Hosts : (Underway(w) /\ body[w].alone) => Knows(w)

\* A task that nobody contradicts.
Calm(s) == \A t \in Asked(s.on) : Agree(s, t)

\* What a body that nobody contradicts has settled or seen stays as asked.
PairsKept(w) ==
  \A i \in 1 .. SoFar(w) : PairMet(Task(w), Task(w).pairs[i], Machine(w))
RoleKept(w) ==
  (body[w].stage = "act" /\ Task(w).present /\ "r" \in body[w].seen.roles) =>
    /\ "r" \in Machine(w).roles
    /\ \A a \in DOMAIN Task(w).asked :
         body[w].seen.attrs[a] = Task(w).asked[a] => Machine(w).attrs[a] = Task(w).asked[a]
CalmKept ==
  \A w \in Hosts : (Underway(w) /\ Calm(Task(w)) /\ Task(w).check = FALSE) =>
    /\ Task(w).kind = "member" => PairsKept(w)
    /\ Task(w).kind = "role" => RoleKept(w)

\* What one record says: whose task it was, that it was met, and what was told of it.
OfPlan(e) == \E w \in Hosts : \E i \in DOMAIN work[w] : e.task = work[w][i]
MetIn(e) == (e.result = "ok" /\ e.alone /\ ~e.task.check) => Goal(e.task, e.left)
ToldTrue(e) ==
  (e.result = "ok" /\ e.alone /\ ~(e.task.kind = "role" /\ e.task.opaque)) =>
    IF e.task.check
      THEN e.base = e.left /\ (e.changed <=> e.task.kind # "marker" /\ ~Goal(e.task, e.base))
      ELSE e.changed <=> e.base # e.left
RecordsTrue == \A e \in Entries : (e.result = "ok" => OfPlan(e)) /\ MetIn(e) /\ ToldTrue(e)

BodyParts ==
  /\ BodyTypeOK /\ Planned /\ Recorded /\ AtTask /\ InTurn /\ KeyHeld
  /\ AloneKnows /\ CalmKept /\ RecordsTrue /\ RacersAgree /\ SignedByPlaced
BodyInv == KeyInv /\ BodyParts

-----------------------------------------------------------------------------
(* The steps, by what they do to the body of the walker that takes them *)

\* The other walkers stay where they are; a body that enters beside theirs is seen.
OthersStay(w) ==
  /\ work' = work
  /\ \A v \in Hosts \ {w} :
       /\ pc'[v] = pc[v] /\ ops'[v] = ops[v] /\ target'[v] = target[v]
       /\ pem'[v] = pem[v] /\ log'[v] = log[v]
       /\ body'[v] = body[v] \/ body'[v] = [body[v] EXCEPT !.alone = FALSE]

OwnTask(w) == ops'[w] = ops[w] /\ target'[w] = target[w]

Out == {"idle", "failed", "broken", "killing", "gone"}

\* A step of the pool.
Waits(w) ==
  /\ OwnTask(w) /\ UNCHANGED <<body, pem, log, machine>>
  /\ pc[w] \in Out <=> pc'[w] \in Out
  /\ pc'[w] \in {"guarded", "inOp"} => pc[w] = "guarded" \/ body[w].stage # "new"
  /\ pc[w] \in Exchanging => pc'[w] \in Exchanging

\* The next task.
Begins(w) ==
  /\ pc[w] = "idle" /\ pc'[w] = "lockPool" /\ ops'[w] = ops[w] + 1
  /\ work[w] # <<>> => ops'[w] <= Len(work[w]) /\ target'[w].pool = work[w][ops'[w]].on
  /\ body'[w] = [body[w] EXCEPT !.stage = "new"]
  /\ pem'[w] = pem[w] /\ log'[w] = log[w] /\ UNCHANGED machine

Lonely(w) == {v \in Hosts \ {w} : InBody(v)} = {}

\* The first exchange is ahead.
Enters(w) ==
  /\ OwnTask(w) /\ pc[w] = "lockSlot" /\ pc'[w] = "lockSlot" /\ body[w].stage = "new"
  /\ ~(Task(w).kind = "csr" /\ pem[w] # NoKey)
  /\ body'[w] = [stage |-> IF Task(w).kind = "plain" THEN "plain"
                           ELSE IF Probes(Task(w)) THEN "probe" ELSE "act",
                 left |-> IF Task(w).kind = "member" THEN Task(w).pairs ELSE <<>>,
                 seen |-> Unseen, changed |-> FALSE, base |-> Machine(w),
                 alone |-> Lonely(w)]
  /\ pem'[w] = IF Task(w).kind = "key" THEN <<w, ops[w]>> ELSE pem[w]
  /\ log'[w] = log[w] /\ UNCHANGED machine

\* A request that needs no exchange.
Skips(w) ==
  /\ OwnTask(w) /\ pc'[w] = "idle" /\ body[w].stage = "new"
  /\ Task(w).kind = "csr" /\ pem[w] # NoKey
  /\ body'[w] = NoBody
  /\ log'[w] = Append(log[w],
       [task |-> Task(w), result |-> "ok", changed |-> FALSE, signed |-> pem[w],
        base |-> Machine(w), left |-> Machine(w), alone |-> Lonely(w)])
  /\ pem'[w] = pem[w] /\ UNCHANGED machine

\* A probe after which the body acts.
Sees(w) ==
  /\ OwnTask(w) /\ pc'[w] = "lockSlot" /\ body[w].stage = "probe"
  /\ Decision(Task(w), Pair(w), Machine(w)) = "act"
  /\ Task(w).check => Task(w).kind = "marker"
  /\ body'[w] = [body[w] EXCEPT !.stage = "act", !.seen = Machine(w)]
  /\ pem'[w] = pem[w] /\ log'[w] = log[w] /\ UNCHANGED machine

\* A probe, or an act, that settles what it is about, with `c` what is told of it.
Finds(w, c) ==
  /\ body[w].stage = "probe" /\ UNCHANGED machine
  /\ LET d == Decision(Task(w), Pair(w), Machine(w))
     IN  /\ d = "leave" \/ (d = "act" /\ Task(w).check /\ Task(w).kind # "marker")
         /\ c = (body[w].changed \/ d = "act")
  /\ pem'[w] = IF Task(w).kind = "csr" THEN Machine(w).key ELSE pem[w]
Does(w, c) ==
  /\ body[w].stage = "act" /\ Acts(w)
  /\ Possible(Task(w), Pair(w), body[w].seen, Machine(w))
  /\ c = (body[w].changed \/ (IF Task(w).kind = "key" THEN machine'[P(w)] # Machine(w)
                              ELSE ~Task(w).check))
  /\ pem'[w] = pem[w]

\* The next pair is ahead.
GoesOn(w) ==
  /\ OwnTask(w) /\ pc'[w] = "lockSlot" /\ Len(body[w].left) > 1
  /\ log'[w] = log[w]
  /\ \E c \in BOOLEAN :
       /\ Finds(w, c) \/ Does(w, c)
       /\ body'[w] = [body[w] EXCEPT !.stage = "probe", !.changed = c, !.left = Tail(body[w].left)]

\* The task is done.
Finishes(w) ==
  /\ OwnTask(w) /\ pc'[w] = "idle" /\ ~(Len(body[w].left) > 1)
  /\ body'[w] = NoBody
  /\ \E c \in BOOLEAN :
       /\ Finds(w, c) \/ Does(w, c)
       /\ log'[w] = Append(log[w],
            [task |-> Task(w), result |-> "ok", changed |-> c,
             signed |-> IF Task(w).kind = "csr" THEN Signs(w) ELSE NoKey,
             base |-> body[w].base, left |-> machine'[P(w)], alone |-> body[w].alone])

\* The task has failed, its last act done or not.
MayAct(w) ==
  \/ UNCHANGED machine
  \/ /\ body[w].stage = "act" /\ Acts(w)
     /\ Task(w).kind = "marker" \/ Possible(Task(w), Pair(w), body[w].seen, Machine(w))
Gives(w) ==
  /\ OwnTask(w) /\ pc'[w] \in {"failed", "broken"} /\ InBody(w) /\ MayAct(w)
  /\ body'[w] = NoBody /\ pem'[w] = pem[w]
  /\ log'[w] = Append(log[w],
       [task |-> Task(w), result |-> "failed", changed |-> body[w].changed, signed |-> NoKey,
        base |-> body[w].base, left |-> machine'[P(w)], alone |-> body[w].alone])

\* A task without exchanges of its own is over.
Quits(w) ==
  /\ OwnTask(w) /\ pc'[w] \in {"idle", "failed", "broken"} /\ ~Underway(w)
  /\ body'[w] = NoBody /\ pem'[w] = pem[w] /\ log'[w] = log[w] /\ UNCHANGED machine

Moves(w) ==
  \/ Waits(w) \/ Begins(w) \/ Enters(w) \/ Skips(w) \/ Sees(w) \/ GoesOn(w) \/ Finishes(w)
  \/ Gives(w) \/ Quits(w)

-----------------------------------------------------------------------------
(* Lemmas about sequences, tasks and targets *)

\* A sequence by one entry longer.
LEMMA Appended ==
  ASSUME NEW s, IsSequence(s), NEW e
  PROVE  /\ IsSequence(Append(s, e)) /\ Append(s, e) # <<>>
         /\ Len(s) \in Nat /\ Len(Append(s, e)) = Len(s) + 1
         /\ DOMAIN s = 1 .. Len(s) /\ DOMAIN Append(s, e) = 1 .. (Len(s) + 1)
         /\ \A i \in DOMAIN s : Append(s, e)[i] = s[i]
         /\ Append(s, e)[Len(s) + 1] = e
<1> DEFINE S == {s[i] : i \in DOMAIN s} \cup {e}
           a == Append(s, e)
<1>1. s \in Seq(S) /\ e \in S
  BY DEF IsSequence
<1>2. /\ a \in Seq(S) /\ a # <<>> /\ Len(s) \in Nat /\ Len(a) = Len(s) + 1
      /\ DOMAIN s = 1 .. Len(s) /\ DOMAIN a = 1 .. (Len(s) + 1)
      /\ \A i \in DOMAIN s : a[i] = s[i]
      /\ a[Len(s) + 1] = e
  BY <1>1
<1>3. a \in Seq({a[i] : i \in DOMAIN a})
  BY <1>2
<1> QED
  BY <1>2, <1>3 DEF IsSequence

\* A sequence that is not empty, and what is left of it without its first entry.
LEMMA Shortened ==
  ASSUME NEW s, IsSequence(s), s # <<>>
  PROVE  /\ IsSequence(Tail(s)) /\ Len(s) \in Nat \ {0} /\ Len(Tail(s)) = Len(s) - 1
         /\ DOMAIN s = 1 .. Len(s) /\ Head(s) = s[1]
         /\ \A i \in 1 .. (Len(s) - 1) : Tail(s)[i] = s[i + 1]
<1> DEFINE S == {s[i] : i \in DOMAIN s}
           a == Tail(s)
<1>1. s \in Seq(S)
  BY DEF IsSequence
<1>2. /\ a \in Seq(S) /\ Len(s) \in Nat \ {0} /\ Len(a) = Len(s) - 1
      /\ DOMAIN s = 1 .. Len(s) /\ Head(s) = s[1]
      /\ \A i \in 1 .. (Len(s) - 1) : a[i] = s[i + 1]
  BY <1>1
<1>3. a \in Seq({a[i] : i \in DOMAIN a})
  <2> HIDE DEF a
  <2> QED
    BY <1>2
<1> QED
  BY <1>2, <1>3 DEF IsSequence

\* Its entries are those of the range of its length.
LEMMA Counted ==
  ASSUME NEW s, IsSequence(s)
  PROVE  Len(s) \in Nat /\ DOMAIN s = 1 .. Len(s) /\ (s = <<>> <=> Len(s) = 0)
<1>1. s \in Seq({s[i] : i \in DOMAIN s})
  BY DEF IsSequence
<1> QED
  BY <1>1

\* An act leaves a target behind that is one.
LEMMA ActedMachine ==
  ASSUME NEW w \in Hosts, NEW m, IsMachine(m), pem[w] = NoKey \/ Len(pem[w]) = 2
  PROVE  IsMachine(Acted(w, m))
<1> DEFINE t == Task(w)
<1> USE DEF IsMachine, Attributes
<1>1. CASE t.kind = "marker"
  BY <1>1 DEF Acted
<1>2. CASE t.kind = "key"
  BY <1>2 DEF Acted, KeyWritten
<1>3. CASE t.kind = "role"
  BY <1>3 DEF Acted, Role, Over, Defaults
<1>4. CASE t.kind = "member"
  BY <1>4 DEF Acted, Granted
<1>5. CASE t.kind = "db"
  BY <1>5 DEF Acted, Database
<1>6. CASE t.kind \notin {"marker", "key", "role", "member", "db"}
  BY <1>6 DEF Acted
<1> QED
  BY <1>1, <1>2, <1>3, <1>4, <1>5, <1>6

\* A target that a body leaves alone is as the task asks.
LEMMA LeftIsMet ==
  ASSUME NEW t, IsTask(t), t.kind # "member", NEW pair, NEW m,
         Decision(t, pair, m) = "leave"
  PROVE  Goal(t, m)
<1>1. CASE t.kind = "marker"
  BY <1>1 DEF Decision, MarkerNeeds, Goal
<1>2. CASE t.kind = "key"
  BY <1>2 DEF Decision, Goal
<1>3. CASE t.kind = "csr"
  BY <1>3 DEF Goal
<1>4. CASE t.kind = "role"
  BY <1>4 DEF Decision, RoleNeeds, Diverging, Goal, IsTask
<1>5. CASE t.kind = "db"
  BY <1>5 DEF Decision, DbNeeds, Goal
<1> QED
  BY <1>1, <1>2, <1>3, <1>4, <1>5 DEF IsTask

\* A target that a body acts on is not.
LEMMA ActedOnIsUnmet ==
  ASSUME NEW t, IsTask(t), t.kind # "member", ~(t.kind = "role" /\ t.opaque),
         NEW pair, NEW m, Decision(t, pair, m) = "act"
  PROVE  ~Goal(t, m)
<1>1. CASE t.kind = "marker"
  BY <1>1 DEF Decision, MarkerNeeds, Goal
<1>2. CASE t.kind = "key"
  BY <1>2 DEF Decision, Goal
<1>3. CASE t.kind = "csr"
  BY <1>3 DEF Decision
<1>4. CASE t.kind = "role"
  BY <1>4 DEF Decision, RoleNeeds, Diverging, Goal, IsTask
<1>5. CASE t.kind = "db"
  BY <1>5 DEF Decision, DbNeeds, Goal, IsTask
<1> QED
  BY <1>1, <1>2, <1>3, <1>4, <1>5 DEF IsTask

\* An act leaves the target as asked, if what a role had when it was looked at still
\* stands.
LEMMA ActMeets ==
  ASSUME NEW w \in Hosts, IsTask(Task(w)), Task(w).kind # "member",
         Meant(w), NEW m, IsMachine(m), Possible(Task(w), Pair(w), body[w].seen, m),
         Task(w).check = FALSE, Task(w).kind = "key" => pem[w] # NoKey,
         (Task(w).kind = "role" /\ Task(w).present /\ "r" \in body[w].seen.roles) =>
           \A a \in DOMAIN Task(w).asked :
             body[w].seen.attrs[a] = Task(w).asked[a] => m.attrs[a] = Task(w).asked[a]
  PROVE  Goal(Task(w), Acted(w, m))
<1> DEFINE t == Task(w)
<1> USE DEF IsMachine, Attributes
<1>1. CASE t.kind = "marker"
  BY <1>1 DEF Acted, Goal
<1>2. CASE t.kind = "key"
  BY <1>2 DEF Acted, KeyWritten, Goal
<1>3. CASE t.kind = "csr"
  BY <1>3 DEF Goal
<1>4. CASE t.kind = "role"
  <2>1. Acted(w, m) = Role(t, body[w].seen, m)
    BY <1>4 DEF Acted
  <2>2. CASE ~t.present
    BY <1>4, <2>1, <2>2 DEF Role, Goal
  <2>3. CASE t.present /\ "r" \in body[w].seen.roles
    BY <1>4, <2>1, <2>3 DEF Role, Goal, Over, Diverging, Possible, IsTask
  <2>4. CASE t.present /\ "r" \notin body[w].seen.roles
    BY <1>4, <2>1, <2>4 DEF Role, Goal, Over, Defaults, IsTask
  <2> QED
    BY <2>2, <2>3, <2>4
<1>5. CASE t.kind = "db"
  BY <1>5 DEF Acted, Database, Goal, IsTask
<1> QED
  BY <1>1, <1>2, <1>3, <1>4, <1>5 DEF IsTask

\* An act on what a probe found to need it, and still is so, changes the target.
LEMMA ActChanges ==
  ASSUME NEW w \in Hosts, IsTask(Task(w)), Task(w).kind \in {"marker", "role", "db"},
         ~(Task(w).kind = "role" /\ Task(w).opaque), Task(w).check = FALSE,
         NEW m, IsMachine(m), body[w].seen = m, Decision(Task(w), Pair(w), m) = "act"
  PROVE  Acted(w, m) # m
<1> DEFINE t == Task(w)
<1> USE DEF IsMachine, Attributes
<1>1. CASE t.kind = "marker"
  BY <1>1 DEF Acted, Decision, MarkerNeeds
<1>2. CASE t.kind = "role"
  <2>1. Acted(w, m) = Role(t, m, m) /\ RoleNeeds(t, m)
    BY <1>2 DEF Acted, Decision
  <2>2. CASE ~t.present
    <3>1. "r" \in m.roles /\ "r" \notin Acted(w, m).roles
      BY <2>1, <2>2 DEF Role, RoleNeeds
    <3> QED
      BY <3>1
  <2>3. CASE t.present /\ "r" \in m.roles
    <3>1. PICK a \in Diverging(t, m) : TRUE
      BY <2>1, <2>3 DEF RoleNeeds
    <3>2. a \in DOMAIN t.asked /\ a \in Attributes /\ m.attrs[a] # t.asked[a]
      BY <1>2, <3>1 DEF Diverging, IsTask
    <3>3. Acted(w, m).attrs[a] = t.asked[a]
      BY <2>1, <2>3, <3>1, <3>2 DEF Role, Over
    <3> QED
      BY <3>2, <3>3
  <2>4. CASE t.present /\ "r" \notin m.roles
    <3>1. "r" \in Acted(w, m).roles
      BY <2>1, <2>4 DEF Role
    <3> QED
      BY <2>4, <3>1
  <2> QED
    BY <2>2, <2>3, <2>4
<1>3. CASE t.kind = "db"
  <2>1. Acted(w, m) = Database(t, m) /\ DbNeeds(t, m)
    BY <1>3 DEF Acted, Decision
  <2>2. Acted(w, m).db # m.db
    BY <1>3, <2>1 DEF Database, DbNeeds, IsTask
  <2> QED
    BY <2>2
<1> QED
  BY <1>1, <1>2, <1>3

\* What a role has of what one task asks is not taken back by the act of another that
\* agrees with it.
LEMMA RoleActKeeps ==
  ASSUME NEW w \in Hosts, NEW s, s.kind = "role", s.present, IsTask(s), IsTask(Task(w)),
         Agree(s, Task(w)), NEW m, IsMachine(m), "r" \in m.roles,
         Possible(Task(w), Pair(w), body[w].seen, m)
  PROVE  /\ "r" \in Acted(w, m).roles
         /\ \A a \in DOMAIN s.asked : m.attrs[a] = s.asked[a] => Acted(w, m).attrs[a] = s.asked[a]
<1> DEFINE t == Task(w)
<1> USE DEF IsMachine, Attributes
<1>1. t.kind = "role" /\ t.present
  BY DEF Agree, IsTask
<1>2. \A a \in DOMAIN s.asked \cap DOMAIN t.asked : s.asked[a] = t.asked[a]
  BY <1>1 DEF Agree
<1>3. Acted(w, m) = [m EXCEPT !.attrs = Over(t.asked, Diverging(t, body[w].seen), m.attrs)]
  BY <1>1 DEF Acted, Role, Possible
<1>4. "r" \in Acted(w, m).roles
  BY <1>3
<1>5. ASSUME NEW a \in DOMAIN s.asked, m.attrs[a] = s.asked[a]
      PROVE  Acted(w, m).attrs[a] = s.asked[a]
  <2>1. a \in Attributes
    BY DEF IsTask
  <2>2. Acted(w, m).attrs[a] = IF a \in Diverging(t, body[w].seen) THEN t.asked[a] ELSE m.attrs[a]
    BY <1>3, <2>1 DEF Over
  <2>3. a \in Diverging(t, body[w].seen) => a \in DOMAIN t.asked
    BY DEF Diverging
  <2> QED
    BY <1>2, <1>5, <2>2, <2>3
<1> QED
  BY <1>4, <1>5

\* An act of a task that agrees with another keeps what that one asked.
LEMMA GoalKept ==
  ASSUME NEW w \in Hosts, NEW s, IsTask(s), s.kind # "csr", s.check = FALSE, IsTask(Task(w)),
         Agree(s, Task(w)), NEW m, IsMachine(m), Goal(s, m),
         Task(w).kind = "marker" \/ Possible(Task(w), Pair(w), body[w].seen, m),
         Task(w).kind = "key" => pem[w] # NoKey
  PROVE  Goal(s, Acted(w, m))
<1> DEFINE t == Task(w)
<1> USE DEF IsMachine, Attributes
<1>0. t.kind = s.kind /\ (~(s.kind = "role" /\ s.present /\ t.present) => s = t)
  BY DEF Agree
<1>1. CASE s.kind = "marker"
  BY <1>0, <1>1 DEF Acted, Goal
<1>2. CASE s.kind = "key"
  BY <1>0, <1>2 DEF Acted, KeyWritten, Goal
<1>3. CASE s.kind = "role" /\ s.present
  <2>1. "r" \in m.roles
    BY <1>3 DEF Goal
  <2>2. Possible(t, Pair(w), body[w].seen, m)
    BY <1>0, <1>3
  <2>3. /\ "r" \in Acted(w, m).roles
        /\ \A a \in DOMAIN s.asked : m.attrs[a] = s.asked[a] => Acted(w, m).attrs[a] = s.asked[a]
    BY <1>3, <2>1, <2>2, RoleActKeeps
  <2> QED
    BY <1>3, <2>3 DEF Goal
<1>4. CASE s.kind = "role" /\ ~s.present
  <2>1. s = t
    BY <1>0, <1>4
  <2>2. Acted(w, m) = Role(s, body[w].seen, m)
    BY <1>4, <2>1 DEF Acted
  <2> QED
    BY <1>4, <2>2 DEF Role, Goal
<1>5. CASE s.kind = "member"
  <2>1. s = t /\ Acted(w, m) = Granted(s, Head(body[w].left), m)
    BY <1>0, <1>5 DEF Acted
  <2> QED
    BY <1>5, <2>1 DEF Granted, Goal, IsTask
<1>6. CASE s.kind = "db"
  <2>1. s = t /\ Acted(w, m) = Database(s, m)
    BY <1>0, <1>6 DEF Acted
  <2> QED
    BY <1>6, <2>1 DEF Database, Goal, IsTask
<1> QED
  BY <1>1, <1>2, <1>3, <1>4, <1>5, <1>6 DEF IsTask

\* What a membership task does to a target.
LEMMA GrantedIs ==
  ASSUME NEW t, t.kind = "member", IsTask(t), NEW pair, NEW m, IsMachine(m)
  PROVE  LET g == Granted(t, pair, m)
         IN  /\ g = [m EXCEPT !.members = g.members] /\ g.roles = m.roles
             /\ IF t.present THEN g.members = m.members \cup {pair} ELSE g.members = m.members \ {pair}
             /\ PairMet(t, pair, g)
             /\ \A p : PairMet(t, p, m) => PairMet(t, p, g)
BY DEF Granted, IsMachine, PairMet, IsTask

\* A membership is as asked when all its pairs are.
LEMMA PairsAreGoal ==
  ASSUME NEW t, t.kind = "member", IsTask(t), NEW m
  PROVE  Goal(t, m) <=> \A i \in 1 .. Len(t.pairs) : PairMet(t, t.pairs[i], m)
<1>1. DOMAIN t.pairs = 1 .. Len(t.pairs)
  BY Counted DEF IsTask
<1> QED
  BY <1>1 DEF Goal, PairMet, IsTask

-----------------------------------------------------------------------------
(* Every step is one of those *)

Framed == TypeOK /\ Shaped /\ Recorded /\ BodyTypeOK /\ AtTask

\* An exchange that settles what it is about goes on or finishes.
LEMMA SettledIs ==
  ASSUME Framed, NEW w \in Hosts, NEW c \in BOOLEAN, NEW m, Settled(w, c, m),
         UNCHANGED work, m = machine'[P(w)], UNCHANGED ops,
         Finds(w, c) \/ Does(w, c), \A v \in Hosts \ {w} : pem'[v] = pem[v]
  PROVE  OthersStay(w) /\ (GoesOn(w) \/ Finishes(w))
<1> USE DEF Framed, Shaped, Recorded, TypeOK
<1>1. /\ \A v \in Hosts \ {w} : /\ pc'[v] = pc[v] /\ ops'[v] = ops[v] /\ target'[v] = target[v]
                                /\ log'[v] = log[v] /\ body'[v] = body[v]
      /\ OwnTask(w)
  BY DEF Settled, Released, Goto, OwnTask
<1>2. OthersStay(w)
  BY <1>1 DEF OthersStay
<1>3. CASE Len(body[w].left) > 1
  <2>1. /\ pc'[w] = "lockSlot" /\ log'[w] = log[w]
        /\ body'[w] = [body[w] EXCEPT !.stage = "probe", !.changed = c, !.left = Tail(body[w].left)]
    BY <1>3 DEF Settled, Released, Goto
  <2> QED
    BY <1>1, <1>2, <1>3, <2>1 DEF GoesOn
<1>4. CASE ~(Len(body[w].left) > 1)
  <2>1. /\ pc'[w] = "idle" /\ body'[w] = NoBody
        /\ log'[w] = Append(log[w],
             [task |-> Task(w), result |-> "ok", changed |-> c,
              signed |-> IF Task(w).kind = "csr" THEN Signs(w) ELSE NoKey,
              base |-> body[w].base, left |-> m, alone |-> body[w].alone])
    BY <1>4 DEF Settled, Released, Goto
  <2> QED
    BY <1>1, <1>2, <1>4, <2>1 DEF Finishes
<1> QED
  BY <1>3, <1>4

\* A body that ends badly.
LEMMA EndedIs ==
  ASSUME Framed, NEW w \in Hosts, NEW m, Ended(w, "failed", NoKey, m), m = machine'[P(w)],
         UNCHANGED <<work, pem, ops, target>>, InBody(w), MayAct(w),
         NEW l \in {"failed", "broken"}, Goto(w, l)
  PROVE  OthersStay(w) /\ Gives(w)
<1> USE DEF Framed, Shaped, Recorded, TypeOK
<1>1. /\ \A v \in Hosts \ {w} : /\ pc'[v] = pc[v] /\ ops'[v] = ops[v] /\ target'[v] = target[v]
                                /\ log'[v] = log[v] /\ body'[v] = body[v] /\ pem'[v] = pem[v]
      /\ OwnTask(w)
  BY DEF Ended, Goto, OwnTask
<1>2. /\ pc'[w] = l /\ body'[w] = NoBody /\ pem'[w] = pem[w]
      /\ log'[w] = Append(log[w],
           [task |-> Task(w), result |-> "failed", changed |-> body[w].changed, signed |-> NoKey,
            base |-> body[w].base, left |-> m, alone |-> body[w].alone])
  BY DEF Ended, Goto
<1> QED
  BY <1>1, <1>2 DEF OthersStay, Gives

\* Every step is a move of one walker.
LEMMA StepMoves ==
  Framed /\ CompositeNext => \E w \in Hosts : OthersStay(w) /\ Moves(w)
<1> SUFFICES ASSUME Framed, NEW w \in Hosts, BeginTask(w) \/ BodyStep(w)
             PROVE  OthersStay(w) /\ Moves(w)
  BY DEF CompositeNext
<1>0. /\ TypeOK /\ Shaped /\ Recorded /\ BodyTypeOK /\ AtTask /\ Fields \subseteq DOMAIN body[w]
      /\ P(w) \in Hosts /\ body[w].changed \in BOOLEAN
  BY DEF Framed, Shaped, TypeOK, P, BodyTypeOK
<1>1. CASE BeginTask(w)
  <2>1. /\ pc[w] = "idle" /\ pc'[w] = "lockPool" /\ ops'[w] = ops[w] + 1
        /\ \A v \in Hosts \ {w} : pc'[v] = pc[v] /\ ops'[v] = ops[v] /\ target'[v] = target[v]
    BY <1>0, <1>1 DEF BeginTask, Begin, Goto, TypeOK
  <2>2. work[w] # <<>> => ops'[w] <= Len(work[w]) /\ target'[w].pool = work[w][ops'[w]].on
    <3> SUFFICES ASSUME work[w] # <<>>
                 PROVE  ops'[w] <= Len(work[w]) /\ target'[w].pool = work[w][ops'[w]].on
      OBVIOUS
    <3>1. ops[w] < Len(work[w]) /\ target'[w].pool = work[w][ops[w] + 1].on
      BY <1>1 DEF BeginTask
    <3>2. ops[w] \in Nat
      BY <1>0 DEF TypeOK
    <3> QED
      BY <2>1, <3>1, <3>2
  <2>3. /\ body'[w] = [body[w] EXCEPT !.stage = "new"]
        /\ \A v \in Hosts \ {w} : body'[v] = body[v]
        /\ UNCHANGED <<work, machine, pem, log>>
    BY <1>0, <1>1 DEF BeginTask, Shaped
  <2> QED
    BY <2>1, <2>2, <2>3 DEF OthersStay, Moves, Begins
<1>2. CASE PoolStep(w)
  <2>1. UNCHANGED bodies /\ UNCHANGED <<ops, target>>
    BY <1>2 DEF PoolStep, LockPool, LookUp, SpawnSucceeds, LockSlot, Dispatch, GiveUp, Shrug,
       KillSlot, Killed
  <2>2. \A v \in Hosts \ {w} : pc'[v] = pc[v]
    BY <1>0, <1>2 DEF PoolStep, LockPool, LookUp, SpawnSucceeds, LockSlot, Dispatch, GiveUp, Shrug,
       KillSlot, Killed, Goto, TypeOK
  <2>3. /\ pc[w] \in Out <=> pc'[w] \in Out
        /\ pc'[w] \in {"guarded", "inOp"} => pc[w] = "guarded" \/ body[w].stage # "new"
        /\ pc[w] \in Exchanging => pc'[w] \in Exchanging
    BY <1>0, <1>2 DEF PoolStep, LockPool, LookUp, SpawnSucceeds, LockSlot, Dispatch, GiveUp, Shrug,
       KillSlot, Killed, Goto, TypeOK, Out, Exchanging
  <2> QED
    BY <2>1, <2>2, <2>3 DEF OthersStay, Moves, Waits, OwnTask, bodies
<1>3. CASE Enter(w)
  <2> DEFINE others == {v \in Hosts \ {w} : InBody(v)}
             starts == [stage |-> IF Task(w).kind = "plain" THEN "plain"
                                  ELSE IF Probes(Task(w)) THEN "probe" ELSE "act",
                        left |-> IF Task(w).kind = "member" THEN Task(w).pairs ELSE <<>>,
                        seen |-> Unseen, changed |-> FALSE, base |-> Machine(w),
                        alone |-> others = {}]
  <2>1. /\ UNCHANGED <<machine, work, ops, target>> /\ OwnTask(w)
        /\ pc[w] = "lockSlot" /\ body[w].stage = "new"
    BY <1>3 DEF Enter, OwnTask
  <2>2. CASE Task(w).kind = "csr" /\ pem[w] # NoKey
    <3>1. /\ Goto(w, "idle") /\ body' = [body EXCEPT ![w] = NoBody] /\ UNCHANGED pem
          /\ log' = [log EXCEPT ![w] = Append(@,
               [task |-> Task(w), result |-> "ok", changed |-> FALSE, signed |-> Signs(w),
                base |-> Machine(w), left |-> Machine(w), alone |-> others = {}])]
      BY <1>3, <2>2 DEF Enter
    <3>2. Signs(w) = pem[w]
      BY <2>2 DEF Signs
    <3>3. /\ pc'[w] = "idle" /\ body'[w] = NoBody /\ pem'[w] = pem[w]
          /\ \A v \in Hosts \ {w} : /\ pc'[v] = pc[v] /\ body'[v] = body[v] /\ log'[v] = log[v]
                                    /\ pem'[v] = pem[v]
          /\ log'[w] = Append(log[w],
               [task |-> Task(w), result |-> "ok", changed |-> FALSE, signed |-> pem[w],
                base |-> Machine(w), left |-> Machine(w), alone |-> Lonely(w)])
      BY <1>0, <3>1, <3>2 DEF Goto, TypeOK, Shaped, Recorded, Lonely
    <3> QED
      BY <2>1, <2>2, <3>3 DEF OthersStay, Moves, Skips
  <2>3. CASE ~(Task(w).kind = "csr" /\ pem[w] # NoKey)
    <3>1. /\ body' = [v \in Hosts |-> IF v = w THEN starts
                        ELSE IF v \in others THEN [body[v] EXCEPT !.alone = FALSE] ELSE body[v]]
          /\ pem' = IF Task(w).kind = "key" THEN [pem EXCEPT ![w] = <<w, ops[w]>>] ELSE pem
          /\ UNCHANGED <<pc, log>>
      BY <1>3, <2>3 DEF Enter
    <3>2. /\ body'[w] = starts
          /\ \A v \in Hosts \ {w} : /\ body'[v] = body[v] \/ body'[v] = [body[v] EXCEPT !.alone = FALSE]
                                    /\ pem'[v] = pem[v]
          /\ pem'[w] = IF Task(w).kind = "key" THEN <<w, ops[w]>> ELSE pem[w]
      BY <1>0, <3>1 DEF Recorded
    <3> QED
      BY <2>1, <2>3, <3>1, <3>2 DEF OthersStay, Moves, Enters, Lonely
  <2> QED
    BY <2>2, <2>3
<1>4. CASE ProbeEnds(w)
  <2> DEFINE d == Decision(Task(w), Pair(w), Machine(w))
  <2>1. /\ body[w].stage = "probe" /\ UNCHANGED <<work, machine>> /\ InBody(w)
        /\ machine'[P(w)] = Machine(w)
    BY <1>4 DEF ProbeEnds, InBody, Machine
  <2>2. CASE /\ d = "leave" \/ (d = "act" /\ Task(w).check /\ Task(w).kind # "marker")
             /\ Settled(w, body[w].changed \/ d = "act", Machine(w))
             /\ pem' = IF Task(w).kind = "csr" THEN [pem EXCEPT ![w] = Machine(w).key] ELSE pem
    <3> DEFINE c == (body[w].changed \/ d = "act")
    <3>1. c \in BOOLEAN
      OBVIOUS
    <3>2. /\ \A v \in Hosts \ {w} : pem'[v] = pem[v]
          /\ pem'[w] = IF Task(w).kind = "csr" THEN Machine(w).key ELSE pem[w]
      BY <1>0, <2>2 DEF Recorded
    <3>3. Finds(w, c)
      BY <2>1, <2>2, <3>2 DEF Finds
    <3>4. UNCHANGED ops /\ Settled(w, c, Machine(w))
      BY <2>2 DEF Settled, Released
    <3> HIDE DEF c, d
    <3> QED
      BY <2>1, <3>1, <3>2, <3>3, <3>4, SettledIs DEF Moves
  <2>3. CASE /\ d = "act" /\ (Task(w).check => Task(w).kind = "marker")
             /\ Released(w, "lockSlot")
             /\ body' = [body EXCEPT ![w] = [body[w] EXCEPT !.stage = "act", !.seen = Machine(w)]]
             /\ UNCHANGED <<pem, log>>
    <3>1. /\ pc'[w] = "lockSlot" /\ \A v \in Hosts \ {w} : pc'[v] = pc[v]
          /\ UNCHANGED <<ops, target>>
      BY <1>0, <2>3 DEF Released, Goto, TypeOK
    <3>2. /\ body'[w] = [body[w] EXCEPT !.stage = "act", !.seen = Machine(w)]
          /\ \A v \in Hosts \ {w} : body'[v] = body[v]
      BY <1>0, <2>3 DEF Shaped
    <3> QED
      BY <2>1, <2>3, <3>1, <3>2 DEF OthersStay, Moves, Sees, OwnTask
  <2>4. CASE d = "fail" /\ Released(w, "failed") /\ Ended(w, "failed", NoKey, Machine(w)) /\ UNCHANGED pem
    BY <2>1, <2>4, EndedIs DEF Framed, Released, MayAct, Moves
  <2> QED
    BY <1>4, <2>2, <2>3, <2>4 DEF ProbeEnds, Pair
<1>5. CASE ActEnds(w)
  <2> DEFINE m == Acted(w, Machine(w))
             c == (body[w].changed \/ (IF Task(w).kind = "key" THEN m # Machine(w)
                                       ELSE ~Task(w).check))
  <2>1. /\ body[w].stage = "act" /\ UNCHANGED <<work, pem>>
        /\ Possible(Task(w), Pair(w), body[w].seen, Machine(w))
        /\ machine' = [machine EXCEPT ![P(w)] = m] /\ Settled(w, c, m)
    BY <1>5 DEF ActEnds
  <2>2. machine'[P(w)] = m
    BY <1>0, <2>1 DEF Shaped
  <2>3. c \in BOOLEAN /\ UNCHANGED ops
    BY <2>1 DEF Settled, Released
  <2>4. Does(w, c)
    BY <2>1, <2>2 DEF Does, Acts, Machine
  <2> HIDE DEF c, m
  <2> QED
    BY <2>1, <2>2, <2>3, <2>4, SettledIs DEF Moves
<1>6. CASE ExchangeFails(w)
  <2>1. MayAct(w) /\ InBody(w)
    BY <1>6 DEF ExchangeFails, MayAct, Acts, InBody
  <2>2. Released(w, "failed") /\ Ended(w, "failed", NoKey, machine'[P(w)]) /\ UNCHANGED <<work, pem>>
    BY <1>6 DEF ExchangeFails
  <2> QED
    BY <2>1, <2>2, EndedIs DEF Released, Moves
<1>7. CASE ExchangeBreaks(w)
  <2>1. MayAct(w) /\ InBody(w)
    BY <1>7 DEF ExchangeBreaks, MayAct, Acts, InBody, Machine
  <2>2. /\ Released(w, IF P(w) = w THEN "broken" ELSE "failed")
        /\ Ended(w, "failed", NoKey, machine'[P(w)]) /\ UNCHANGED <<work, pem>>
    BY <1>7 DEF ExchangeBreaks
  <2> QED
    BY <2>1, <2>2, EndedIs DEF Released, Moves
<1>8. CASE DeadEnds(w)
  <2>1. /\ pc[w] = "guarded" /\ Goto(w, IF P(w) = w THEN "broken" ELSE "failed")
        /\ UNCHANGED <<ops, target, work, machine, pem>>
        /\ Ended(w, "failed", NoKey, Machine(w)) /\ Machine(w) = machine'[P(w)]
    BY <1>8 DEF DeadEnds, SeeDead, Machine
  <2>2. InBody(w) /\ MayAct(w)
    BY <1>0, <2>1 DEF BodyTypeOK, MayAct
  <2> QED
    BY <2>1, <2>2, EndedIs DEF Moves
<1>9. CASE NoAgent(w) \/ PlainEnds(w)
  <2>1. /\ body' = [body EXCEPT ![w] = NoBody] /\ UNCHANGED <<work, machine, pem, log, ops, target>>
        /\ \E l \in {"idle", "failed", "broken"} : Goto(w, l)
    <3>1. CASE NoAgent(w)
      BY <3>1 DEF NoAgent, SpawnFails
    <3>2. CASE PlainEnds(w)
      <4>1. PICK l \in {"idle", "lockSlot", "failed", "broken"} : Goto(w, l)
        BY <3>2 DEF PlainEnds, OpEnds
      <4>2. pc'[w] = l
        BY <1>0, <4>1 DEF Goto, TypeOK
      <4> QED
        BY <3>2, <4>1, <4>2 DEF PlainEnds, OpEnds
    <3> QED
      BY <1>9, <3>1, <3>2
  <2>2. ~Underway(w)
    <3>1. CASE NoAgent(w)
      <4>1. pc[w] = "spawn"
        BY <3>1 DEF NoAgent, SpawnFails
      <4>2. ~InBody(w)
        BY <1>0, <4>1 DEF AtTask, InBody, Exchanging
      <4> QED
        BY <4>2 DEF Underway, InBody
    <3>2. CASE PlainEnds(w)
      BY <3>2 DEF PlainEnds, Underway
    <3> QED
      BY <1>9, <3>1, <3>2
  <2>3. /\ pc'[w] \in {"idle", "failed", "broken"} /\ body'[w] = NoBody
        /\ \A v \in Hosts \ {w} : pc'[v] = pc[v] /\ body'[v] = body[v]
    BY <1>0, <2>1 DEF Goto, TypeOK, Shaped
  <2> QED
    BY <2>1, <2>2, <2>3 DEF OthersStay, Moves, Quits, OwnTask
<1> QED
  BY <1>1, <1>2, <1>3, <1>4, <1>5, <1>6, <1>7, <1>8, <1>9 DEF BodyStep

-----------------------------------------------------------------------------
(* What a move keeps: types, and the place a walker is at *)

\* What is known of a walker that does not move.
LEMMA OthersKeep ==
  ASSUME Shaped, NEW w \in Hosts, OthersStay(w), NEW v \in Hosts, v # w
  PROVE  /\ pc'[v] = pc[v] /\ ops'[v] = ops[v] /\ pem'[v] = pem[v] /\ log'[v] = log[v]
         /\ work'[v] = work[v] /\ Task(v)' = Task(v) /\ P(v)' = P(v)
         /\ body'[v].stage = body[v].stage /\ body'[v].left = body[v].left
         /\ body'[v].seen = body[v].seen /\ body'[v].changed = body[v].changed
         /\ body'[v].base = body[v].base
         /\ body'[v].alone = body[v].alone \/ body'[v].alone = FALSE
<1>1. Fields \subseteq DOMAIN body[v]
  BY DEF Shaped
<1> QED
  BY <1>1 DEF OthersStay, Task, P, Fields

\* What is known of one that moves and stays at its task.
LEMMA OwnKeeps ==
  ASSUME NEW w \in Hosts, OthersStay(w), OwnTask(w)
  PROVE  work'[w] = work[w] /\ Task(w)' = Task(w) /\ P(w)' = P(w) /\ ops'[w] = ops[w]
BY DEF OthersStay, OwnTask, Task, P

\* A target changes by an act only.
LEMMA MovesAct == ASSUME NEW w \in Hosts, Moves(w) PROVE MayAct(w)
BY DEF Moves, Waits, Begins, Enters, Skips, Sees, GoesOn, Finishes, Gives, Quits, Finds, Does,
   MayAct

\* A body that exchanges is at a task of its plan.
LEMMA TaskIs ==
  ASSUME Planned, AtTask, InTurn, NEW w \in Hosts, Underway(w)
  PROVE  /\ IsTask(Task(w)) /\ P(w) = Task(w).on /\ work[w] # <<>>
         /\ ops[w] \in DOMAIN work[w] /\ Task(w) = work[w][ops[w]]
<1>1. work[w] # <<>> /\ body[w].stage # "idle"
  BY DEF InTurn, Underway
<1> QED
  BY <1>1 DEF AtTask, Planned, Task

Typed == Framed /\ Planned /\ InTurn

\* An act leaves targets behind that are some.
LEMMA PlannedStep ==
  ASSUME Typed, NEW w \in Hosts, OthersStay(w), Moves(w)
  PROVE  Planned'
<1> USE DEF Typed, Framed
<1>1. P(w) \in Hosts
  BY DEF TypeOK, P
<1>2. work' = work
  BY DEF OthersStay
<1>3. \A p \in Hosts : IsMachine(machine[p])
  BY DEF Planned
<1>4. \A p \in Hosts : IsMachine(machine'[p])
  <2>1. CASE UNCHANGED machine
    BY <1>3, <2>1
  <2>2. CASE Acts(w)
    <3>1. IsMachine(Acted(w, machine[P(w)]))
      BY <1>1, <1>3, ActedMachine DEF Recorded
    <3>2. \A p \in Hosts : machine'[p] = IF p = P(w) THEN Acted(w, machine[p]) ELSE machine[p]
      BY <1>1, <2>2 DEF Acts, Shaped
    <3> QED
      BY <1>3, <3>1, <3>2
  <2> QED
    BY <2>1, <2>2, MovesAct DEF MayAct
<1> QED
  BY <1>2, <1>4 DEF Planned

\* What a walker holds and records keeps its shape.
LEMMA RecordedStep ==
  ASSUME Typed, NEW w \in Hosts, OthersStay(w), Moves(w),
         pem' = [v \in Hosts |-> pem'[v]], log' = [v \in Hosts |-> log'[v]]
  PROVE  Recorded'
<1> USE DEF Typed, Framed
<1>1. \A v \in Hosts \ {w} : IsSequence(log'[v]) /\ (pem'[v] = NoKey \/ Len(pem'[v]) = 2)
  BY DEF OthersStay, Recorded
<1>2. IsSequence(log[w]) /\ (pem[w] = NoKey \/ Len(pem[w]) = 2)
  BY DEF Recorded
<1>3. pem'[w] = NoKey \/ Len(pem'[w]) = 2
  <2>1. pem'[w] \in {pem[w], <<w, ops[w]>>, Machine(w).key}
    BY DEF Moves, Waits, Begins, Enters, Skips, Sees, GoesOn, Finishes, Gives, Quits, Finds, Does
  <2>2. Len(<<w, ops[w]>>) = 2
    OBVIOUS
  <2>3. IsMachine(Machine(w))
    BY DEF Planned, Machine, P, TypeOK
  <2> QED
    BY <1>2, <2>1, <2>2, <2>3 DEF IsMachine
<1>4. IsSequence(log'[w])
  <2>1. log'[w] = log[w] \/ \E e : log'[w] = Append(log[w], e)
    BY DEF Moves, Waits, Begins, Enters, Skips, Sees, GoesOn, Finishes, Gives, Quits
  <2>2. ASSUME NEW e, log'[w] = Append(log[w], e) PROVE IsSequence(log'[w])
    BY <1>2, <2>2, Appended
  <2> QED
    BY <1>2, <2>1, <2>2
<1> QED
  BY <1>1, <1>3, <1>4 DEF Recorded

\* Where a walker is fits what its body does, and its record is short of its tasks.
LEMMA PlaceStep ==
  ASSUME Typed, TypeOK', Planned', Recorded', NEW w \in Hosts, OthersStay(w), Moves(w)
  PROVE  BodyTypeOK' /\ AtTask'
<1> USE DEF Typed, Framed
<1>1. ASSUME NEW v \in Hosts, v # w
      PROVE  /\ body'[v].stage \in {"idle", "new", "plain", "probe", "act"}
             /\ body'[v].stage = "idle" <=> pc'[v] \in Out
             /\ pc'[v] \in {"guarded", "inOp"} => InBody(v)'
             /\ body'[v].changed \in BOOLEAN /\ Len(log'[v]) <= ops'[v]
             /\ body'[v].stage # "idle" =>
                  /\ Len(log'[v]) < ops'[v]
                  /\ work'[v] # <<>> => ops'[v] \in DOMAIN work'[v] /\ P(v)' = Task(v)'.on
                  /\ InBody(v)' => pc'[v] \in Exchanging
  <2>1. InBody(v)' <=> InBody(v)
    BY <1>1, OthersKeep DEF InBody
  <2>2. /\ pc'[v] = pc[v] /\ ops'[v] = ops[v] /\ log'[v] = log[v]
        /\ work'[v] = work[v] /\ Task(v)' = Task(v) /\ P(v)' = P(v)
        /\ body'[v].stage = body[v].stage /\ body'[v].changed = body[v].changed
    BY <1>1, OthersKeep
  <2>3. /\ body'[v].stage \in {"idle", "new", "plain", "probe", "act"}
        /\ body'[v].stage = "idle" <=> pc'[v] \in Out
        /\ pc'[v] \in {"guarded", "inOp"} => InBody(v)'
        /\ body'[v].changed \in BOOLEAN /\ Len(log'[v]) <= ops'[v]
    BY <2>1, <2>2 DEF BodyTypeOK, Out
  <2>4. body'[v].stage # "idle" =>
          /\ Len(log'[v]) < ops'[v]
          /\ work'[v] # <<>> => ops'[v] \in DOMAIN work'[v] /\ P(v)' = Task(v)'.on
          /\ InBody(v)' => pc'[v] \in Exchanging
    BY <2>1, <2>2 DEF AtTask
  <2> QED
    BY <2>3, <2>4
<1>2. /\ body'[w].stage \in {"idle", "new", "plain", "probe", "act"}
      /\ body'[w].stage = "idle" <=> pc'[w] \in Out
      /\ pc'[w] \in {"guarded", "inOp"} => InBody(w)'
      /\ body'[w].changed \in BOOLEAN /\ Len(log'[w]) <= ops'[w]
      /\ body'[w].stage # "idle" =>
           /\ Len(log'[w]) < ops'[w]
           /\ work'[w] # <<>> => ops'[w] \in DOMAIN work'[w] /\ P(w)' = Task(w)'.on
           /\ InBody(w)' => pc'[w] \in Exchanging
  <2>0. /\ body[w].stage \in {"idle", "new", "plain", "probe", "act"}
        /\ body[w].stage = "idle" <=> pc[w] \in Out
        /\ pc[w] \in {"guarded", "inOp"} => InBody(w)
        /\ body[w].changed \in BOOLEAN /\ Len(log[w]) <= ops[w]
        /\ Fields \subseteq DOMAIN body[w] /\ Len(log[w]) \in Nat /\ ops[w] \in Nat
        /\ body[w].stage # "idle" =>
             /\ Len(log[w]) < ops[w]
             /\ work[w] # <<>> => ops[w] \in DOMAIN work[w] /\ P(w) = Task(w).on
             /\ InBody(w) => pc[w] \in Exchanging
    BY Counted DEF BodyTypeOK, Out, AtTask, Shaped, TypeOK, Recorded
  <2>1. CASE Waits(w)
    <3>1. /\ body'[w] = body[w] /\ log'[w] = log[w] /\ OwnTask(w)
          /\ pc[w] \in Out <=> pc'[w] \in Out
          /\ pc'[w] \in {"guarded", "inOp"} => pc[w] = "guarded" \/ body[w].stage # "new"
          /\ pc[w] \in Exchanging => pc'[w] \in Exchanging
      BY <2>1 DEF Waits
    <3>2. InBody(w)' <=> InBody(w)
      BY <3>1 DEF InBody
    <3>3. pc'[w] \in {"guarded", "inOp"} => InBody(w)
      BY <2>0, <3>1 DEF InBody, Out
    <3> QED
      BY <2>0, <3>1, <3>2, <3>3, OwnKeeps
  <2>2. CASE Begins(w)
    <3>1. /\ body'[w].stage = "new" /\ body'[w].changed = body[w].changed /\ work' = work
          /\ pc'[w] = "lockPool" /\ ops'[w] = ops[w] + 1 /\ log'[w] = log[w]
      BY <2>0, <2>2 DEF Begins, Fields, OthersStay
    <3>2. work[w] # <<>> => ops'[w] \in DOMAIN work'[w] /\ P(w)' = Task(w)'.on
      <4> SUFFICES ASSUME work[w] # <<>>
                   PROVE  ops'[w] \in DOMAIN work'[w] /\ P(w)' = Task(w)'.on
        OBVIOUS
      <4>1. DOMAIN work[w] = 1 .. Len(work[w]) /\ Len(work[w]) \in Nat
        BY Counted DEF Planned
      <4>2. ops'[w] \in 1 .. Len(work[w])
        BY <2>0, <2>2, <3>1, <4>1 DEF Begins
      <4>3. P(w)' = work[w][ops'[w]].on /\ Task(w)' = work[w][ops'[w]]
        BY <2>2, <3>1 DEF Begins, P, Task
      <4> QED
        BY <3>1, <4>1, <4>2, <4>3
    <3> QED
      BY <2>0, <3>1, <3>2 DEF InBody, Out
  <2>3. CASE Enters(w)
    <3>1. /\ body'[w].stage \in {"plain", "probe", "act"} /\ body'[w].changed = FALSE
          /\ pc'[w] = "lockSlot" /\ log'[w] = log[w]
      BY <2>3 DEF Enters
    <3>2. OwnTask(w) /\ body[w].stage = "new"
      BY <2>3 DEF Enters
    <3> QED
      BY <2>0, <3>1, <3>2, OwnKeeps DEF InBody, Out, Exchanging
  <2>4. CASE Sees(w)
    <3>1. /\ body'[w].stage = "act" /\ body'[w].changed = body[w].changed
          /\ pc'[w] = "lockSlot" /\ log'[w] = log[w] /\ OwnTask(w) /\ body[w].stage = "probe"
      BY <2>0, <2>4 DEF Sees, Fields
    <3> QED
      BY <2>0, <3>1, OwnKeeps DEF InBody, Out, Exchanging
  <2>5. CASE GoesOn(w)
    <3>1. /\ body'[w].stage = "probe" /\ body'[w].changed \in BOOLEAN
          /\ pc'[w] = "lockSlot" /\ log'[w] = log[w] /\ OwnTask(w)
          /\ body[w].stage \in {"probe", "act"}
      BY <2>0, <2>5 DEF GoesOn, Fields, Finds, Does
    <3> QED
      BY <2>0, <3>1, OwnKeeps DEF InBody, Out, Exchanging
  <2>6. CASE Skips(w) \/ Finishes(w) \/ Gives(w)
    <3>1. /\ body'[w] = NoBody /\ pc'[w] \in {"idle", "failed", "broken"} /\ OwnTask(w)
          /\ \E e : log'[w] = Append(log[w], e)
      BY <2>6 DEF Skips, Finishes, Gives
    <3>2. Len(log'[w]) = Len(log[w]) + 1
      BY <3>1, Appended DEF Recorded
    <3>3. body[w].stage # "idle"
      BY <2>6 DEF Skips, Finishes, Gives, Finds, Does, InBody
    <3> QED
      BY <2>0, <3>1, <3>2, <3>3, OwnKeeps DEF NoBody, Out, InBody
  <2>7. CASE Quits(w)
    <3>1. /\ body'[w] = NoBody /\ pc'[w] \in {"idle", "failed", "broken"} /\ OwnTask(w)
          /\ log'[w] = log[w]
      BY <2>7 DEF Quits
    <3> QED
      BY <2>0, <3>1, OwnKeeps DEF NoBody, Out, InBody
  <2> QED
    BY <2>1, <2>2, <2>3, <2>4, <2>5, <2>6, <2>7 DEF Moves
<1>3. BodyTypeOK'
  BY <1>1, <1>2 DEF BodyTypeOK, Recorded, Out
<1>4. AtTask'
  BY <1>1, <1>2 DEF AtTask
<1> QED
  BY <1>3, <1>4

\* The task a walker is about to enter is one of its plan, unless it has none.
LEMMA NextTaskIs ==
  ASSUME Planned, AtTask, NEW w \in Hosts, body[w].stage = "new", Task(w).kind # "plain"
  PROVE  /\ IsTask(Task(w)) /\ P(w) = Task(w).on /\ work[w] # <<>>
         /\ ops[w] \in DOMAIN work[w] /\ Task(w) = work[w][ops[w]]
<1>1. work[w] # <<>>
  BY DEF Task, Plain
<1> QED
  BY <1>1 DEF AtTask, Planned, Task

\* A body that acts knows why, and what is left to it are the last of its pairs.
LEMMA TurnStep ==
  ASSUME Typed, NEW w \in Hosts, OthersStay(w), Moves(w)
  PROVE  InTurn'
<1> USE DEF Typed, Framed
<1>1. ASSUME NEW v \in Hosts, v # w, Underway(v)'
      PROVE  (work[v] # <<>> /\ Ahead(v) /\ (body[v].stage = "act" => Meant(v)))'
  <2>1. Underway(v)
    BY <1>1, OthersKeep DEF Underway
  <2>2. (Ahead(v) <=> Ahead(v)') /\ (Meant(v) <=> Meant(v)')
    BY <1>1, OthersKeep DEF Ahead, Meant, SoFar, Pair
  <2> QED
    BY <1>1, <2>1, <2>2, OthersKeep DEF InTurn
<1>2. ASSUME Underway(w)'
      PROVE  (work[w] # <<>> /\ Ahead(w) /\ (body[w].stage = "act" => Meant(w)))'
  <2>0. Fields \subseteq DOMAIN body[w]
    BY DEF Shaped
  <2>1. CASE Waits(w)
    <3>1. body' = body /\ OwnTask(w)
      BY <2>1 DEF Waits
    <3>2. (Ahead(w) <=> Ahead(w)') /\ (Meant(w) <=> Meant(w)') /\ Underway(w)
      BY <1>2, <3>1, OwnKeeps DEF Ahead, Meant, SoFar, Pair, Underway
    <3> QED
      BY <3>1, <3>2, OwnKeeps DEF InTurn
  <2>2. CASE Enters(w)
    <3>1. OwnTask(w) /\ body[w].stage = "new" /\ Task(w).kind # "plain"
      BY <1>2, <2>2 DEF Enters, Underway
    <3>2. IsTask(Task(w)) /\ work[w] # <<>>
      BY <3>1, NextTaskIs
    <3>3. Task(w)' = Task(w) /\ work'[w] # <<>>
      BY <3>1, <3>2, OwnKeeps
    <3>4. Ahead(w)'
      <4>1. CASE Task(w).kind = "member"
        <5>1. body'[w].left = Task(w).pairs
          BY <2>2, <4>1 DEF Enters
        <5>2. IsSequence(Task(w).pairs) /\ Task(w).pairs # <<>>
          BY <3>2, <4>1 DEF IsTask
        <5>3. Len(Task(w).pairs) \in Nat \ {0}
          BY <5>2, Counted
        <5> QED
          BY <3>3, <4>1, <5>1, <5>2, <5>3 DEF Ahead, SoFar
      <4>2. CASE Task(w).kind # "member"
        BY <2>2, <3>3, <4>2 DEF Ahead, Enters
      <4> QED
        BY <4>1, <4>2
    <3>5. body'[w].stage = "act" => Meant(w)'
      <4> SUFFICES ASSUME body'[w].stage = "act" PROVE Meant(w)'
        OBVIOUS
      <4>1. ~Probes(Task(w))
        BY <2>2, <3>1 DEF Enters
      <4>2. Task(w).kind = "key" /\ ~Task(w).check
        BY <4>1 DEF Probes
      <4> QED
        BY <3>3, <4>2 DEF Meant
    <3> QED
      BY <3>3, <3>4, <3>5
  <2>3. CASE Sees(w)
    <3>1. Underway(w) /\ OwnTask(w)
      BY <2>3 DEF Sees, Underway
    <3>2. Task(w)' = Task(w) /\ work'[w] # <<>> /\ Ahead(w)
      BY <3>1, OwnKeeps DEF InTurn
    <3>3. /\ body'[w].left = body[w].left /\ body'[w].changed = body[w].changed
          /\ body'[w].seen = Machine(w)
      BY <2>0, <2>3 DEF Sees, Fields
    <3>4. Ahead(w)' /\ Pair(w)' = Pair(w)
      BY <3>2, <3>3 DEF Ahead, SoFar, Pair
    <3>5. IsMachine(Machine(w))
      BY DEF Planned, Machine, P, TypeOK
    <3>6. Meant(w)'
      BY <2>3, <3>2, <3>3, <3>4, <3>5 DEF Sees, Meant
    <3> QED
      BY <3>2, <3>4, <3>6
  <2>4. CASE GoesOn(w)
    <3>1. Underway(w) /\ OwnTask(w) /\ Len(body[w].left) > 1
      BY <2>4 DEF GoesOn, Finds, Does, Underway
    <3>2. Task(w)' = Task(w) /\ work'[w] # <<>> /\ Ahead(w)
      BY <3>1, OwnKeeps DEF InTurn
    <3>3. body'[w].left = Tail(body[w].left) /\ body'[w].stage = "probe"
      BY <2>0, <2>4 DEF GoesOn, Fields
    <3>4. Task(w).kind = "member"
      BY <3>1, <3>2 DEF Ahead
    <3>5. IsTask(Task(w))
      BY <3>1, TaskIs
    <3>6. Len(Task(w).pairs) \in Nat
      BY <3>4, <3>5, Counted DEF IsTask
    <3> DEFINE l == body[w].left
    <3>7. /\ IsSequence(l) /\ Len(l) \in 1 .. Len(Task(w).pairs)
          /\ \A i \in 1 .. Len(l) : l[i] = Task(w).pairs[(Len(Task(w).pairs) - Len(l)) + i]
      BY <3>2, <3>4 DEF Ahead, SoFar
    <3>8. /\ IsSequence(Tail(l)) /\ Len(Tail(l)) = Len(l) - 1
          /\ \A i \in 1 .. (Len(l) - 1) : Tail(l)[i] = l[i + 1]
      BY <3>7, Shortened, Counted
    <3>9. /\ Len(Tail(l)) \in 1 .. Len(Task(w).pairs)
          /\ \A i \in 1 .. Len(Tail(l)) :
               Tail(l)[i] = Task(w).pairs[(Len(Task(w).pairs) - Len(Tail(l))) + i]
      <4> HIDE DEF l
      <4>1. Len(l) \in Nat /\ Len(l) > 1 /\ Len(l) <= Len(Task(w).pairs)
        BY <3>1, <3>6, <3>7 DEF l
      <4>2. Len(Tail(l)) \in 1 .. Len(Task(w).pairs)
        BY <3>6, <3>8, <4>1
      <4>3. ASSUME NEW i \in 1 .. Len(Tail(l))
            PROVE  Tail(l)[i] = Task(w).pairs[(Len(Task(w).pairs) - Len(Tail(l))) + i]
        <5>1. i \in 1 .. (Len(l) - 1) /\ i + 1 \in 1 .. Len(l)
          BY <3>8, <4>1
        <5>2. Tail(l)[i] = Task(w).pairs[(Len(Task(w).pairs) - Len(l)) + (i + 1)]
          BY <3>7, <3>8, <5>1
        <5>3. (Len(Task(w).pairs) - Len(l)) + (i + 1) = (Len(Task(w).pairs) - Len(Tail(l))) + i
          <6>1. i \in Nat /\ Len(Tail(l)) = Len(l) - 1
            BY <3>8, <5>1
          <6>2. \A a, b, j \in Nat : (a - b) + (j + 1) = (a - (b - 1)) + j
            OBVIOUS
          <6>3. (Len(Task(w).pairs) - Len(l)) + (i + 1) = (Len(Task(w).pairs) - (Len(l) - 1)) + i
            BY <3>6, <4>1, <6>1, <6>2
          <6> QED
            BY <6>1, <6>3
        <5> QED
          BY <5>2, <5>3
      <4> QED
        BY <4>2, <4>3
    <3>10. Ahead(w)'
      BY <3>2, <3>3, <3>4, <3>8, <3>9 DEF Ahead, SoFar
    <3> QED
      BY <3>2, <3>3, <3>10
  <2>5. CASE Begins(w)
    BY <1>2, <2>0, <2>5 DEF Begins, Underway, Fields
  <2>6. CASE Skips(w) \/ Finishes(w) \/ Gives(w) \/ Quits(w)
    BY <1>2, <2>6 DEF Skips, Finishes, Gives, Quits, Underway, NoBody
  <2> QED
    BY <2>1, <2>2, <2>3, <2>4, <2>5, <2>6 DEF Moves
<1> QED
  BY <1>1, <1>2 DEF InTurn

-----------------------------------------------------------------------------
(* The key a walker holds, and what its requests are signed with *)

\* A body that did write a key has written the one its walker holds.
LEMMA WrittenIsHeld ==
  ASSUME Typed, NEW w \in Hosts, NEW c \in BOOLEAN, Finds(w, c) \/ Does(w, c),
         Task(w).kind = "key", c, ~Task(w).check
  PROVE  machine'[P(w)].key = pem[w] /\ pem'[w] = pem[w]
<1> USE DEF Typed, Framed
<1>1. Underway(w)
  BY DEF Finds, Does, Underway
<1>2. body[w].changed = FALSE
  BY <1>1 DEF InTurn, Ahead
<1>3. ~Finds(w, c)
  BY <1>2 DEF Finds
<1>4. Does(w, c)
  BY <1>3
<1>5. machine'[P(w)] = Acted(w, Machine(w)) /\ IsMachine(Machine(w))
  BY <1>4 DEF Does, Acts, Shaped, Machine, TypeOK, P, Planned
<1>6. Acted(w, Machine(w)) = KeyWritten(pem[w], body[w].seen, Machine(w))
  BY DEF Acted
<1>7. KeyWritten(pem[w], body[w].seen, Machine(w)) # Machine(w)
  BY <1>2, <1>4, <1>5, <1>6 DEF Does
<1> QED
  BY <1>4, <1>5, <1>6, <1>7 DEF KeyWritten, IsMachine, Does

\* The key of the context is the one placed last, from one record to the next.
LEMMA KeyHeldStep ==
  ASSUME Typed, KeyHeld, NEW w \in Hosts, OthersStay(w), Moves(w)
  PROVE  KeyHeld'
<1> USE DEF Typed, Framed
<1>0. Held(w)
  BY DEF KeyHeld
<1>1. ASSUME NEW v \in Hosts, v # w PROVE Held(v)'
  <2>1. (Underway(v) <=> Underway(v)') /\ (Placing(v) <=> Placing(v)')
    BY <1>1, OthersKeep DEF Underway, Placing
  <2>2. Held(v)
    BY DEF KeyHeld
  <2>3. log'[v] = log[v] /\ pem'[v] = pem[v] /\ Task(v)' = Task(v)
    BY <1>1, OthersKeep
  <2> QED
    BY <2>1, <2>2, <2>3 DEF Held, Placed
<1>2. IsSequence(log[w]) /\ Fields \subseteq DOMAIN body[w]
  BY DEF Recorded, Shaped
<1>3. ASSUME pem'[w] = pem[w], log'[w] = log[w], Placing(w)' <=> Placing(w),
             Underway(w)' /\ Task(w)'.kind = "csr" => Underway(w) /\ Task(w).kind = "csr"
      PROVE  Held(w)'
  BY <1>0, <1>3 DEF Held, Placed
<1>4. ASSUME NEW e, log'[w] = Append(log[w], e), body'[w] = NoBody,
             pem'[w] = pem[w] \/ e.task.kind \in {"key", "csr"},
             Placing(w) => e.task.kind \in {"key", "csr"},
             Placed(e) => pem'[w] = e.left.key
      PROVE  Held(w)'
  <2>1. ~Underway(w)' /\ ~Placing(w)'
    BY <1>4 DEF Underway, Placing, NoBody
  <2>2. /\ Len(log[w]) \in Nat /\ Len(log'[w]) = Len(log[w]) + 1
        /\ DOMAIN log[w] = 1 .. Len(log[w]) /\ DOMAIN log'[w] = 1 .. (Len(log[w]) + 1)
        /\ \A i \in DOMAIN log[w] : log'[w][i] = log[w][i]
        /\ log'[w][Len(log[w]) + 1] = e
    BY <1>2, <1>4, Appended
  <2>3. log'[w][Len(log'[w])] = e /\ Len(log[w]) + 1 \in DOMAIN log'[w]
    BY <2>2
  <2>4. pem'[w] # NoKey => \E i \in DOMAIN log'[w] : log'[w][i].task.kind \in {"key", "csr"}
    <3>1. CASE e.task.kind \in {"key", "csr"}
      BY <2>2, <2>3, <3>1
    <3>2. CASE e.task.kind \notin {"key", "csr"}
      <4>1. pem'[w] = pem[w] /\ ~Placing(w)
        BY <1>4, <3>2
      <4>2. \A i \in DOMAIN log[w] : i \in DOMAIN log'[w] /\ log'[w][i] = log[w][i]
        BY <2>2
      <4> QED
        BY <1>0, <4>1, <4>2 DEF Held
    <3> QED
      BY <3>1, <3>2
  <2> QED
    BY <1>4, <2>1, <2>3, <2>4 DEF Held
<1>5. ASSUME Waits(w) PROVE Held(w)'
  <2>1. OwnTask(w) /\ body' = body /\ pem'[w] = pem[w] /\ log'[w] = log[w]
    BY <1>5 DEF Waits
  <2> QED
    BY <1>3, <2>1, OwnKeeps DEF Underway, Placing
<1>6. ASSUME Begins(w) PROVE Held(w)'
  <2>1. ~Underway(w)'
    BY <1>2, <1>6 DEF Begins, Underway, Fields
  <2>2. ~Underway(w)
    BY <1>6 DEF Begins, BodyTypeOK, Underway
  <2>3. pem'[w] = pem[w] /\ log'[w] = log[w]
    BY <1>6 DEF Begins
  <2> QED
    BY <1>3, <2>1, <2>2, <2>3 DEF Placing
<1>7. ASSUME Enters(w) PROVE Held(w)'
  <2>1. /\ OwnTask(w) /\ ~Underway(w) /\ log'[w] = log[w]
        /\ ~(Task(w).kind = "csr" /\ pem[w] # NoKey)
        /\ pem'[w] = IF Task(w).kind = "key" THEN <<w, ops[w]>> ELSE pem[w]
    BY <1>7 DEF Enters, Underway
  <2>2. Task(w)' = Task(w)
    BY <2>1, OwnKeeps
  <2>3. CASE Task(w).kind = "key"
    <3>1. Placing(w)'
      BY <1>7, <2>2, <2>3 DEF Enters, Placing, Underway
    <3>2. pem'[w] # NoKey
      BY <2>1, <2>3 DEF NoKey
    <3> QED
      BY <2>2, <2>3, <3>1, <3>2 DEF Held
  <2>4. CASE Task(w).kind # "key"
    <3>1. pem'[w] = pem[w] /\ ~Placing(w) /\ ~Placing(w)'
      BY <2>1, <2>2, <2>4 DEF Placing
    <3>2. Task(w)'.kind = "csr" => pem'[w] = NoKey
      BY <2>1, <2>2, <3>1
    <3> QED
      BY <1>0, <2>1, <3>1, <3>2 DEF Held, Placed
  <2> QED
    BY <2>3, <2>4
<1>8. ASSUME Skips(w) PROVE Held(w)'
  <2> DEFINE e == [task |-> Task(w), result |-> "ok", changed |-> FALSE, signed |-> pem[w],
                   base |-> Machine(w), left |-> Machine(w), alone |-> Lonely(w)]
  <2>1. /\ log'[w] = Append(log[w], e) /\ body'[w] = NoBody /\ pem'[w] = pem[w]
        /\ e.task.kind = "csr"
    BY <1>8 DEF Skips
  <2>2. ~Placed(e)
    BY <2>1 DEF Placed
  <2> HIDE DEF e
  <2> QED
    BY <1>4, <2>1, <2>2
<1>9. ASSUME Sees(w) PROVE Held(w)'
  <2>1. OwnTask(w) /\ pem'[w] = pem[w] /\ log'[w] = log[w] /\ Underway(w)
    BY <1>9 DEF Sees, Underway
  <2>2. Underway(w)'
    BY <1>2, <1>9 DEF Sees, Underway, Fields
  <2> QED
    BY <1>3, <2>1, <2>2, OwnKeeps DEF Placing
<1>10. ASSUME GoesOn(w) PROVE Held(w)'
  <2>1. OwnTask(w) /\ log'[w] = log[w] /\ Underway(w) /\ Len(body[w].left) > 1
    BY <1>10 DEF GoesOn, Underway, Finds, Does
  <2>2. Task(w).kind = "member"
    BY <2>1 DEF InTurn, Ahead
  <2>3. pem'[w] = pem[w]
    BY <1>10, <2>2 DEF GoesOn, Finds, Does
  <2> QED
    BY <1>3, <2>1, <2>2, <2>3, OwnKeeps DEF Placing
<1>11. ASSUME Finishes(w) PROVE Held(w)'
  <2>1. PICK c \in BOOLEAN :
          /\ Finds(w, c) \/ Does(w, c)
          /\ log'[w] = Append(log[w],
               [task |-> Task(w), result |-> "ok", changed |-> c,
                signed |-> IF Task(w).kind = "csr" THEN Signs(w) ELSE NoKey,
                base |-> body[w].base, left |-> machine'[P(w)], alone |-> body[w].alone])
    BY <1>11 DEF Finishes
  <2> DEFINE e == [task |-> Task(w), result |-> "ok", changed |-> c,
                   signed |-> IF Task(w).kind = "csr" THEN Signs(w) ELSE NoKey,
                   base |-> body[w].base, left |-> machine'[P(w)], alone |-> body[w].alone]
  <2>2. e.task = Task(w) /\ e.changed = c /\ e.left = machine'[P(w)]
    OBVIOUS
  <2>3. log'[w] = Append(log[w], e) /\ body'[w] = NoBody
    BY <1>11, <2>1 DEF Finishes
  <2> HIDE DEF e
  <2>4. pem'[w] = pem[w] \/ e.task.kind = "csr"
    BY <2>1, <2>2 DEF Finds, Does
  <2>5. Placed(e) => pem'[w] = e.left.key
    BY <2>1, <2>2, WrittenIsHeld DEF Placed
  <2>6. Placing(w) => e.task.kind = "key"
    BY <2>2 DEF Placing
  <2> QED
    BY <1>4, <2>3, <2>4, <2>5, <2>6
<1>12. ASSUME Gives(w) PROVE Held(w)'
  <2> DEFINE e == [task |-> Task(w), result |-> "failed", changed |-> body[w].changed,
                   signed |-> NoKey, base |-> body[w].base, left |-> machine'[P(w)],
                   alone |-> body[w].alone]
  <2>1. /\ log'[w] = Append(log[w], e) /\ body'[w] = NoBody /\ pem'[w] = pem[w]
        /\ e.task = Task(w) /\ e.result = "failed"
    BY <1>12 DEF Gives
  <2>2. ~Placed(e) /\ (Placing(w) => e.task.kind = "key")
    BY <2>1 DEF Placed, Placing
  <2> HIDE DEF e
  <2> QED
    BY <1>4, <2>1, <2>2
<1>13. ASSUME Quits(w) PROVE Held(w)'
  <2>1. ~Underway(w) /\ ~Underway(w)' /\ pem'[w] = pem[w] /\ log'[w] = log[w]
    BY <1>13 DEF Quits, Underway, NoBody
  <2> QED
    BY <1>3, <2>1 DEF Placing
<1>14. Held(w)'
  BY <1>5, <1>6, <1>7, <1>8, <1>9, <1>10, <1>11, <1>12, <1>13 DEF Moves
<1> QED
  BY <1>1, <1>14 DEF KeyHeld

\* What `SignedByPlaced` says of one walker's record.
WellSigned(s) ==
  \A j \in DOMAIN s :
    LET e == s[j]
        earlier == {i \in 1 .. (j - 1) : s[i].task.kind \in {"key", "csr"}}
    IN  (/\ e.task.kind = "csr" /\ e.result = "ok" /\ e.alone
         /\ \A i \in earlier : /\ i = j - 1 /\ s[i].task.kind = "key"
                               /\ s[i].result = "ok" /\ s[i].changed /\ ~s[i].task.check
                               /\ s[i].task.on = e.task.on /\ s[i].left = e.base)
        => e.signed = e.base.key

\* A record grows by an entry that is well signed if what was placed before it was its key.
LEMMA SignedAppended ==
  ASSUME NEW s, IsSequence(s), WellSigned(s), NEW e,
         (/\ e.task.kind = "csr" /\ e.alone
          /\ \A i \in DOMAIN s : s[i].task.kind \in {"key", "csr"} =>
               i = Len(s) /\ Placed(s[i]) /\ s[i].left = e.base) => e.signed = e.base.key
  PROVE  WellSigned(Append(s, e))
<1> DEFINE a == Append(s, e)
<1>1. /\ Len(s) \in Nat /\ DOMAIN s = 1 .. Len(s) /\ DOMAIN a = 1 .. (Len(s) + 1)
      /\ \A i \in DOMAIN s : a[i] = s[i]
      /\ a[Len(s) + 1] = e
  BY Appended
<1> HIDE DEF a
<1> SUFFICES ASSUME NEW j \in DOMAIN a, a[j].task.kind = "csr", a[j].result = "ok", a[j].alone,
                    \A i \in {i \in 1 .. (j - 1) : a[i].task.kind \in {"key", "csr"}} :
                      /\ i = j - 1 /\ a[i].task.kind = "key"
                      /\ a[i].result = "ok" /\ a[i].changed /\ ~a[i].task.check
                      /\ a[i].task.on = a[j].task.on /\ a[i].left = a[j].base
             PROVE  a[j].signed = a[j].base.key
  BY DEF a, WellSigned
<1>2. CASE j \in DOMAIN s
  <2>1. \A i \in 1 .. (j - 1) : a[i] = s[i]
    BY <1>1, <1>2
  <2>2. s[j].task.kind = "csr" /\ s[j].result = "ok" /\ s[j].alone /\ a[j] = s[j]
    BY <1>1, <1>2
  <2>3. \A i \in {i \in 1 .. (j - 1) : s[i].task.kind \in {"key", "csr"}} :
          /\ i = j - 1 /\ s[i].task.kind = "key"
          /\ s[i].result = "ok" /\ s[i].changed /\ ~s[i].task.check
          /\ s[i].task.on = s[j].task.on /\ s[i].left = s[j].base
    BY <2>1, <2>2
  <2> QED
    BY <1>2, <2>2, <2>3 DEF WellSigned
<1>3. CASE j = Len(s) + 1
  <2>0. \A n \in Nat : (n + 1) - 1 = n
    OBVIOUS
  <2>1. j - 1 = Len(s) /\ \A i \in DOMAIN s : i \in 1 .. (j - 1) /\ a[i] = s[i]
    BY <1>1, <1>3, <2>0
  <2>2. \A i \in DOMAIN s : s[i].task.kind \in {"key", "csr"} =>
          i = Len(s) /\ Placed(s[i]) /\ s[i].left = e.base
    BY <1>1, <1>3, <2>1 DEF Placed
  <2> QED
    BY <1>1, <1>3, <2>2
<1> QED
  BY <1>1, <1>2, <1>3

\* A request is signed with the key it found, unless the play has been at one before.
LEMMA SignedStep ==
  ASSUME Typed, KeyHeld, AloneKnows, SignedByPlaced, NEW w \in Hosts, OthersStay(w), Moves(w)
  PROVE  SignedByPlaced'
<1> USE DEF Typed, Framed
<1>1. \A v \in Hosts : WellSigned(log[v])
  BY DEF SignedByPlaced, WellSigned
<1>2. IsSequence(log[w]) /\ Held(w)
  BY DEF Recorded, KeyHeld
<1>4. ASSUME Skips(w) PROVE WellSigned(log'[w])
  <2> DEFINE e == [task |-> Task(w), result |-> "ok", changed |-> FALSE, signed |-> pem[w],
                   base |-> Machine(w), left |-> Machine(w), alone |-> Lonely(w)]
  <2>1. log'[w] = Append(log[w], e) /\ e.signed = pem[w]
    BY <1>4 DEF Skips
  <2>2. pem[w] # NoKey /\ ~Placing(w)
    BY <1>4 DEF Skips, Placing, Underway
  <2> HIDE DEF e
  <2>3. ASSUME \A i \in DOMAIN log[w] : log[w][i].task.kind \in {"key", "csr"} =>
                 i = Len(log[w]) /\ Placed(log[w][i]) /\ log[w][i].left = e.base
        PROVE  e.signed = e.base.key
    <3>1. PICK i \in DOMAIN log[w] : log[w][i].task.kind \in {"key", "csr"}
      BY <1>2, <2>2 DEF Held
    <3>2. i = Len(log[w]) /\ Placed(log[w][i]) /\ log[w][i].left = e.base
      BY <2>3, <3>1
    <3>3. log[w] # <<>>
      BY <1>2, <3>1, Counted
    <3>4. pem[w] = log[w][i].left.key
      BY <1>2, <2>2, <3>2, <3>3 DEF Held
    <3> QED
      BY <2>1, <3>2, <3>4
  <2> QED
    BY <1>1, <1>2, <2>1, <2>3, SignedAppended
<1>5. ASSUME Finishes(w) PROVE WellSigned(log'[w])
  <2>1. PICK c \in BOOLEAN :
          /\ Finds(w, c) \/ Does(w, c)
          /\ log'[w] = Append(log[w],
               [task |-> Task(w), result |-> "ok", changed |-> c,
                signed |-> IF Task(w).kind = "csr" THEN Signs(w) ELSE NoKey,
                base |-> body[w].base, left |-> machine'[P(w)], alone |-> body[w].alone])
    BY <1>5 DEF Finishes
  <2> DEFINE e == [task |-> Task(w), result |-> "ok", changed |-> c,
                   signed |-> IF Task(w).kind = "csr" THEN Signs(w) ELSE NoKey,
                   base |-> body[w].base, left |-> machine'[P(w)], alone |-> body[w].alone]
  <2>2. /\ e.task = Task(w) /\ e.alone = body[w].alone /\ e.base = body[w].base
        /\ e.signed = IF Task(w).kind = "csr" THEN Signs(w) ELSE NoKey
    OBVIOUS
  <2>3. log'[w] = Append(log[w], e) /\ Underway(w)
    BY <2>1 DEF Finds, Does, Underway
  <2> HIDE DEF e
  <2>4. ASSUME e.task.kind = "csr", e.alone PROVE e.signed = e.base.key
    <3>1. pem[w] = NoKey /\ Machine(w) = body[w].base
      BY <1>2, <2>2, <2>3, <2>4 DEF Held, AloneKnows, Knows, Unmoved
    <3> QED
      BY <2>2, <2>4, <3>1 DEF Signs
  <2> QED
    BY <1>1, <1>2, <2>3, <2>4, SignedAppended
<1>6. ASSUME Gives(w) PROVE WellSigned(log'[w])
  <2> DEFINE e == [task |-> Task(w), result |-> "failed", changed |-> body[w].changed,
                   signed |-> NoKey, base |-> body[w].base, left |-> machine'[P(w)],
                   alone |-> body[w].alone]
      a == Append(log[w], e)
  <2>1. log'[w] = a /\ e.result = "failed"
    BY <1>6 DEF Gives
  <2> HIDE DEF e
  <2>2. /\ Len(log[w]) \in Nat /\ DOMAIN log[w] = 1 .. Len(log[w])
        /\ DOMAIN a = 1 .. (Len(log[w]) + 1)
        /\ \A i \in DOMAIN log[w] : a[i] = log[w][i]
        /\ a[Len(log[w]) + 1] = e
    BY <1>2, Appended
  <2> HIDE DEF a
  <2>3. ASSUME NEW j \in DOMAIN a, a[j].result = "ok"
        PROVE  j \in DOMAIN log[w] /\ a[j] = log[w][j] /\ \A i \in 1 .. (j - 1) : a[i] = log[w][i]
    BY <2>1, <2>2, <2>3
  <2>4. WellSigned(a)
    BY <1>1, <2>3 DEF WellSigned
  <2> QED
    BY <2>1, <2>4
<1>7. ASSUME log'[w] = log[w] PROVE WellSigned(log'[w])
  BY <1>1, <1>7
<1>8. WellSigned(log'[w])
  BY <1>4, <1>5, <1>6, <1>7 DEF Moves, Waits, Begins, Enters, Sees, GoesOn, Quits
<1>9. \A v \in Hosts : WellSigned(log'[v])
  BY <1>1, <1>8 DEF OthersStay
<1> QED
  BY <1>9 DEF SignedByPlaced, WellSigned

-----------------------------------------------------------------------------
(* What a body that is alone knows of its target *)

\* The pair a membership is at, and what it decides of it.
LEMMA PairIs ==
  ASSUME Typed, NEW w \in Hosts, Underway(w), Task(w).kind = "member"
  PROVE  /\ SoFar(w) \in Nat /\ Len(Task(w).pairs) \in Nat
         /\ Pair(w) = Task(w).pairs[SoFar(w) + 1]
         /\ ~(Len(body[w].left) > 1) => SoFar(w) + 1 = Len(Task(w).pairs)
<1> USE DEF Typed, Framed
<1> DEFINE l == body[w].left
           n == Len(Task(w).pairs)
<1>1. /\ IsSequence(l) /\ Len(l) \in 1 .. n
      /\ \A i \in 1 .. Len(l) : l[i] = Task(w).pairs[(n - Len(l)) + i]
  BY DEF InTurn, Ahead, SoFar
<1>2. n \in Nat /\ Len(l) \in Nat
  BY <1>1, TaskIs, Counted DEF IsTask
<1>3. Head(l) = l[1]
  BY <1>1, Shortened, Counted
<1>4. SoFar(w) = n - Len(l) /\ Pair(w) = Head(l)
  BY DEF SoFar, Pair
<1> HIDE DEF l, n
<1>5. n - Len(l) \in Nat /\ 1 \in 1 .. Len(l) /\ (~(Len(l) > 1) => (n - Len(l)) + 1 = n)
  BY <1>1, <1>2
<1>6. l[1] = Task(w).pairs[(n - Len(l)) + 1]
  BY <1>1, <1>5
<1> QED
  BY <1>2, <1>3, <1>4, <1>5, <1>6 DEF l, n

\* A body that goes on has settled one pair more.
LEMMA GoesOnIs ==
  ASSUME Typed, NEW w \in Hosts, OthersStay(w), GoesOn(w)
  PROVE  /\ Underway(w) /\ Task(w).kind = "member" /\ IsTask(Task(w))
         /\ Task(w)' = Task(w) /\ P(w)' = P(w) /\ SoFar(w)' = SoFar(w) + 1
         /\ body'[w].stage = "probe" /\ body'[w].base = body[w].base
         /\ body'[w].alone = body[w].alone
<1> USE DEF Typed, Framed
<1>1. Underway(w) /\ OwnTask(w) /\ Len(body[w].left) > 1
  BY DEF GoesOn, Finds, Does, Underway
<1>2. Ahead(w) /\ Fields \subseteq DOMAIN body[w]
  BY <1>1 DEF InTurn, Shaped
<1>3. Task(w).kind = "member" /\ IsTask(Task(w)) /\ Task(w)' = Task(w) /\ P(w)' = P(w)
  BY <1>1, <1>2, TaskIs, OwnKeeps DEF Ahead
<1>4. /\ body'[w].left = Tail(body[w].left) /\ body'[w].stage = "probe"
      /\ body'[w].base = body[w].base /\ body'[w].alone = body[w].alone
  BY <1>2 DEF GoesOn, Fields
<1>5. Len(body[w].left) \in Nat /\ Len(Tail(body[w].left)) = Len(body[w].left) - 1
  BY <1>1, <1>2, <1>3, Shortened, Counted DEF Ahead
<1>6. Len(Task(w).pairs) \in Nat /\ Len(body[w].left) <= Len(Task(w).pairs)
  BY <1>2, <1>3, <1>5, Counted DEF Ahead, IsTask
<1>7. \A a, b \in Nat : a - (b - 1) = (a - b) + 1
  OBVIOUS
<1>8. SoFar(w)' = Len(Task(w).pairs) - (Len(body[w].left) - 1)
  BY <1>3, <1>4, <1>5 DEF SoFar
<1>9. SoFar(w)' = SoFar(w) + 1
  BY <1>5, <1>6, <1>7, <1>8 DEF SoFar
<1> QED
  BY <1>1, <1>3, <1>4, <1>9

\* A pair is left alone if it is as asked, or passed over, and acted on otherwise.
LEMMA MemberDecided ==
  ASSUME NEW t, t.kind = "member", IsTask(t), NEW pair, NEW m
  PROVE  /\ Decision(t, pair, m) = "leave" => PairMet(t, pair, m)
         /\ Decision(t, pair, m) = "act" =>
              ~PairMet(t, pair, m) /\ (pair \in m.members) # t.present
BY DEF Decision, MemberDecision, PairMet, IsTask

\* What an act makes of its target.
LEMMA ActIs ==
  ASSUME Framed, Planned, NEW w \in Hosts, Acts(w)
  PROVE  /\ P(w) \in Hosts /\ machine'[P(w)] = Acted(w, Machine(w)) /\ IsMachine(Machine(w))
         /\ \A p \in Hosts : p # P(w) => machine'[p] = machine[p]
BY DEF Framed, Planned, TypeOK, Shaped, Acts, Machine, P

\* A membership that is settled leaves what is known of the target true, its own pair
\* now with it.
LEMMA SettledIsKnown ==
  ASSUME Typed, AloneKnows, NEW w \in Hosts, Underway(w), body[w].alone,
         Task(w).kind = "member", NEW c \in BOOLEAN, Finds(w, c) \/ Does(w, c)
  PROVE  LET m == machine'[P(w)]
             t == Task(w)
             b == body[w].base
         IN  IF t.check
               THEN m = b /\ c = (\E i \in 1 .. (SoFar(w) + 1) : ~PairMet(t, t.pairs[i], b))
               ELSE /\ \A i \in 1 .. (SoFar(w) + 1) : PairMet(t, t.pairs[i], m)
                    /\ IF t.present THEN b.members \subseteq m.members
                                    ELSE m.members \subseteq b.members
                    /\ IF c THEN b.members # m.members ELSE m = b
<1> USE DEF Typed, Framed
<1> DEFINE m == machine'[P(w)]
           t == Task(w)
           b == body[w].base
           k == SoFar(w)
           d == Decision(t, Pair(w), Machine(w))
<1>1. IsTask(t) /\ t.kind = "member" /\ Knows(w) /\ InTurn
  BY TaskIs DEF AloneKnows
<1>2. k \in Nat /\ Pair(w) = t.pairs[k + 1]
  BY PairIs
<1>3. \A i \in 1 .. (k + 1) : i \in 1 .. k \/ i = k + 1
  BY <1>2
<1>4. (\A i \in 1 .. k : i \in 1 .. (k + 1)) /\ k + 1 \in 1 .. (k + 1)
  BY <1>2
<1>5. t.check \in BOOLEAN /\ t.present \in BOOLEAN
  BY <1>1 DEF IsTask
<1> HIDE DEF k
<1>6. CASE t.check
  <2>1. body[w].stage # "act"
    BY <1>1, <1>6 DEF InTurn, Meant
  <2>2. Finds(w, c) /\ Foreseen(w)
    BY <1>1, <1>6, <2>1 DEF Does, Knows
  <2>3. m = Machine(w) /\ m = b /\ d \in {"leave", "act"} /\ c = (body[w].changed \/ d = "act")
    BY <2>2 DEF Finds, Foreseen, Machine
  <2>4. d = "act" <=> ~PairMet(t, t.pairs[k + 1], b)
    BY <1>1, <1>2, <2>2, <2>3, MemberDecided DEF Foreseen
  <2>5. body[w].changed = (\E i \in 1 .. k : ~PairMet(t, t.pairs[i], b))
    BY <2>2 DEF Foreseen, k
  <2>6. c = (\E i \in 1 .. (k + 1) : ~PairMet(t, t.pairs[i], b))
    BY <1>3, <1>4, <2>3, <2>4, <2>5
  <2> QED
    BY <1>6, <2>3, <2>6 DEF k
<1>7. CASE ~t.check
  <2>1. Granting(w)
    BY <1>1, <1>7 DEF Knows
  <2>2. \A i \in 1 .. k : PairMet(t, t.pairs[i], Machine(w))
    BY <2>1 DEF Granting, k
  <2>3. CASE Finds(w, c)
    <3>1. m = Machine(w) /\ d = "leave" /\ c = body[w].changed
      <4>1. body[w].changed \in BOOLEAN
        BY DEF BodyTypeOK
      <4>2. m = Machine(w) /\ d = "leave" /\ c = (body[w].changed \/ d = "act")
        BY <1>7, <2>3 DEF Finds, Machine
      <4> HIDE DEF d
      <4> QED
        BY <4>1, <4>2
    <3>2. PairMet(t, t.pairs[k + 1], m)
      BY <1>1, <1>2, <3>1, MemberDecided
    <3>3. \A i \in 1 .. (k + 1) : PairMet(t, t.pairs[i], m)
      BY <1>3, <2>2, <3>1, <3>2
    <3> QED
      BY <1>7, <2>1, <3>1, <3>3 DEF Granting, k
  <2>4. CASE Does(w, c)
    <3>1. body[w].stage = "act" /\ Acts(w) /\ c = TRUE
      BY <1>1, <1>7, <2>4 DEF Does
    <3>2. m = Acted(w, Machine(w)) /\ IsMachine(Machine(w))
      BY <3>1, ActIs
    <3>3. m = Granted(t, Pair(w), Machine(w))
      BY <1>1, <3>2 DEF Acted, Pair
    <3>4. Meant(w) /\ Machine(w) = body[w].seen
      BY <1>1, <3>1 DEF InTurn, Knows
    <3>5. ~PairMet(t, Pair(w), Machine(w)) /\ (Pair(w) \in Machine(w).members) # t.present
      BY <1>1, <3>4, MemberDecided DEF Meant
    <3>6. /\ IF t.present THEN m.members = Machine(w).members \cup {Pair(w)}
                          ELSE m.members = Machine(w).members \ {Pair(w)}
          /\ PairMet(t, Pair(w), m)
          /\ \A p : PairMet(t, p, Machine(w)) => PairMet(t, p, m)
      BY <1>1, <3>2, <3>3, GrantedIs
    <3>7. \A i \in 1 .. (k + 1) : PairMet(t, t.pairs[i], m)
      BY <1>2, <1>3, <2>2, <3>6
    <3>8. IF t.present THEN b.members \subseteq Machine(w).members
                       ELSE Machine(w).members \subseteq b.members
      BY <2>1 DEF Granting
    <3>9. /\ IF t.present THEN b.members \subseteq m.members ELSE m.members \subseteq b.members
          /\ b.members # m.members
      BY <1>5, <3>5, <3>6, <3>8
    <3> QED
      BY <1>7, <3>1, <3>7, <3>9 DEF k
  <2> QED
    BY <2>3, <2>4
<1> QED
  BY <1>6, <1>7

\* Who is alone goes on knowing its target: nobody acts beside it.
LEMMA AloneStep ==
  ASSUME Typed, Solitary, AloneKnows, NEW w \in Hosts, OthersStay(w), Moves(w)
  PROVE  AloneKnows'
<1> USE DEF Typed, Framed
<1>1. ASSUME NEW v \in Hosts, v # w, Underway(v)', body'[v].alone
      PROVE  Knows(v)'
  <2>1. Underway(v) /\ body[v].alone /\ body'[v].alone = body[v].alone
    BY <1>1, OthersKeep DEF Underway
  <2>2. InBody(v)
    BY <2>1 DEF InBody, Underway
  <2>3. UNCHANGED machine
    BY <1>1, <2>1, <2>2, MovesAct DEF Solitary, InBody, MayAct
  <2>4. Machine(v)' = Machine(v) /\ SoFar(v)' = SoFar(v) /\ Task(v)' = Task(v)
    BY <1>1, <2>3, OthersKeep DEF Machine, SoFar
  <2>5. Unmoved(v)' <=> Unmoved(v)
    BY <1>1, <2>4, OthersKeep DEF Unmoved
  <2>6. Foreseen(v)' <=> Foreseen(v)
    BY <1>1, <2>4, OthersKeep DEF Foreseen
  <2>7. Granting(v)' <=> Granting(v)
    BY <1>1, <2>4, OthersKeep DEF Granting
  <2>8. Knows(v)
    BY <2>1 DEF AloneKnows
  <2> QED
    BY <1>1, <2>4, <2>5, <2>6, <2>7, <2>8, OthersKeep DEF Knows
<1>2. ASSUME Underway(w)', body'[w].alone
      PROVE  Knows(w)'
  <2>0. Fields \subseteq DOMAIN body[w]
    BY DEF Shaped
  <2>1. ASSUME body'[w].left = body[w].left, body'[w].changed = body[w].changed,
               body'[w].base = body[w].base, OwnTask(w), UNCHANGED machine, Knows(w),
               body'[w].stage = "act" =>
                 body'[w].seen = Machine(w) \/ (body[w].stage = "act" /\ body'[w].seen = body[w].seen)
        PROVE  Knows(w)'
    <3>1. Machine(w)' = Machine(w) /\ SoFar(w)' = SoFar(w) /\ Task(w)' = Task(w)
      BY <2>1, OwnKeeps DEF Machine, SoFar
    <3>2. Unmoved(w)' <=> Unmoved(w)
      BY <2>1, <3>1 DEF Unmoved
    <3>3. Foreseen(w)' <=> Foreseen(w)
      BY <2>1, <3>1 DEF Foreseen
    <3>4. Granting(w)' <=> Granting(w)
      BY <2>1, <3>1 DEF Granting
    <3> QED
      BY <2>1, <3>1, <3>2, <3>3, <3>4 DEF Knows
  <2>2. CASE Waits(w)
    <3>1. body' = body /\ OwnTask(w) /\ UNCHANGED machine
      BY <2>2 DEF Waits
    <3>2. Underway(w)
      BY <1>2, <3>1, OwnKeeps DEF Underway
    <3>3. Knows(w)
      BY <1>2, <3>1, <3>2 DEF AloneKnows
    <3> QED
      BY <2>1, <3>1, <3>3
  <2>3. CASE Sees(w)
    <3>1. /\ OwnTask(w) /\ UNCHANGED machine /\ body'[w].seen = Machine(w)
          /\ body'[w].left = body[w].left /\ body'[w].changed = body[w].changed
          /\ body'[w].base = body[w].base /\ body'[w].alone = body[w].alone
      BY <2>0, <2>3 DEF Sees, Fields
    <3>2. Knows(w)
      BY <1>2, <2>3, <3>1 DEF AloneKnows, Sees, Underway
    <3> QED
      BY <2>1, <3>1, <3>2
  <2>4. CASE Enters(w)
    <3>1. OwnTask(w) /\ UNCHANGED machine /\ body[w].stage = "new" /\ Task(w).kind # "plain"
      BY <1>2, <2>4 DEF Enters, Underway
    <3>2. Machine(w)' = Machine(w) /\ Task(w)' = Task(w) /\ IsTask(Task(w))
      BY <3>1, OwnKeeps, NextTaskIs DEF Machine
    <3>3. /\ body'[w].base = Machine(w) /\ body'[w].changed = FALSE
          /\ Task(w).kind = "member" => body'[w].left = Task(w).pairs
          /\ body'[w].stage = "act" => ~Probes(Task(w))
      BY <2>4, <3>1 DEF Enters
    <3>4. body'[w].stage = "act" => Task(w).kind = "key"
      BY <3>3 DEF Probes
    <3>5. ASSUME Task(w).kind = "member" PROVE 1 .. SoFar(w)' = {}
      <4>1. Len(Task(w).pairs) \in Nat
        BY <3>2, <3>5, Counted DEF IsTask
      <4>2. SoFar(w)' = Len(Task(w).pairs) - Len(Task(w).pairs)
        BY <3>2, <3>3, <3>5 DEF SoFar
      <4> QED
        BY <4>1, <4>2
    <3>6. Unmoved(w)'
      BY <3>2, <3>3 DEF Unmoved
    <3>7. Task(w).kind = "member" => Foreseen(w)' /\ Granting(w)'
      BY <3>2, <3>3, <3>5 DEF Foreseen, Granting
    <3> QED
      BY <3>2, <3>4, <3>6, <3>7 DEF Knows
  <2>5. CASE GoesOn(w)
    <3>1. /\ Underway(w) /\ Task(w).kind = "member" /\ Task(w)' = Task(w) /\ P(w)' = P(w)
          /\ SoFar(w)' = SoFar(w) + 1
          /\ body'[w].stage = "probe" /\ body'[w].base = body[w].base
          /\ body'[w].alone = body[w].alone
      BY <2>5, GoesOnIs
    <3>2. PICK c \in BOOLEAN : (Finds(w, c) \/ Does(w, c)) /\ body'[w].changed = c
      BY <2>0, <2>5 DEF GoesOn, Fields
    <3>3. LET m == machine'[P(w)]
              t == Task(w)
              b == body[w].base
          IN  IF t.check
                THEN m = b /\ c = (\E i \in 1 .. (SoFar(w) + 1) : ~PairMet(t, t.pairs[i], b))
                ELSE /\ \A i \in 1 .. (SoFar(w) + 1) : PairMet(t, t.pairs[i], m)
                     /\ IF t.present THEN b.members \subseteq m.members
                                     ELSE m.members \subseteq b.members
                     /\ IF c THEN b.members # m.members ELSE m = b
      BY <1>2, <3>1, <3>2, SettledIsKnown
    <3>4. Machine(w)' = machine'[P(w)]
      BY <3>1 DEF Machine
    <3>5. Task(w).check => Foreseen(w)'
      BY <3>1, <3>2, <3>3, <3>4 DEF Foreseen
    <3>6. ~Task(w).check => Granting(w)'
      BY <3>1, <3>2, <3>3, <3>4 DEF Granting
    <3> QED
      BY <3>1, <3>5, <3>6 DEF Knows
  <2>6. CASE Begins(w)
    BY <1>2, <2>0, <2>6 DEF Begins, Underway, Fields
  <2>7. CASE Skips(w) \/ Finishes(w) \/ Gives(w) \/ Quits(w)
    BY <1>2, <2>7 DEF Skips, Finishes, Gives, Quits, Underway, NoBody
  <2> QED
    BY <2>2, <2>3, <2>4, <2>5, <2>6, <2>7 DEF Moves
<1> QED
  BY <1>1, <1>2 DEF AloneKnows

-----------------------------------------------------------------------------
(* What bodies that nobody contradicts keep *)

\* A body that acts on a target is one of those that task is asked of.
LEMMA ActorIsAsked ==
  ASSUME Typed, KeyHeld, NEW w \in Hosts, Acts(w)
  PROVE  /\ IsTask(Task(w)) /\ Task(w).kind # "csr" /\ Task(w) \in Asked(P(w))
         /\ Task(w).kind = "key" => pem[w] # NoKey
<1> USE DEF Typed, Framed
<1>1. Underway(w) /\ body[w].stage = "act"
  BY DEF Acts, Underway
<1>2. IsTask(Task(w)) /\ P(w) = Task(w).on /\ ops[w] \in DOMAIN work[w]
      /\ Task(w) = work[w][ops[w]]
  BY <1>1, TaskIs
<1>3. Meant(w)
  BY <1>1 DEF InTurn
<1>4. Task(w).kind # "csr"
  BY <1>3 DEF Meant, Decision
<1>5. Task(w) \in Asked(P(w))
  BY <1>2, <1>4 DEF Asked
<1> QED
  BY <1>1, <1>2, <1>4, <1>5 DEF KeyHeld, Held, Placing

\* What a step does to the target of a task that nobody contradicts.
LEMMA CalmTarget ==
  ASSUME Typed, KeyHeld, NEW w \in Hosts, MayAct(w),
         NEW s, IsTask(s), s.kind # "csr", Calm(s), machine'[s.on] # machine[s.on]
  PROVE  LET m == machine[s.on]
         IN  /\ IsMachine(m) /\ machine'[s.on] = Acted(w, m)
             /\ IsTask(Task(w)) /\ Agree(s, Task(w))
             /\ Task(w).kind = "marker" \/ Possible(Task(w), Pair(w), body[w].seen, m)
             /\ Task(w).kind = "key" => pem[w] # NoKey
<1>1. s.on \in Hosts
  BY DEF IsTask
<1>2. /\ Acts(w)
      /\ Task(w).kind = "marker" \/ Possible(Task(w), Pair(w), body[w].seen, Machine(w))
  BY <1>1 DEF MayAct
<1>3. /\ P(w) = s.on /\ machine'[P(w)] = Acted(w, Machine(w)) /\ IsMachine(Machine(w))
  BY <1>1, <1>2, ActIs DEF Typed
<1>4. /\ IsTask(Task(w)) /\ Task(w) \in Asked(P(w))
      /\ Task(w).kind = "key" => pem[w] # NoKey
  BY <1>2, ActorIsAsked
<1>5. Agree(s, Task(w))
  BY <1>3, <1>4 DEF Calm
<1> QED
  BY <1>2, <1>3, <1>4, <1>5 DEF Machine

\* The pairs a body has settled, and the one it settles, are as asked after it.
LEMMA PairsDone ==
  ASSUME Typed, NEW w \in Hosts, Underway(w), Task(w).kind = "member",
         Task(w).check = FALSE, PairsKept(w), NEW c \in BOOLEAN, Finds(w, c) \/ Does(w, c)
  PROVE  \A i \in 1 .. (SoFar(w) + 1) : PairMet(Task(w), Task(w).pairs[i], machine'[P(w)])
<1> USE DEF Typed, Framed
<1> DEFINE t == Task(w)
           m == machine'[P(w)]
<1>1. IsTask(t)
  BY TaskIs
<1>2. SoFar(w) \in Nat /\ Pair(w) = t.pairs[SoFar(w) + 1]
  BY PairIs
<1>3. /\ PairMet(t, Pair(w), m)
      /\ \A p : PairMet(t, p, Machine(w)) => PairMet(t, p, m)
  <2>1. CASE Finds(w, c)
    <3>1. m = Machine(w) /\ Decision(t, Pair(w), Machine(w)) = "leave"
      BY <2>1 DEF Finds, Machine
    <3> QED
      BY <1>1, <3>1, MemberDecided
  <2>2. CASE Does(w, c)
    <3>1. m = Acted(w, Machine(w)) /\ IsMachine(Machine(w))
      BY <2>2, ActIs DEF Does
    <3>2. m = Granted(t, Pair(w), Machine(w))
      BY <3>1 DEF Acted, Pair
    <3> QED
      BY <1>1, <3>1, <3>2, GrantedIs
  <2> QED
    BY <2>1, <2>2
<1>4. \A i \in 1 .. (SoFar(w) + 1) : i \in 1 .. SoFar(w) \/ i = SoFar(w) + 1
  BY <1>2
<1> QED
  BY <1>2, <1>3, <1>4 DEF PairsKept

\* What one body keeps in calm is kept by any step.
Keeps(w) ==
  /\ Task(w).kind = "member" => PairsKept(w)
  /\ Task(w).kind = "role" => RoleKept(w)

LEMMA KeptByAll ==
  ASSUME Typed, KeyHeld, NEW w \in Hosts, MayAct(w),
         NEW v \in Hosts, Underway(v), Calm(Task(v)), Task(v).check = FALSE, Keeps(v),
         Underway(v)', Task(v)' = Task(v), P(v)' = P(v), SoFar(v)' = SoFar(v),
         body'[v].stage = body[v].stage, body'[v].seen = body[v].seen
  PROVE  Keeps(v)'
<1> USE DEF Typed, Framed
<1> DEFINE t == Task(v)
<1>1. IsTask(t) /\ P(v) = t.on
  BY TaskIs
<1>2. Machine(v) = machine[t.on] /\ Machine(v)' = machine'[t.on]
  BY <1>1 DEF Machine
<1>3. ASSUME Machine(v)' = Machine(v) PROVE Keeps(v)'
  BY <1>3 DEF Keeps, PairsKept, RoleKept
<1>4. ASSUME Machine(v)' # Machine(v), t.kind \in {"member", "role"} PROVE Keeps(v)'
  <2>1. /\ IsMachine(Machine(v)) /\ Machine(v)' = Acted(w, Machine(v))
        /\ IsTask(Task(w)) /\ Agree(t, Task(w)) /\ Task(w).kind = t.kind
        /\ Possible(Task(w), Pair(w), body[w].seen, Machine(v))
    BY <1>1, <1>2, <1>4, CalmTarget DEF Agree
  <2>2. CASE t.kind = "member"
    <3>1. t = Task(w) /\ Machine(v)' = Granted(t, Head(body[w].left), Machine(v))
      BY <2>1, <2>2 DEF Agree, Acted
    <3>2. \A p : PairMet(t, p, Machine(v)) => PairMet(t, p, Machine(v)')
      BY <1>1, <2>1, <2>2, <3>1, GrantedIs
    <3>3. PairsKept(v)'
      BY <2>2, <3>2 DEF Keeps, PairsKept
    <3> QED
      BY <2>2, <3>3 DEF Keeps
  <2>3. CASE t.kind = "role"
    <3>1. ASSUME body[v].stage = "act", t.present, "r" \in body[v].seen.roles
          PROVE  /\ "r" \in Machine(v)'.roles
                 /\ \A a \in DOMAIN t.asked :
                      body[v].seen.attrs[a] = t.asked[a] => Machine(v)'.attrs[a] = t.asked[a]
      <4>1. /\ "r" \in Machine(v).roles
            /\ \A a \in DOMAIN t.asked :
                 body[v].seen.attrs[a] = t.asked[a] => Machine(v).attrs[a] = t.asked[a]
        BY <2>3, <3>1 DEF Keeps, RoleKept
      <4>2. /\ "r" \in Acted(w, Machine(v)).roles
            /\ \A a \in DOMAIN t.asked :
                 Machine(v).attrs[a] = t.asked[a] => Acted(w, Machine(v)).attrs[a] = t.asked[a]
        BY <1>1, <2>1, <2>3, <3>1, <4>1, RoleActKeeps
      <4> QED
        BY <2>1, <4>1, <4>2
    <3>2. RoleKept(v)'
      BY <3>1 DEF RoleKept
    <3> QED
      BY <2>3, <3>2 DEF Keeps
  <2> QED
    BY <1>4, <2>2, <2>3
<1>5. ASSUME t.kind \notin {"member", "role"} PROVE Keeps(v)'
  BY <1>5 DEF Keeps
<1> QED
  BY <1>3, <1>4, <1>5

\* What is asked of the targets does not change.
LEMMA CalmStays ==
  ASSUME NEW w \in Hosts, OthersStay(w)
  PROVE  \A p : Asked(p)' = Asked(p)
BY DEF OthersStay, Asked

LEMMA CalmStep ==
  ASSUME Typed, KeyHeld, CalmKept, NEW w \in Hosts, OthersStay(w), Moves(w)
  PROVE  CalmKept'
<1> USE DEF Typed, Framed
<1>1. MayAct(w) /\ \A p : Asked(p)' = Asked(p)
  BY MovesAct, CalmStays
<1>2. ASSUME NEW v \in Hosts, Task(v)' = Task(v)
      PROVE  Calm(Task(v))' <=> Calm(Task(v))
  BY <1>1, <1>2 DEF Calm
<1>3. ASSUME NEW v \in Hosts, v # w, Underway(v)', Calm(Task(v))', Task(v)'.check = FALSE
      PROVE  Keeps(v)'
  <2>1. /\ Underway(v) /\ Task(v)' = Task(v) /\ P(v)' = P(v) /\ SoFar(v)' = SoFar(v)
        /\ body'[v].stage = body[v].stage /\ body'[v].seen = body[v].seen
    BY <1>3, OthersKeep DEF Underway, SoFar
  <2>2. Calm(Task(v)) /\ Task(v).check = FALSE
    BY <1>2, <1>3, <2>1
  <2>3. Keeps(v)
    BY <2>1, <2>2 DEF CalmKept, Keeps
  <2> QED
    BY <1>1, <1>3, <2>1, <2>2, <2>3, KeptByAll
<1>4. ASSUME Underway(w)', Calm(Task(w))', Task(w)'.check = FALSE
      PROVE  Keeps(w)'
  <2>0. Fields \subseteq DOMAIN body[w]
    BY DEF Shaped
  <2>1. CASE Waits(w)
    <3>1. body' = body /\ OwnTask(w)
      BY <2>1 DEF Waits
    <3>2. /\ Underway(w) /\ Task(w)' = Task(w) /\ P(w)' = P(w) /\ SoFar(w)' = SoFar(w)
          /\ body'[w].stage = body[w].stage /\ body'[w].seen = body[w].seen
      BY <1>4, <3>1, OwnKeeps DEF Underway, SoFar
    <3>3. Calm(Task(w)) /\ Task(w).check = FALSE
      BY <1>2, <1>4, <3>2
    <3>4. Keeps(w)
      BY <3>2, <3>3 DEF CalmKept, Keeps
    <3> QED
      BY <1>1, <1>4, <3>2, <3>3, <3>4, KeptByAll
  <2>2. CASE Sees(w)
    <3>1. /\ OwnTask(w) /\ UNCHANGED machine /\ Underway(w)
          /\ body'[w].seen = Machine(w) /\ body'[w].left = body[w].left
      BY <2>0, <2>2 DEF Sees, Fields, Underway
    <3>2. Task(w)' = Task(w) /\ SoFar(w)' = SoFar(w) /\ Machine(w)' = Machine(w)
      BY <3>1, OwnKeeps DEF SoFar, Machine
    <3>3. Task(w).kind = "member" => PairsKept(w)
      BY <1>2, <1>4, <3>1, <3>2 DEF CalmKept
    <3>4. Task(w).kind = "member" => PairsKept(w)'
      BY <3>2, <3>3 DEF PairsKept
    <3>5. IsTask(Task(w)) /\ Decision(Task(w), Pair(w), Machine(w)) = "act"
      BY <2>2, <3>1, TaskIs DEF Sees
    <3>6. RoleKept(w)'
      BY <3>1, <3>2 DEF RoleKept
    <3> QED
      BY <3>2, <3>4, <3>6 DEF Keeps
  <2>3. CASE Enters(w)
    <3>1. OwnTask(w) /\ body[w].stage = "new" /\ Task(w).kind # "plain"
      BY <1>4, <2>3 DEF Enters, Underway
    <3>2. Task(w)' = Task(w) /\ IsTask(Task(w))
      BY <3>1, OwnKeeps, NextTaskIs
    <3>3. /\ Task(w).kind = "member" => body'[w].left = Task(w).pairs
          /\ body'[w].stage = "act" => ~Probes(Task(w))
      BY <2>3, <3>1 DEF Enters
    <3>4. body'[w].stage = "act" => Task(w).kind = "key"
      BY <3>3 DEF Probes
    <3>5. ASSUME Task(w).kind = "member" PROVE 1 .. SoFar(w)' = {}
      <4>1. Len(Task(w).pairs) \in Nat
        BY <3>2, <3>5, Counted DEF IsTask
      <4>2. SoFar(w)' = Len(Task(w).pairs) - Len(Task(w).pairs)
        BY <3>2, <3>3, <3>5 DEF SoFar
      <4> QED
        BY <4>1, <4>2
    <3>6. Task(w).kind = "member" => PairsKept(w)'
      BY <3>2, <3>5 DEF PairsKept
    <3>7. Task(w).kind = "role" => RoleKept(w)'
      BY <3>4 DEF RoleKept
    <3> QED
      BY <3>2, <3>6, <3>7 DEF Keeps
  <2>4. CASE GoesOn(w)
    <3>1. /\ Underway(w) /\ Task(w).kind = "member" /\ Task(w)' = Task(w) /\ P(w)' = P(w)
          /\ SoFar(w)' = SoFar(w) + 1
      BY <2>4, GoesOnIs
    <3>2. PICK c \in BOOLEAN : Finds(w, c) \/ Does(w, c)
      BY <2>4 DEF GoesOn
    <3>3. Task(w).check = FALSE /\ PairsKept(w)
      BY <1>2, <1>4, <3>1 DEF CalmKept
    <3>4. \A i \in 1 .. (SoFar(w) + 1) : PairMet(Task(w), Task(w).pairs[i], machine'[P(w)])
      BY <3>1, <3>2, <3>3, PairsDone
    <3>5. PairsKept(w)'
      BY <3>1, <3>4 DEF PairsKept, Machine
    <3> QED
      BY <3>1, <3>5 DEF Keeps
  <2>5. CASE Begins(w)
    BY <1>4, <2>0, <2>5 DEF Begins, Underway, Fields
  <2>6. CASE Skips(w) \/ Finishes(w) \/ Gives(w) \/ Quits(w)
    BY <1>4, <2>6 DEF Skips, Finishes, Gives, Quits, Underway, NoBody
  <2> QED
    BY <2>1, <2>2, <2>3, <2>4, <2>5, <2>6 DEF Moves
<1> QED
  BY <1>3, <1>4 DEF CalmKept, Keeps

-----------------------------------------------------------------------------
(* What is recorded *)

\* How a body that is recorded as done came to its end.
Done(w, e) ==
  /\ Underway(w) /\ ~(Len(body[w].left) > 1) /\ e.task = Task(w) /\ e.result = "ok"
  /\ \E c \in BOOLEAN : (Finds(w, c) \/ Does(w, c)) /\ e.changed = c
  /\ e.base = body[w].base /\ e.left = machine'[P(w)] /\ e.alone = body[w].alone
Skipped(w, e) ==
  /\ body[w].stage = "new" /\ e.task = Task(w) /\ Task(w).kind = "csr"
  /\ e.result = "ok" /\ e.changed = FALSE /\ e.base = e.left

\* A record in the next state is one of before, or the one of the body that ends.
LEMMA RecordIs ==
  ASSUME Recorded, NEW w \in Hosts, OthersStay(w), Moves(w),
         log' = [v \in Hosts |-> log'[v]], NEW e \in Entries'
  PROVE  e \in Entries \/ e.result = "failed" \/ Done(w, e) \/ Skipped(w, e)
<1>0. PICK v \in Hosts : \E i \in DOMAIN log'[v] : e = log'[v][i]
  BY DEF Entries
<1>1. PICK i \in DOMAIN log'[v] : e = log'[v][i]
  BY <1>0
<1>2. ASSUME v # w \/ log'[w] = log[w] PROVE e \in Entries
  <2>1. log'[v] = log[v]
    BY <1>2 DEF OthersStay
  <2> QED
    BY <1>1, <2>1 DEF Entries
<1>3. ASSUME NEW f, v = w, log'[w] = Append(log[w], f) PROVE e \in Entries \/ e = f
  <2>1. /\ Len(log[w]) \in Nat /\ DOMAIN log[w] = 1 .. Len(log[w])
        /\ DOMAIN log'[w] = 1 .. (Len(log[w]) + 1)
        /\ \A j \in DOMAIN log[w] : log'[w][j] = log[w][j]
        /\ log'[w][Len(log[w]) + 1] = f
    BY <1>3, Appended DEF Recorded
  <2>2. i \in DOMAIN log[w] \/ i = Len(log[w]) + 1
    BY <1>1, <1>3, <2>1
  <2>3. i \in DOMAIN log[w] => log[w][i] \in Entries
    BY DEF Entries
  <2> QED
    BY <1>1, <1>3, <2>1, <2>2, <2>3
<1>4. ASSUME Skips(w), v = w PROVE e \in Entries \/ Skipped(w, e)
  <2> DEFINE f == [task |-> Task(w), result |-> "ok", changed |-> FALSE, signed |-> pem[w],
                   base |-> Machine(w), left |-> Machine(w), alone |-> Lonely(w)]
  <2>1. log'[w] = Append(log[w], f) /\ Skipped(w, f)
    BY <1>4 DEF Skips, Skipped
  <2> HIDE DEF f
  <2> QED
    BY <1>3, <1>4, <2>1
<1>5. ASSUME Finishes(w), v = w PROVE e \in Entries \/ Done(w, e)
  <2>1. PICK c \in BOOLEAN :
          /\ Finds(w, c) \/ Does(w, c)
          /\ log'[w] = Append(log[w],
               [task |-> Task(w), result |-> "ok", changed |-> c,
                signed |-> IF Task(w).kind = "csr" THEN Signs(w) ELSE NoKey,
                base |-> body[w].base, left |-> machine'[P(w)], alone |-> body[w].alone])
    BY <1>5 DEF Finishes
  <2> DEFINE f == [task |-> Task(w), result |-> "ok", changed |-> c,
                   signed |-> IF Task(w).kind = "csr" THEN Signs(w) ELSE NoKey,
                   base |-> body[w].base, left |-> machine'[P(w)], alone |-> body[w].alone]
  <2>2. /\ f.task = Task(w) /\ f.result = "ok" /\ f.changed = c /\ f.base = body[w].base
        /\ f.left = machine'[P(w)] /\ f.alone = body[w].alone
    OBVIOUS
  <2>3. log'[w] = Append(log[w], f)
    BY <2>1
  <2> HIDE DEF f
  <2>4. Underway(w) /\ ~(Len(body[w].left) > 1)
    BY <1>5, <2>1 DEF Finishes, Finds, Does, Underway
  <2>5. Done(w, f)
    BY <2>1, <2>2, <2>4 DEF Done
  <2> QED
    BY <1>3, <1>5, <2>3, <2>5
<1>6. ASSUME Gives(w), v = w PROVE e \in Entries \/ e.result = "failed"
  <2> DEFINE f == [task |-> Task(w), result |-> "failed", changed |-> body[w].changed,
                   signed |-> NoKey, base |-> body[w].base, left |-> machine'[P(w)],
                   alone |-> body[w].alone]
  <2>1. log'[w] = Append(log[w], f) /\ f.result = "failed"
    BY <1>6 DEF Gives
  <2> HIDE DEF f
  <2> QED
    BY <1>3, <1>6, <2>1
<1> QED
  BY <1>2, <1>4, <1>5, <1>6 DEF Moves, Waits, Begins, Enters, Sees, GoesOn, Quits

\* A body that ends well leaves its target as asked, if what a role had when it was
\* looked at still stands.
LEMMA DoneMeets ==
  ASSUME Typed, KeyHeld, NEW w \in Hosts, Underway(w), NEW c \in BOOLEAN,
         Finds(w, c) \/ Does(w, c), Task(w).kind # "member", Task(w).check = FALSE,
         (body[w].stage = "act" /\ Task(w).kind = "role" /\ Task(w).present
            /\ "r" \in body[w].seen.roles) =>
           \A a \in DOMAIN Task(w).asked :
             body[w].seen.attrs[a] = Task(w).asked[a] => Machine(w).attrs[a] = Task(w).asked[a]
  PROVE  Goal(Task(w), machine'[P(w)])
<1> USE DEF Typed, Framed
<1>1. IsTask(Task(w))
  BY TaskIs
<1>2. CASE Finds(w, c)
  <2>1. machine'[P(w)] = Machine(w) /\ Decision(Task(w), Pair(w), Machine(w)) = "leave"
    BY <1>2 DEF Finds, Machine
  <2> QED
    BY <1>1, <2>1, LeftIsMet
<1>3. CASE Does(w, c)
  <2>1. /\ body[w].stage = "act" /\ Acts(w)
        /\ Possible(Task(w), Pair(w), body[w].seen, Machine(w))
    BY <1>3 DEF Does
  <2>2. machine'[P(w)] = Acted(w, Machine(w)) /\ IsMachine(Machine(w))
    BY <2>1, ActIs
  <2>3. Meant(w) /\ (Task(w).kind = "key" => pem[w] # NoKey)
    BY <2>1, ActorIsAsked DEF InTurn
  <2>4. Goal(Task(w), Acted(w, Machine(w)))
    BY <1>1, <2>1, <2>2, <2>3, ActMeets
  <2> QED
    BY <2>2, <2>4
<1> QED
  BY <1>2, <1>3

\* The record of a body that was alone: its target is as asked.
LEMMA DoneIsMet ==
  ASSUME Typed, KeyHeld, AloneKnows, NEW w \in Hosts, NEW e, Done(w, e)
  PROVE  MetIn(e)
<1> USE DEF Typed, Framed
<1> SUFFICES ASSUME body[w].alone, ~Task(w).check PROVE Goal(Task(w), machine'[P(w)])
  BY DEF Done, MetIn
<1>1. PICK c \in BOOLEAN : Finds(w, c) \/ Does(w, c)
  BY DEF Done
<1>2. Underway(w) /\ IsTask(Task(w)) /\ Knows(w) /\ Task(w).check = FALSE
  BY TaskIs DEF Done, AloneKnows, IsTask
<1>3. CASE Task(w).kind = "member"
  <2>1. \A i \in 1 .. (SoFar(w) + 1) : PairMet(Task(w), Task(w).pairs[i], machine'[P(w)])
    BY <1>1, <1>2, <1>3, SettledIsKnown
  <2>2. SoFar(w) + 1 = Len(Task(w).pairs)
    BY <1>2, <1>3, PairIs DEF Done
  <2> QED
    BY <1>2, <1>3, <2>1, <2>2, PairsAreGoal
<1>4. CASE Task(w).kind # "member"
  <2>1. (body[w].stage = "act" /\ Task(w).kind = "role") => Machine(w) = body[w].seen
    BY <1>2 DEF Knows
  <2> QED
    BY <1>1, <1>2, <1>4, <2>1, DoneMeets
<1> QED
  BY <1>3, <1>4

\* And what is told of it is true.
LEMMA DoneIsTold ==
  ASSUME Typed, AloneKnows, NEW w \in Hosts, NEW e, Done(w, e)
  PROVE  ToldTrue(e)
<1> USE DEF Typed, Framed
<1> DEFINE t == Task(w)
           m == machine'[P(w)]
           b == body[w].base
           d == Decision(t, Pair(w), Machine(w))
<1>0. PICK c \in BOOLEAN : (Finds(w, c) \/ Does(w, c)) /\ e.changed = c
  BY DEF Done
<1> SUFFICES ASSUME body[w].alone, ~(t.kind = "role" /\ t.opaque)
             PROVE  IF t.check THEN b = m /\ (c <=> t.kind # "marker" /\ ~Goal(t, b))
                               ELSE c <=> b # m
  BY <1>0 DEF Done, ToldTrue
<1>1. Underway(w) /\ IsTask(t) /\ Knows(w)
  BY TaskIs DEF Done, AloneKnows
<1>2. CASE t.kind = "member"
  <2>1. SoFar(w) + 1 = Len(t.pairs)
    BY <1>1, <1>2, PairIs DEF Done
  <2>2. IF t.check
          THEN m = b /\ c = (\E i \in 1 .. Len(t.pairs) : ~PairMet(t, t.pairs[i], b))
          ELSE IF c THEN b.members # m.members ELSE m = b
    BY <1>0, <1>1, <1>2, <2>1, SettledIsKnown
  <2>3. Goal(t, b) <=> \A i \in 1 .. Len(t.pairs) : PairMet(t, t.pairs[i], b)
    BY <1>1, <1>2, PairsAreGoal
  <2> HIDE DEF t, m, b
  <2> QED
    BY <1>2, <2>2, <2>3
<1>3. CASE t.kind # "member"
  <2>1. b = Machine(w) /\ body[w].changed = FALSE
    BY <1>1, <1>3 DEF Knows, Unmoved, InTurn, Ahead
  <2>2. t.check \in BOOLEAN
    BY <1>1 DEF IsTask
  <2>3. CASE Finds(w, c)
    <3>1. /\ m = Machine(w) /\ c = (d = "act")
          /\ d = "leave" \/ (d = "act" /\ t.check /\ t.kind # "marker")
      BY <2>1, <2>3 DEF Finds, Machine
    <3>2. d = "leave" => Goal(t, b)
      BY <1>1, <1>3, <2>1, LeftIsMet
    <3>3. d = "act" => ~Goal(t, b)
      BY <1>1, <1>3, <2>1, ActedOnIsUnmet
    <3> HIDE DEF d, m, b
    <3> QED
      BY <2>1, <3>1, <3>2, <3>3
  <2>4. CASE Does(w, c)
    <3>1. /\ body[w].stage = "act" /\ Acts(w) /\ Meant(w)
          /\ t.kind # "key" => Machine(w) = body[w].seen
      BY <1>1, <2>4 DEF Does, InTurn, Knows
    <3>2. m = Acted(w, Machine(w)) /\ IsMachine(Machine(w))
      BY <3>1, ActIs
    <3>3. c = (IF t.kind = "key" THEN m # Machine(w) ELSE ~t.check)
      BY <2>1, <2>4 DEF Does
    <3>4. CASE t.check
      <4>1. t.kind = "marker"
        BY <3>1, <3>4 DEF Meant
      <4>2. m = [Machine(w) EXCEPT !.marker = @]
        BY <3>2, <3>4, <4>1 DEF Acted
      <4>3. m = Machine(w)
        BY <3>2, <4>2 DEF IsMachine
      <4> HIDE DEF m, b
      <4> QED
        BY <2>1, <3>3, <3>4, <4>1, <4>3
    <3>5. CASE ~t.check /\ t.kind = "key"
      <4> HIDE DEF m, b
      <4> QED
        BY <2>1, <3>3, <3>5
    <3>6. CASE ~t.check /\ t.kind # "key"
      <4>1. t.kind \in {"marker", "role", "db"} /\ t.check = FALSE
            /\ Decision(t, Pair(w), Machine(w)) = "act"
        BY <1>1, <1>3, <2>2, <3>1, <3>6 DEF Meant, IsTask, Decision
      <4>2. m # Machine(w)
        BY <1>1, <3>1, <3>2, <3>6, <4>1, ActChanges
      <4> HIDE DEF m, b
      <4> QED
        BY <2>1, <3>3, <3>6, <4>2
    <3> QED
      BY <3>4, <3>5, <3>6
  <2> QED
    BY <1>0, <2>3, <2>4
<1> QED
  BY <1>2, <1>3

\* Records stay true.
LEMMA RecordsStep ==
  ASSUME Typed, KeyHeld, AloneKnows, RecordsTrue, NEW w \in Hosts, OthersStay(w), Moves(w),
         log' = [v \in Hosts |-> log'[v]]
  PROVE  RecordsTrue'
<1> USE DEF Typed, Framed
<1>1. work' = work
  BY DEF OthersStay
<1>2. ASSUME NEW e PROVE OfPlan(e)' <=> OfPlan(e)
  BY <1>1 DEF OfPlan
<1>3. ASSUME NEW e \in Entries'
      PROVE  (e.result = "ok" => OfPlan(e)) /\ MetIn(e) /\ ToldTrue(e)
  <2>1. CASE e \in Entries
    BY <2>1 DEF RecordsTrue
  <2>2. CASE e.result = "failed"
    BY <2>2 DEF MetIn, ToldTrue
  <2>3. CASE Done(w, e)
    <3>1. OfPlan(e)
      BY <2>3, TaskIs DEF Done, OfPlan
    <3> QED
      BY <2>3, <3>1, DoneIsMet, DoneIsTold
  <2>4. CASE Skipped(w, e)
    <3>1. OfPlan(e)
      BY <2>4, NextTaskIs DEF Skipped, OfPlan
    <3>2. Goal(e.task, e.left) /\ Goal(e.task, e.base)
      BY <2>4 DEF Skipped, Goal
    <3>3. ToldTrue(e)
      BY <2>4, <3>2 DEF Skipped, ToldTrue
    <3> QED
      BY <3>1, <3>2, <3>3 DEF MetIn
  <2> QED
    BY <1>3, <2>1, <2>2, <2>3, <2>4, RecordIs
<1>4. ASSUME NEW e \in Entries'
      PROVE  ((e.result = "ok" => OfPlan(e)) /\ MetIn(e) /\ ToldTrue(e))'
  BY <1>2, <1>3, <1>4 DEF MetIn, ToldTrue
<1> QED
  BY <1>4 DEF RecordsTrue

\* A task that ended well and that nobody contradicts stays as asked.
LEMMA RacersStep ==
  ASSUME Typed, KeyHeld, CalmKept, RecordsTrue, RacersAgree,
         NEW w \in Hosts, OthersStay(w), Moves(w), log' = [v \in Hosts |-> log'[v]]
  PROVE  RacersAgree'
<1> USE DEF Typed, Framed
<1>1. MayAct(w) /\ \A p : Asked(p)' = Asked(p)
  BY MovesAct, CalmStays
<1> SUFFICES ASSUME NEW e \in Entries', e.result = "ok", ~e.task.check, Calm(e.task)
             PROVE  Goal(e.task, machine'[e.task.on])
  BY <1>1 DEF RacersAgree, Calm
<1>2. CASE e \in Entries
  <2>1. Goal(e.task, machine[e.task.on]) /\ OfPlan(e)
    BY <1>2 DEF RacersAgree, RecordsTrue, Calm
  <2>2. IsTask(e.task)
    BY <2>1 DEF OfPlan, Planned
  <2>3. CASE e.task.kind = "csr"
    BY <2>3 DEF Goal
  <2>4. CASE machine'[e.task.on] = machine[e.task.on]
    BY <2>1, <2>4
  <2>5. CASE e.task.kind # "csr" /\ machine'[e.task.on] # machine[e.task.on]
    <3>1. e.task.check = FALSE
      BY <2>2 DEF IsTask
    <3>2. LET m == machine[e.task.on]
          IN  /\ IsMachine(m) /\ machine'[e.task.on] = Acted(w, m)
              /\ IsTask(Task(w)) /\ Agree(e.task, Task(w))
              /\ Task(w).kind = "marker" \/ Possible(Task(w), Pair(w), body[w].seen, m)
              /\ Task(w).kind = "key" => pem[w] # NoKey
      BY <1>1, <2>2, <2>5, CalmTarget
    <3> QED
      BY <2>1, <2>2, <2>5, <3>1, <3>2, GoalKept
  <2> QED
    BY <2>3, <2>4, <2>5
<1>3. CASE Done(w, e)
  <2>1. PICK c \in BOOLEAN : Finds(w, c) \/ Does(w, c)
    BY <1>3 DEF Done
  <2>2. /\ Underway(w) /\ IsTask(Task(w)) /\ P(w) = Task(w).on /\ e.task = Task(w)
        /\ Task(w).check = FALSE /\ Calm(Task(w))
    BY <1>3, TaskIs DEF Done, IsTask
  <2>3. /\ Task(w).kind = "member" => PairsKept(w)
        /\ Task(w).kind = "role" => RoleKept(w)
    BY <2>2 DEF CalmKept
  <2>4. CASE Task(w).kind = "member"
    <3>1. \A i \in 1 .. (SoFar(w) + 1) : PairMet(Task(w), Task(w).pairs[i], machine'[P(w)])
      BY <2>1, <2>2, <2>3, <2>4, PairsDone
    <3>2. SoFar(w) + 1 = Len(Task(w).pairs)
      BY <1>3, <2>2, <2>4, PairIs DEF Done
    <3> QED
      BY <2>2, <2>4, <3>1, <3>2, PairsAreGoal
  <2>5. CASE Task(w).kind # "member"
    <3>1. (body[w].stage = "act" /\ Task(w).kind = "role" /\ Task(w).present
             /\ "r" \in body[w].seen.roles) =>
            \A a \in DOMAIN Task(w).asked :
              body[w].seen.attrs[a] = Task(w).asked[a] => Machine(w).attrs[a] = Task(w).asked[a]
      BY <2>3 DEF RoleKept
    <3> QED
      BY <2>1, <2>2, <2>5, <3>1, DoneMeets
  <2> QED
    BY <2>4, <2>5
<1>4. CASE Skipped(w, e)
  BY <1>4 DEF Skipped, Goal
<1> QED
  BY <1>2, <1>3, <1>4, RecordIs

-----------------------------------------------------------------------------
(* What bodies leave behind and report: the theorem *)

\* What a step leaves as it is, it leaves true.
LEMMA BodyRests == BodyParts /\ UNCHANGED <<vars, bodies>> => BodyParts'
<1> SUFFICES ASSUME BodyParts, UNCHANGED <<vars, bodies>> PROVE BodyParts'
  OBVIOUS
<1>1. UNCHANGED <<pc, ops, target, work, machine, body, pem, log>>
  BY DEF vars, bodies
<1>2. BodyTypeOK' /\ Planned' /\ Recorded' /\ AtTask'
  BY <1>1 DEF BodyParts, BodyTypeOK, Planned, Recorded, AtTask, InBody, P, Task
<1>3. InTurn' /\ KeyHeld'
  BY <1>1 DEF BodyParts, InTurn, KeyHeld, Underway, Ahead, Meant, Held, Placing, SoFar, Pair, Task
<1>4. AloneKnows'
  BY <1>1 DEF BodyParts, AloneKnows, Underway, Knows, Unmoved, Foreseen, Granting, SoFar,
     Machine, P, Task
<1>5. CalmKept'
  <2> SUFFICES ASSUME NEW w \in Hosts, Underway(w)', Calm(Task(w))', Task(w).check' = FALSE
               PROVE  /\ Task(w).kind' = "member" => PairsKept(w)'
                      /\ Task(w).kind' = "role" => RoleKept(w)'
    BY DEF CalmKept
  <2>1. Underway(w) /\ Task(w)' = Task(w)
    BY <1>1 DEF Underway, Task
  <2>2. Calm(Task(w))
    BY <1>1, <2>1 DEF Calm, Asked
  <2>3. PairsKept(w)' <=> PairsKept(w)
    BY <1>1, <2>1 DEF PairsKept, SoFar, Machine, P, Task
  <2>4. RoleKept(w)' <=> RoleKept(w)
    BY <1>1, <2>1 DEF RoleKept, SoFar, Machine, P, Task
  <2> QED
    BY <2>1, <2>2, <2>3, <2>4 DEF BodyParts, CalmKept
<1>6. RecordsTrue' /\ RacersAgree' /\ SignedByPlaced'
  BY <1>1 DEF BodyParts, RecordsTrue, RacersAgree, SignedByPlaced, Entries, OfPlan, MetIn,
     ToldTrue, Asked
<1> QED
  BY <1>2, <1>3, <1>4, <1>5, <1>6 DEF BodyParts

\* Every action leaves the keys and the records of the other walkers in their place.
LEMMA StepFunctional ==
  ASSUME Recorded, CompositeNext
  PROVE  pem' = [v \in Hosts |-> pem'[v]] /\ log' = [v \in Hosts |-> log'[v]]
BY DEF Recorded, CompositeNext, BeginTask, BodyStep, PoolStep, bodies, Enter, ProbeEnds, ActEnds,
   Settled, ExchangeFails, ExchangeBreaks, Ended, DeadEnds, NoAgent, PlainEnds

LEMMA BodyStepInv == BodyInv /\ [CompositeNext]_<<vars, bodies>> => BodyInv'
<1> SUFFICES ASSUME BodyInv, [CompositeNext]_<<vars, bodies>> PROVE BodyInv'
  OBVIOUS
<1>1. KeyInv'
  BY KeyStep DEF BodyInv
<1>2. ASSUME CompositeNext PROVE BodyParts'
  <2>1. Typed /\ Solitary
    BY DEF BodyInv, BodyParts, KeyInv, Typed, Framed
  <2>2. PICK w \in Hosts : OthersStay(w) /\ Moves(w)
    BY <1>2, <2>1, StepMoves DEF Typed
  <2>3. pem' = [v \in Hosts |-> pem'[v]] /\ log' = [v \in Hosts |-> log'[v]]
    BY <1>2, <2>1, StepFunctional DEF Typed, Framed
  <2>4. Planned' /\ Recorded'
    BY <2>1, <2>2, <2>3, PlannedStep, RecordedStep
  <2>5. BodyTypeOK' /\ AtTask'
    BY <1>1, <2>1, <2>2, <2>4, PlaceStep DEF KeyInv
  <2>6. InTurn' /\ KeyHeld'
    BY <2>1, <2>2, TurnStep, KeyHeldStep DEF BodyInv, BodyParts
  <2>7. AloneKnows' /\ CalmKept'
    BY <2>1, <2>2, AloneStep, CalmStep DEF BodyInv, BodyParts
  <2>8. RecordsTrue' /\ RacersAgree'
    BY <2>1, <2>2, <2>3, RecordsStep, RacersStep DEF BodyInv, BodyParts
  <2>9. SignedByPlaced'
    BY <2>1, <2>2, SignedStep DEF BodyInv, BodyParts
  <2> QED
    BY <2>4, <2>5, <2>6, <2>7, <2>8, <2>9 DEF BodyParts
<1> QED
  BY <1>1, <1>2, BodyRests DEF BodyInv

\* The bodies start with nothing done.
LEMMA BodyInit == CompositeInit => BodyParts
<1> SUFFICES ASSUME CompositeInit PROVE BodyParts
  OBVIOUS
<1>1. PICK plan \in Plans : work = plan.work /\ machine = plan.machine
  BY DEF CompositeInit
<1>2. /\ body = [w \in Hosts |-> NoBody] /\ pem = [w \in Hosts |-> NoKey]
      /\ log = [w \in Hosts |-> <<>>]
  BY DEF CompositeInit
<1>3. \A w \in Hosts : pc[w] = "idle" /\ ops[w] = 0 /\ log[w] = <<>> /\ pem[w] = NoKey
                       /\ body[w].stage = "idle" /\ body[w].changed = FALSE
  <2>1. \A w \in Hosts : pc[w] = "idle" /\ ops[w] = 0
    BY DEF CompositeInit, Init
  <2>2. \A w \in Hosts : body[w] = NoBody /\ log[w] = <<>> /\ pem[w] = NoKey
    BY <1>2
  <2>3. NoBody.stage = "idle" /\ NoBody.changed = FALSE
    BY DEF NoBody
  <2> QED
    BY <2>1, <2>2, <2>3
<1>4. Len(<<>>) = 0 /\ IsSequence(<<>>) /\ DOMAIN <<>> = {}
  BY DEF IsSequence
<1>5. \A w \in Hosts : ~Underway(w) /\ ~InBody(w)
  BY <1>3 DEF Underway, InBody
<1>6. Planned
  BY <1>1, PlansAssumption DEF Planned
<1>7. Recorded
  BY <1>2, <1>4 DEF Recorded
<1>8. BodyTypeOK /\ AtTask
  <2>1. \A w \in Hosts : Len(log[w]) = 0 /\ ops[w] = 0
    BY <1>3, <1>4
  <2>2. BodyTypeOK
    <3> SUFFICES ASSUME NEW w \in Hosts
                 PROVE  /\ body[w].stage \in {"idle", "new", "plain", "probe", "act"}
                        /\ body[w].stage = "idle" <=>
                             pc[w] \in {"idle", "failed", "broken", "killing", "gone"}
                        /\ pc[w] \in {"guarded", "inOp"} => InBody(w)
                        /\ body[w].changed \in BOOLEAN /\ Len(log[w]) <= ops[w]
                        /\ pem[w] = NoKey \/ Len(pem[w]) = 2
      BY DEF BodyTypeOK
    <3>1. Len(log[w]) <= ops[w]
      BY <2>1
    <3>2. pc[w] = "idle" /\ body[w].stage = "idle" /\ body[w].changed = FALSE /\ pem[w] = NoKey
      BY <1>3
    <3> QED
      BY <3>1, <3>2
  <2>3. AtTask
    BY <1>3 DEF AtTask
  <2> QED
    BY <2>2, <2>3
<1>9. InTurn /\ AloneKnows /\ CalmKept
  BY <1>5 DEF InTurn, AloneKnows, CalmKept
<1>10. KeyHeld
  BY <1>3, <1>5 DEF KeyHeld, Held, Placing
<1>11. Entries = {}
  BY <1>3, <1>4 DEF Entries
<1>12. RecordsTrue /\ RacersAgree
  BY <1>11 DEF RecordsTrue, RacersAgree
<1>13. SignedByPlaced
  BY <1>3, <1>4 DEF SignedByPlaced
<1> QED
  BY <1>6, <1>7, <1>8, <1>9, <1>10, <1>12, <1>13 DEF BodyParts

\* Whatever the plans, the walkers and the order in which they come to a target, and
\* whatever fails or breaks: a body that ends well and was alone leaves its target as its
\* task asks and tells truly whether it changed it; bodies that contradict nobody keep
\* what they were asked for however they overlap; and a request is signed with the key
\* the play has placed, or found.
THEOREM BodiesAreTrue == SafeCompositeSpec => []BodiesTrue
<1>1. CompositeInit => KeyInv
  BY KeyInit
<1>2. CompositeInit => BodyInv
  BY <1>1, BodyInit DEF BodyInv
<1>3. BodyInv => BodiesTrue
  BY DEF BodyInv, BodyParts, RecordsTrue, MetIn, ToldTrue, BodiesTrue, GoalMet, ChangedTrue
<1> QED
  BY <1>2, <1>3, BodyStepInv, PTL DEF SafeCompositeSpec
=============================================================================
