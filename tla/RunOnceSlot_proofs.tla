-------------------------- MODULE RunOnceSlot_proofs --------------------------
(***************************************************************************)
(* Safety of RunOnceSlot for every set of publishers, waiters and results. *)
(***************************************************************************)
EXTENDS RunOnceSlot, TLAPS

\* A future is never created in the future: its snapshot is a past count.
SnapshotBound == \A w \in Waiters : seen[w] <= calls

\* A waiter has nothing in its hands before `wait` returns.
NothingEarly == \A w \in Waiters : pc[w] # "done" => got[w] = NoResult

\* The inductive invariant.
IInv == TypeOK /\ SnapshotBound /\ NoLostWakeup /\ Agreement /\ NothingEarly

-----------------------------------------------------------------------------
\* Every step keeps the types of the primitives and of the callers' locals.
LEMMA Typing == TypeOK /\ [Next]_vars => TypeOK'
<1> SUFFICES ASSUME TypeOK, [Next]_vars PROVE TypeOK'
  OBVIOUS
<1> USE DEF TypeOK
<1>1. ASSUME NEW p \in Publishers, NEW v \in Results, SetCell(p, v) PROVE TypeOK'
  BY <1>1 DEF SetCell
<1>2. ASSUME NEW p \in Publishers, NotifyWaiters(p) PROVE TypeOK'
  BY <1>2 DEF NotifyWaiters
<1>3. ASSUME NEW w \in Waiters, Arrive(w) PROVE TypeOK'
  BY <1>3 DEF Arrive
<1>4. ASSUME NEW w \in Waiters, Register(w) PROVE TypeOK'
  BY <1>4 DEF Register
<1>5. ASSUME NEW w \in Waiters, Check(w) PROVE TypeOK'
  BY <1>5 DEF Check
<1>6. ASSUME NEW w \in Waiters, Await(w) PROVE TypeOK'
  BY <1>6 DEF Await
<1>7. CASE UNCHANGED vars
  BY <1>7 DEF vars
<1> QED
  BY <1>1, <1>2, <1>3, <1>4, <1>5, <1>6, <1>7 DEF Next, WaiterStep

\* The initial state satisfies the invariant.
LEMMA InitInv == Init => IInv
  BY DEF Init, IInv, TypeOK, SnapshotBound, NoLostWakeup, Agreement, NothingEarly

\* Every step preserves the invariant.
LEMMA StepInv == IInv /\ [Next]_vars => IInv'
<1> SUFFICES ASSUME IInv, [Next]_vars PROVE IInv'
  OBVIOUS
<1> USE ResultAssumption
<1>0. TypeOK /\ TypeOK'
  BY Typing DEF IInv
<1>a. SnapshotBound /\ NoLostWakeup /\ Agreement /\ NothingEarly
  BY DEF IInv
<1> USE <1>0, <1>a DEF TypeOK, SnapshotBound, NothingEarly, Agreement, NoLostWakeup
<1>1. ASSUME NEW p \in Publishers, NEW v \in Results, SetCell(p, v) PROVE IInv'
  <2>1. SnapshotBound' /\ Agreement' /\ NothingEarly'
    BY <1>1 DEF SetCell
  <2>2. NoLostWakeup'
    <3>1. CASE cell = NoResult
      BY <1>1, <3>1 DEF SetCell
    <3>2. CASE cell # NoResult
      BY <1>1, <3>2 DEF SetCell
    <3> QED BY <3>1, <3>2
  <2> QED BY <2>1, <2>2 DEF IInv
<1>2. ASSUME NEW p \in Publishers, NotifyWaiters(p) PROVE IInv'
  <2>1. SnapshotBound' /\ Agreement' /\ NothingEarly'
    BY <1>2 DEF NotifyWaiters
  <2>2. \A w \in Waiters : calls' # seen'[w]
    BY <1>2 DEF NotifyWaiters
  <2> QED BY <2>1, <2>2 DEF IInv
<1>3. ASSUME NEW w \in Waiters, Arrive(w) PROVE IInv'
  BY <1>3 DEF Arrive, IInv
<1>4. ASSUME NEW w \in Waiters, Register(w) PROVE IInv'
  BY <1>4 DEF Register, IInv
<1>5. ASSUME NEW w \in Waiters, Check(w) PROVE IInv'
  <2>1. CASE cell # NoResult
    BY <1>5, <2>1 DEF Check, IInv
  <2>2. CASE cell = NoResult
    BY <1>5, <2>2 DEF Check, IInv
  <2> QED BY <2>1, <2>2
<1>6. ASSUME NEW w \in Waiters, Await(w) PROVE IInv'
  BY <1>6 DEF Await, IInv
<1>7. CASE UNCHANGED vars
  BY <1>7 DEF vars, IInv
<1> QED
  BY <1>1, <1>2, <1>3, <1>4, <1>5, <1>6, <1>7 DEF Next, WaiterStep

\* The invariant holds in every reachable state.
THEOREM Invariance == SafeSpec => []IInv
  BY InitInv, StepInv, PTL DEF SafeSpec

\* Type correctness of the slot, for any number of walkers.
THEOREM TypeCorrect == SafeSpec => []TypeOK
  BY Invariance, PTL DEF IInv

\* The register-before-check order of `wait` loses no wake-up, however many
\* hosts wait and whatever the interleaving.
THEOREM WakeupSafety == SafeSpec => []NoLostWakeup
  BY Invariance, PTL DEF IInv

\* Every host that got past a slot carries the one published result.
THEOREM OneResult == SafeSpec => []Agreement
  BY Invariance, PTL DEF IInv

-----------------------------------------------------------------------------
\* A step of the slot is a step of the one-shot broadcast, or a stutter.
LEMMA StepRefines == IInv /\ [Next]_vars => [Broadcast!BNext]_(Broadcast!bvars)
<1> SUFFICES ASSUME IInv, [Next]_vars PROVE [Broadcast!BNext]_(Broadcast!bvars)
  OBVIOUS
<1> USE DEF IInv, TypeOK, Broadcast!BNext, Broadcast!bvars
<1>1. ASSUME NEW p \in Publishers, NEW v \in Results, SetCell(p, v)
      PROVE Broadcast!Decide(v) \/ UNCHANGED Broadcast!bvars
  BY <1>1 DEF SetCell, Broadcast!Decide
<1>2. ASSUME NEW p \in Publishers, NotifyWaiters(p) PROVE UNCHANGED Broadcast!bvars
  BY <1>2 DEF NotifyWaiters
<1>3. ASSUME NEW w \in Waiters, Arrive(w) PROVE Broadcast!Ask(w)
  BY <1>3 DEF Arrive, Broadcast!Ask
<1>4. ASSUME NEW w \in Waiters, Register(w) PROVE UNCHANGED Broadcast!bvars
  BY <1>4 DEF Register
<1>5. ASSUME NEW w \in Waiters, Check(w)
      PROVE Broadcast!Deliver(w) \/ UNCHANGED Broadcast!bvars
  <2>0. {u \in Waiters : pc'[u] # "away"} = {u \in Waiters : pc[u] # "away"}
    BY <1>5 DEF Check
  <2>1. CASE cell # NoResult
    BY <1>5, <2>0, <2>1 DEF Check, Broadcast!Deliver, NothingEarly
  <2>2. CASE cell = NoResult
    BY <1>5, <2>0, <2>2 DEF Check
  <2> QED BY <2>1, <2>2
<1>6. ASSUME NEW w \in Waiters, Await(w) PROVE UNCHANGED Broadcast!bvars
  BY <1>6 DEF Await
<1>7. CASE UNCHANGED vars
  BY <1>7 DEF vars
<1> QED
  BY <1>1, <1>2, <1>3, <1>4, <1>5, <1>6, <1>7 DEF Next, WaiterStep

\* The initial state of the slot is an initial state of the broadcast.
LEMMA InitRefines == Init => Broadcast!BInit
  BY DEF Init, Broadcast!BInit

\* The OnceCell-and-Notify slot implements the one-shot broadcast (its safety
\* part; that a waiting host is eventually served is checked by TLC).
THEOREM SlotRefinesBroadcast == SafeSpec => Broadcast!BSafeSpec
<1>1. Init => Broadcast!BInit
  BY InitRefines
<1>2. IInv /\ [Next]_vars => [Broadcast!BNext]_(Broadcast!bvars)
  BY StepRefines
<1> QED
  BY <1>1, <1>2, Invariance, PTL DEF SafeSpec, Broadcast!BSafeSpec
=============================================================================
