----------------------------- MODULE RunOnceSlot -----------------------------
(***************************************************************************)
(* `RunOnceSlot` (orchestrator.rs): the cell through which the host that   *)
(* runs a `run_once` task hands its result to every other host.  A tokio   *)
(* OnceCell holds the value; a tokio Notify wakes the waiters.  The walkers *)
(* are tasks of a multi-threaded runtime, so `publish` and `wait` interleave *)
(* at every access of the two primitives.                                  *)
(***************************************************************************)
EXTENDS Naturals

CONSTANTS Publishers,  \* callers of `publish` (the runner of the slot)
          Waiters,     \* callers of `wait` (the other hosts)
          Results,     \* the results a runner may publish
          NoResult     \* the cell is unset

ASSUME ResultAssumption == NoResult \notin Results

VARIABLES
  cell,   \* OnceCell: NoResult until the first `set`
  calls,  \* Notify: how many times `notify_waiters` has been called
  pub,    \* publisher: "idle" -> ("notify") -> "done"
  pc,     \* waiter: "away" -> "register" -> "check" -> "await" | "done"
  seen,   \* waiter: `calls` when its `notified()` future was created
  got     \* waiter: the clone `wait` returned

vars == <<cell, calls, pub, pc, seen, got>>

Init == /\ cell = NoResult
        /\ calls = 0
        /\ pub = [p \in Publishers |-> "idle"]
        /\ pc = [w \in Waiters |-> "away"]
        /\ seen = [w \in Waiters |-> 0]
        /\ got = [w \in Waiters |-> NoResult]

-----------------------------------------------------------------------------
\* Mutant of SetCell: `publish` overwrites what is already there.
SetCellOverwrites(p, v) ==
  /\ pub[p] = "idle"
  /\ cell' = v
  /\ pub' = [pub EXCEPT ![p] = "notify"]
  /\ UNCHANGED <<calls, pc, seen, got>>

\* Mutant of SetCell: the wake-up is left out.
SetCellSilently(p, v) ==
  /\ pub[p] = "idle"
  /\ cell' = IF cell = NoResult THEN v ELSE cell
  /\ pub' = [pub EXCEPT ![p] = "done"]
  /\ UNCHANGED <<calls, pc, seen, got>>

\* `self.cell.set(value)`: only the empty-to-set transition goes on to notify.
SetCell(p, v) ==
  /\ pub[p] = "idle"
  /\ IF cell = NoResult
       THEN cell' = v /\ pub' = [pub EXCEPT ![p] = "notify"]
       ELSE cell' = cell /\ pub' = [pub EXCEPT ![p] = "done"]
  /\ UNCHANGED <<calls, pc, seen, got>>

\* `self.notify.notify_waiters()`.
NotifyWaiters(p) ==
  /\ pub[p] = "notify"
  /\ calls' = calls + 1
  /\ pub' = [pub EXCEPT ![p] = "done"]
  /\ UNCHANGED <<cell, pc, seen, got>>

\* A non-runner reaches the slot and calls `wait`.
Arrive(w) ==
  /\ pc[w] = "away"
  /\ pc' = [pc EXCEPT ![w] = "register"]
  /\ UNCHANGED <<cell, calls, pub, seen, got>>

\* `let notified = self.notify.notified()`.
Register(w) ==
  /\ pc[w] = "register"
  /\ seen' = [seen EXCEPT ![w] = calls]
  /\ pc' = [pc EXCEPT ![w] = "check"]
  /\ UNCHANGED <<cell, calls, pub, got>>

\* `if let Some(v) = self.cell.get() { return v.clone() }`.
Check(w) ==
  /\ pc[w] = "check"
  /\ IF cell # NoResult
       THEN /\ got' = [got EXCEPT ![w] = cell]
            /\ pc' = [pc EXCEPT ![w] = "done"]
       ELSE /\ pc' = [pc EXCEPT ![w] = "await"]
            /\ UNCHANGED got
  /\ UNCHANGED <<cell, calls, pub, seen>>

\* `notified.await`: ready once `notify_waiters` has been called since the
\* future was created; the loop then starts over.
Await(w) ==
  /\ pc[w] = "await"
  /\ calls # seen[w]
  /\ pc' = [pc EXCEPT ![w] = "register"]
  /\ UNCHANGED <<cell, calls, pub, seen, got>>

WaiterStep(w) == Register(w) \/ Check(w) \/ Await(w)

Next == \/ \E p \in Publishers : NotifyWaiters(p) \/ \E v \in Results : SetCell(p, v)
        \/ \E w \in Waiters : Arrive(w) \/ WaiterStep(w)

SafeSpec == Init /\ [][Next]_vars

\* No host is obliged to reach the slot, and the runner is not obliged to
\* publish.  What has begun goes on: `publish` has no await between its two
\* calls, and the runtime polls every woken task.
Fairness == /\ \A p \in Publishers : WF_vars(NotifyWaiters(p))
            /\ \A w \in Waiters : WF_vars(WaiterStep(w))

Spec == SafeSpec /\ Fairness

-----------------------------------------------------------------------------
\* The types of the two primitives and of the local state of the callers.
TypeOK == /\ cell \in Results \cup {NoResult}
          /\ calls \in Nat
          /\ pub \in [Publishers -> {"idle", "notify", "done"}]
          /\ pc \in [Waiters -> {"away", "register", "check", "await", "done"}]
          /\ seen \in [Waiters -> Nat]
          /\ got \in [Waiters -> Results \cup {NoResult}]

\* The race the comments of `wait` argue about: a waiter that is about to
\* sleep, or sleeps, on a notification that has already gone out can only be
\* there if the cell is still empty, or if the publisher that filled it has
\* yet to call `notify_waiters`.  Nobody sleeps on a full cell with no wake-up
\* to come.
NoLostWakeup ==
  \A w \in Waiters : (pc[w] = "await" /\ calls = seen[w]) =>
                        \/ cell = NoResult
                        \/ \E p \in Publishers : pub[p] = "notify"

\* Every host that got past the slot carries the very result that was
\* published first, even if a second `publish` came in between.
Agreement == \A w \in Waiters : pc[w] = "done" => got[w] = cell /\ cell # NoResult

\* The slot is a one-shot broadcast: safety and liveness, by refinement.
Broadcast == INSTANCE OnceBroadcast WITH
               value <- cell,
               waiting <- {w \in Waiters : pc[w] # "away"},
               delivered <- got

\* RunOnceSlot implements the one-shot broadcast: at most one decision, the
\* same for everyone, and handed to everyone who waits.
ImplementsBroadcast == Broadcast!BSpec
=============================================================================
