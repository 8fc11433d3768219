---------------------------- MODULE OnceBroadcast ----------------------------
(***************************************************************************)
(* What a `run_once` slot promises to the hosts of a play: one result is   *)
(* decided, at most once, and whoever waits for it is handed that result.  *)
(* RunOnceSlot.tla is the implementation (OnceCell + Notify).              *)
(***************************************************************************)
CONSTANTS Waiters,   \* the non-runner hosts
          Results,   \* what the runner may publish
          NoResult   \* the empty slot

VARIABLES value,      \* the decided result, or NoResult
          waiting,    \* the hosts that asked for it
          delivered   \* what each host was handed

bvars == <<value, waiting, delivered>>

BInit == /\ value = NoResult
         /\ waiting = {}
         /\ delivered = [w \in Waiters |-> NoResult]

Decide(v) == /\ value = NoResult
             /\ value' = v
             /\ UNCHANGED <<waiting, delivered>>

Ask(w) == /\ w \notin waiting
          /\ waiting' = waiting \cup {w}
          /\ UNCHANGED <<value, delivered>>

Deliver(w) == /\ w \in waiting
              /\ value # NoResult
              /\ delivered[w] = NoResult
              /\ delivered' = [delivered EXCEPT ![w] = value]
              /\ UNCHANGED <<value, waiting>>

BNext == \/ \E v \in Results : Decide(v)
         \/ \E w \in Waiters : Ask(w) \/ Deliver(w)

BSafeSpec == BInit /\ [][BNext]_bvars

BSpec == BSafeSpec /\ \A w \in Waiters : WF_bvars(Deliver(w))
=============================================================================
