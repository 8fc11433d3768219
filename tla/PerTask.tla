------------------------------- MODULE PerTask -------------------------------
(***************************************************************************)
(* `run_play_per_task` (orchestrator.rs): one loop drives the play.  Each  *)
(* task is fanned out to every live host and joined (`run_task_fanout`,     *)
(* `apply_per_host_result`) before the next one starts; a top-level        *)
(* run_once task runs on the first live host and is broadcast              *)
(* (`run_task_once_per_task`); handlers are fanned out one at a time       *)
(* (`flush_handlers`).                                                     *)
(***************************************************************************)
EXTENDS HostWalk

CONSTANTS
  Play,        \* the top-level tasks of the play, in order
  TagSkipped,  \* those dropped by --tags / --skip-tags
  Policies     \* the `on_failure:` considered

ASSUME PlayAssumption ==
  /\ Play \in Seq(Tasks \ Handlers)
  /\ \A t \in Tasks : Range(Children(t)) \cap (Range(Play) \cup Handlers) = {}
  /\ \A i, j \in DOMAIN Play : i < j => Play[i] + Size[Play[i]] <= Play[j]
  /\ \A t \in Range(Play) : (t .. t + Size[t] - 1) \cap Handlers = {}
  /\ Policies \subseteq {"stop", "mark_host_failed", "continue"}

VARIABLES
  policy,     \* the play's `on_failure:`, fixed from the start
  phase,      \* "tasks" | "fanout" | "handlers" | "over"
  at,         \* index of the play task the loop is at
  hand,       \* index of the handler of the flush under way; 0 in the task loop
  root,       \* the task being fanned out
  running,    \* the hosts it was fanned out to
  unjoined,   \* those whose result has not been applied
  anyFailed,  \* some host failed it
  outcome,    \* report.host_outcomes
  stopped     \* the function returned Ok(true)

loopVars == <<policy, phase, at, hand, root, running, unjoined, anyFailed, outcome, stopped>>
vars == <<walkVars, loopVars>>

Init == /\ WalkInit({}, 0)
        /\ policy \in Policies
        /\ phase = "tasks" /\ at = 1 /\ hand = 0 /\ root = NoTask
        /\ running = {} /\ unjoined = {} /\ anyFailed = FALSE
        /\ outcome = [h \in Hosts |-> "ok"]
        /\ stopped = FALSE

\* Hosts not marked failed, and the first of a set in inventory order.
Live == {h \in Hosts : outcome[h] = "ok"}
First(S) == SelectSeq(Inventory, LAMBDA h : h \in S)[1]
Fatal == policy \in {"stop", "mark_host_failed"}

Current == Play[at]
Plain(t) == Kind[t] # "meta" /\ t \notin TagSkipped

-----------------------------------------------------------------------------
(* run_task_fanout *)

\* A fresh coord for the subtree of `t`, and one walker per host.
Fanout(t, targets) ==
  /\ phase' = "fanout"
  /\ root' = t
  /\ running' = targets /\ unjoined' = targets
  /\ anyFailed' = FALSE
  /\ ctl' = [h \in Hosts |-> IF h \in targets THEN "call" ELSE ctl[h]]
  /\ cur' = [h \in Hosts |-> IF h \in targets THEN t ELSE cur[h]]
  /\ slot' = [h \in Hosts |-> IF h \in targets THEN t ELSE slot[h]]
  /\ cells' = Allocate(t .. t + Size[t] - 1)
  /\ UNCHANGED <<stack, res, pending, failedVar, dead, verdict, taken, at, hand,
                 outcome, stopped>>

Step(h) == /\ phase = "fanout"
           /\ WalkStep(h, First(running))
           /\ UNCHANGED loopVars

\* Mutant of Apply: what a dead connection fails is not reported.
ApplyAlive(h) ==
  /\ phase = "fanout" /\ h \in unjoined
  /\ ctl[h] = "return" /\ stack[h] = <<>>
  /\ LET failed == res[h].out = "failed" /\ res[h].alive IN
       /\ outcome' = [outcome EXCEPT ![h] = IF failed THEN "failed" ELSE @]
       /\ dead' = [dead EXCEPT ![h] = @ \/ ~res[h].alive \/ (failed /\ Fatal)]
       /\ anyFailed' = (anyFailed \/ failed)
  /\ unjoined' = unjoined \ {h}
  /\ ctl' = [ctl EXCEPT ![h] = "idle"]
  /\ UNCHANGED <<cur, stack, slot, res, cells, pending, failedVar, verdict, taken,
                 policy, phase, at, hand, root, running, stopped>>

\* `apply_per_host_result`: the report, and the pool is killed when the
\* connection died or the failure is fatal.
Apply(h) ==
  /\ phase = "fanout" /\ h \in unjoined
  /\ ctl[h] = "return" /\ stack[h] = <<>>
  /\ LET failed == res[h].out = "failed" IN
       /\ outcome' = [outcome EXCEPT ![h] = IF failed THEN "failed" ELSE @]
       /\ dead' = [dead EXCEPT ![h] = @ \/ ~res[h].alive \/ (failed /\ Fatal)]
       /\ anyFailed' = (anyFailed \/ failed)
  /\ unjoined' = unjoined \ {h}
  /\ ctl' = [ctl EXCEPT ![h] = "idle"]
  /\ UNCHANGED <<cur, stack, slot, res, cells, pending, failedVar, verdict, taken,
                 policy, phase, at, hand, root, running, stopped>>

\* Mutant of Joined: the loop goes on after the first result.
JoinedFirst ==
  /\ phase = "fanout" /\ unjoined # running
  /\ pending' = [h \in Hosts |->
       IF hand > 0 /\ h \in running THEN pending[h] \ {root} ELSE pending[h]]
  /\ stopped' = (anyFailed /\ policy = "stop")
  /\ phase' = IF stopped' THEN "over" ELSE IF hand > 0 THEN "handlers" ELSE "tasks"
  /\ at' = IF hand = 0 THEN at + 1 ELSE at
  /\ hand' = IF hand > 0 THEN hand + 1 ELSE hand
  /\ UNCHANGED <<ctl, cur, stack, slot, res, cells, failedVar, dead, verdict, taken,
                 root, running, unjoined, anyFailed, outcome>>

\* Mutant of Joined: on_failure: stop only ends the play at a handler.
JoinedGoesOn ==
  /\ phase = "fanout" /\ unjoined = {}
  /\ pending' = [h \in Hosts |->
       IF hand > 0 /\ h \in running THEN pending[h] \ {root} ELSE pending[h]]
  /\ stopped' = (anyFailed /\ policy = "stop" /\ hand > 0)
  /\ phase' = IF stopped' THEN "over" ELSE IF hand > 0 THEN "handlers" ELSE "tasks"
  /\ at' = IF hand = 0 THEN at + 1 ELSE at
  /\ hand' = IF hand > 0 THEN hand + 1 ELSE hand
  /\ UNCHANGED <<ctl, cur, stack, slot, res, cells, failedVar, dead, verdict, taken,
                 root, running, unjoined, anyFailed, outcome>>

\* All results are in.  A handler is cleared from every host it was flushed
\* on, however it ended; a failure under on_failure: stop halts the play.
Joined ==
  /\ phase = "fanout" /\ unjoined = {}
  /\ pending' = [h \in Hosts |->
       IF hand > 0 /\ h \in running THEN pending[h] \ {root} ELSE pending[h]]
  /\ stopped' = (anyFailed /\ policy = "stop")
  /\ phase' = IF stopped' THEN "over" ELSE IF hand > 0 THEN "handlers" ELSE "tasks"
  /\ at' = IF hand = 0 THEN at + 1 ELSE at
  /\ hand' = IF hand > 0 THEN hand + 1 ELSE hand
  /\ UNCHANGED <<ctl, cur, stack, slot, res, cells, failedVar, dead, verdict, taken,
                 root, running, unjoined, anyFailed, outcome>>

-----------------------------------------------------------------------------
(* The task loop *)

DropByTags ==
  /\ phase = "tasks" /\ at <= Len(Play)
  /\ Kind[Current] # "meta" /\ Current \in TagSkipped
  /\ at' = at + 1
  /\ UNCHANGED <<walkVars, phase, hand, root, running, unjoined, anyFailed, outcome, stopped>>

\* Mutant of FanoutTask: failed hosts are still among the targets.
FanoutToAll ==
  /\ phase = "tasks" /\ at <= Len(Play)
  /\ Plain(Current) /\ Current \notin RunOnce /\ Live # {}
  /\ Fanout(Current, Hosts)

FanoutTask ==
  /\ phase = "tasks" /\ at <= Len(Play)
  /\ Plain(Current) /\ Current \notin RunOnce /\ Live # {}
  /\ Fanout(Current, Live)

\* `run_task_once_per_task`: the runner's result is applied to the runner
\* alone; the others only take over register and notifications.
RunOnceTask ==
  /\ phase = "tasks" /\ at <= Len(Play)
  /\ Plain(Current) /\ Current \in RunOnce /\ Live # {}
  /\ LET t == Current
         runner == First(Live)
     IN runner \in Live /\ \E b \in BodyOn(runner, t) :
          LET r == BodyResult(t, b)
              failed == r.out = "failed"
          IN /\ verdict' = [verdict EXCEPT ![runner][t] = Verdict(r)]
             /\ pending' = [h \in Hosts |->
                  IF \/ h = runner /\ b = "changed"
                     \/ h \in Live \ {runner} /\ BroadcastNotifies(t, b)
                    THEN pending[h] \cup Notify[t] ELSE pending[h]]
             /\ outcome' = [outcome EXCEPT ![runner] = IF failed THEN "failed" ELSE @]
             /\ dead' = [dead EXCEPT ![runner] = @ \/ ~r.alive \/ (failed /\ Fatal)]
             /\ stopped' = (failed /\ policy = "stop")
             /\ phase' = IF stopped' THEN "over" ELSE phase
  /\ at' = at + 1
  /\ UNCHANGED <<ctl, cur, stack, slot, res, cells, failedVar, taken,
                 hand, root, running, unjoined, anyFailed>>

\* `meta: flush_handlers`, the implicit flush at the end of the play, and the
\* early exit from the loop once no host is live.
BeginFlush ==
  /\ phase = "tasks"
  /\ \/ at > Len(Play) /\ UNCHANGED at
     \/ at <= Len(Play) /\ Kind[Current] = "meta" /\ UNCHANGED at
     \/ at <= Len(Play) /\ Plain(Current) /\ Live = {} /\ at' = Len(Play) + 1
  /\ phase' = "handlers"
  /\ hand' = 1
  /\ UNCHANGED <<walkVars, root, running, unjoined, anyFailed, outcome, stopped>>

-----------------------------------------------------------------------------
(* flush_handlers *)

\* Mutant of Interested: one host stands for all, as for run_once.
FirstInterested(n) == {h \in Live : h = First(Live) /\ n \in pending[h]}

Interested(n) == {h \in Live : n \in pending[h]}

FlushHandler ==
  /\ phase = "handlers" /\ hand <= Len(HandlerList)
  /\ Interested(HandlerList[hand]) # {}
  /\ Fanout(HandlerList[hand], Interested(HandlerList[hand]))

PassHandler ==
  /\ phase = "handlers" /\ hand <= Len(HandlerList)
  /\ Interested(HandlerList[hand]) = {}
  /\ hand' = hand + 1
  /\ UNCHANGED <<walkVars, phase, at, root, running, unjoined, anyFailed, outcome, stopped>>

EndFlush ==
  /\ phase = "handlers" /\ hand > Len(HandlerList)
  /\ phase' = IF at > Len(Play) THEN "over" ELSE "tasks"
  /\ at' = IF at > Len(Play) THEN at ELSE at + 1
  /\ hand' = 0
  /\ UNCHANGED <<walkVars, root, running, unjoined, anyFailed, outcome, stopped>>

LoopStep == /\ \/ DropByTags \/ FanoutTask \/ RunOnceTask \/ BeginFlush
               \/ FlushHandler \/ PassHandler \/ EndFlush \/ Joined
            /\ UNCHANGED policy

Next == LoopStep \/ \E h \in Hosts : Step(h) \/ Apply(h)

\* The runtime polls the loop and every spawned walker that can go on.
Spec == /\ Init /\ [][Next]_vars
        /\ WF_vars(LoopStep)
        /\ \A h \in Hosts : WF_vars(Step(h)) /\ WF_vars(Apply(h))

-----------------------------------------------------------------------------
(* Properties *)

\* The walkers' types, and those of the loop.
TypeOK == /\ WalkTypeOK
          /\ policy \in Policies
          /\ phase \in {"tasks", "fanout", "handlers", "over"}
          /\ at \in 1 .. Len(Play) + 1
          /\ hand \in 0 .. Len(HandlerList) + 1
          /\ root \in Tasks \cup {NoTask}
          /\ running \subseteq Hosts /\ unjoined \subseteq running
          /\ anyFailed \in BOOLEAN /\ stopped \in BOOLEAN
          /\ outcome \in [Hosts -> {"ok", "failed"}]

Began(h, t) == verdict[h][t] # "none" \/ (h \in unjoined /\ root = t)

\* The barrier: once any host begins a task of the play, every host that is
\* still in the play has a result for each earlier fanned-out one.
Barrier ==
  \A i, j \in DOMAIN Play :
    (i < j /\ Plain(Play[i]) /\ Play[i] \notin RunOnce /\ \E h \in Hosts : Began(h, Play[j]))
      => \A g \in Live : verdict[g][Play[i]] # "none"

\* Under on_failure: stop, once a host has failed a task of the play no host
\* begins a later one, and no handler runs.
StopHalts ==
  policy = "stop" =>
    \A h \in Hosts : \A i \in DOMAIN Play : verdict[h][Play[i]] = "failed" =>
      \A g \in Hosts : /\ \A j \in i + 1 .. Len(Play) : ~Began(g, Play[j])
                       /\ phase # "handlers"

\* A host marked failed is out of the play, whatever the policy: it is never
\* again among the hosts a task or handler is fanned out to.
FailedSitOut == [][\A h \in Hosts : outcome[h] = "failed" =>
                      /\ outcome'[h] = "failed"
                      /\ h \notin unjoined' /\ verdict'[h] = verdict[h]]_vars

\* A host that is still in the play has its connections ("the host's
\* `HostOutcome` stays `Ok`, the connection is not dropped"), unless it lost
\* them in a task whose failure is excused.
LiveHasPool == \A h \in Live : dead[h] => Excused(verdict[h])

\* A handler is pending on a host only because of a change: of a task of that
\* host (or in a handler block), or of the runner of a run_once task (unless its
\* broadcast cannot tell).
CauseElsewhere(t) == t \in RunOnce /\ (Untold(t) \/ \E g \in Hosts : verdict[g][t] = "changed")
PendingJustified ==
  \A h \in Hosts : \A n \in pending[h] : \E t \in Tasks : n \in Notify[t] /\ (Cause(h, t) \/ CauseElsewhere(t))

\* When the play ends without being stopped, no notification of a host still in it
\* is left unserved; but "handlers cannot notify other handlers" is not enforced
\* inside a handler block, and what one notifies upwards is left.
NotificationsServed ==
  (phase = "over" /\ ~stopped) => \A h \in Live : pending[h] \subseteq Belated(verdict[h])

\* The loop gets to its end: no fanout waits forever for a walker.
Terminates == <>(phase = "over")

\* The strategy keeps its word: a barrier between tasks, a halt under `stop`, and
\* agents for every host that goes on.
InStep == TypeOK /\ Barrier /\ StopHalts /\ LiveHasPool

\* No notification without a change behind it, and none of them lost.
Notified == PendingJustified /\ NotificationsServed
=============================================================================
