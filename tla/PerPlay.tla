------------------------------- MODULE PerPlay -------------------------------
(***************************************************************************)
(* `run_play_per_play` (orchestrator.rs): every live host runs the whole   *)
(* play in a tokio task of its own, with no barrier between tasks.  The    *)
(* walkers share the run_once coord of the play; the play ends when all of *)
(* them have been joined.  Handlers are drained per host                   *)
(* (`run_handlers_one_host`).                                              *)
(***************************************************************************)
EXTENDS HostWalk

CONSTANTS
  Plays,         \* the plays considered, each [tasks : its top-level tasks in
                 \* order, slots : those and the nested ones, policy : on_failure]
  TagSkipped     \* the tasks dropped by --tags / --skip-tags

ASSUME PlayAssumption ==
  \A p \in Plays :
    /\ p.tasks \in Seq(p.slots)
    /\ \A i, j \in DOMAIN p.tasks : i < j => p.tasks[i] + Size[p.tasks[i]] <= p.tasks[j]
    /\ \A t \in Tasks : Range(Children(t)) \cap (Range(p.tasks) \cup Handlers) = {}
    /\ p.slots # {} /\ p.slots \subseteq Tasks \ Handlers
    /\ \A t \in Range(p.tasks) : t .. t + Size[t] - 1 \subseteq p.slots
    /\ p.policy \in {"stop", "mark_host_failed", "continue"}

\* The slots of a play are those of its tasks, one after the other, and its tasks are
\* nested in no other.
ASSUME SlotsAssumption ==
  \A p \in Plays :
    /\ \A s \in p.slots : Min(p.slots) .. s \subseteq p.slots
    /\ p.slots = UNION {t .. t + Size[t] - 1 : t \in Range(p.tasks)}
    /\ \A t \in Tasks : Range(p.tasks) \cap (t + 1 .. t + Size[t] - 1) = {}

VARIABLES
  play,     \* the play under way, fixed from the start
  at,       \* index of the next task of the play
  failure,  \* `first_failure` is set
  hand,     \* index of the next handler of the drain under way
  final,    \* the drain is the one at the end of the play
  joined,   \* the walker's result has been taken by the join loop
  outcome   \* report.host_outcomes

playVars == <<play, at, failure, hand, final, joined, outcome>>
vars == <<walkVars, playVars>>

Play == play.tasks
Policy == play.policy

Init == /\ play \in Plays
        /\ WalkInit(play.slots, Min(play.slots))
        /\ at = [h \in Hosts |-> 1]
        /\ failure = [h \in Hosts |-> FALSE]
        /\ hand = [h \in Hosts |-> 1]
        /\ final = [h \in Hosts |-> FALSE]
        /\ joined = {}
        /\ outcome = [h \in Hosts |-> "ok"]

\* The runner of every run_once task of the play: the first live host.
Runner == Inventory[1]

\* Mutant of Fatal: only one of the two policies is.
FatalMark == Policy = "mark_host_failed"

Fatal == Policy \in {"stop", "mark_host_failed"}

\* Mutant of Finish: the implicit flush is forgotten.
FinishUnflushed(h, failed) ==
  /\ final' = [final EXCEPT ![h] = TRUE]
  /\ hand' = [hand EXCEPT ![h] = 1]
  /\ ctl' = [ctl EXCEPT ![h] = "done"]

\* After the task loop: the implicit flush, unless a failure was fatal.
Finish(h, failed) ==
  /\ final' = [final EXCEPT ![h] = TRUE]
  /\ hand' = [hand EXCEPT ![h] = 1]
  /\ ctl' = [ctl EXCEPT ![h] = IF failed /\ Policy # "continue" THEN "done" ELSE "flush"]

-----------------------------------------------------------------------------
(* The task loop of one walker *)

Step(h) == /\ WalkStep(h, Runner)
           /\ UNCHANGED playVars

\* `advance_past_task` for a `meta: flush_handlers` task, or one the tag
\* filter drops: no dispatch, but its slots are used up.
PassOver(h) ==
  /\ ctl[h] = "idle" /\ at[h] <= Len(Play)
  /\ Kind[Play[at[h]]] = "meta" \/ Play[at[h]] \in TagSkipped
  /\ slot' = [slot EXCEPT ![h] = @ + SizeAt(stack[h], @)]
  /\ at' = [at EXCEPT ![h] = @ + 1]
  /\ IF Kind[Play[at[h]]] = "meta"
       THEN /\ ctl' = [ctl EXCEPT ![h] = "flush"]
            /\ hand' = [hand EXCEPT ![h] = 1]
       ELSE UNCHANGED <<ctl, hand>>
  /\ UNCHANGED <<cur, stack, res, cells, pending, failedVar, dead, verdict, taken,
                 play, failure, final, joined, outcome>>

StartTask(h) ==
  /\ ctl[h] = "idle" /\ at[h] <= Len(Play)
  /\ Kind[Play[at[h]]] # "meta" /\ Play[at[h]] \notin TagSkipped
  /\ ctl' = [ctl EXCEPT ![h] = "call"]
  /\ cur' = [cur EXCEPT ![h] = Play[at[h]]]
  /\ at' = [at EXCEPT ![h] = @ + 1]
  /\ UNCHANGED <<stack, slot, res, cells, pending, failedVar, dead, verdict, taken,
                 play, failure, hand, final, joined, outcome>>

\* A fatal failure leaves the loop; so does a dead connection, which also
\* kills the pool, but is not a failure of its own.
TaskReturns(h) ==
  /\ ctl[h] = "return" /\ stack[h] = <<>>
  /\ LET failed == failure[h] \/ res[h].out = "failed"
         fatal == res[h].out = "failed" /\ Fatal
     IN /\ failure' = [failure EXCEPT ![h] = failed]
        /\ IF fatal \/ ~res[h].alive
             THEN Finish(h, failed)
             ELSE /\ ctl' = [ctl EXCEPT ![h] = "idle"]
                  /\ UNCHANGED <<hand, final>>
        /\ dead' = [dead EXCEPT ![h] = @ \/ (~fatal /\ ~res[h].alive)]
  /\ UNCHANGED <<cur, stack, slot, res, cells, pending, failedVar, verdict, taken,
                 play, at, joined, outcome>>

EndOfPlay(h) ==
  /\ ctl[h] = "idle" /\ at[h] > Len(Play)
  /\ Finish(h, failure[h])
  /\ UNCHANGED <<cur, stack, slot, res, cells, pending, failedVar, dead, verdict, taken,
                 play, at, failure, joined, outcome>>

-----------------------------------------------------------------------------
(* Handlers: run_handlers_one_host *)

\* The next handler in declaration order runs if it is pending, and is taken
\* off the pending set however it ends; a dead connection ends the drain.  (A
\* handler block has an empty coord: its walk is the host's own affair, one step.)
Drain(h) ==
  /\ ctl[h] = "flush" /\ hand[h] <= Len(HandlerList)
  /\ LET n == HandlerList[hand[h]] IN
       IF n \in pending[h]
         THEN \E b \in BodyOn(h, n) : \E told \in Tells(n, b) :
                LET r == BodyResult(n, b) IN
                /\ pending' = [pending EXCEPT ![h] = (@ \cup told) \ {n}]
                /\ res' = [res EXCEPT ![h] = r]
                /\ verdict' = [verdict EXCEPT ![h][n] = Verdict(r)]
                /\ failure' = [failure EXCEPT ![h] = @ \/ r.out = "failed"]
                /\ hand' = [hand EXCEPT ![h] = IF r.alive THEN @ + 1 ELSE Len(HandlerList) + 1]
         ELSE /\ hand' = [hand EXCEPT ![h] = @ + 1]
              /\ UNCHANGED <<pending, res, verdict, failure>>
  /\ UNCHANGED <<ctl, cur, stack, slot, cells, failedVar, dead, taken,
                 play, at, final, joined, outcome>>

\* The walker learns that a handler failed, not that a connection died.  A
\* drain only starts under a fatal policy if nothing has failed before.
DrainEnds(h) ==
  /\ ctl[h] = "flush" /\ hand[h] > Len(HandlerList)
  /\ IF final[h] \/ (failure[h] /\ Fatal)
       THEN ctl' = [ctl EXCEPT ![h] = "done"]
       ELSE ctl' = [ctl EXCEPT ![h] = "idle"]
  /\ UNCHANGED <<cur, stack, slot, res, cells, pending, failedVar, dead, verdict, taken,
                 playVars>>

-----------------------------------------------------------------------------
\* The join loop takes one finished walker: outcome, and the pool is killed
\* under a fatal policy.
Join(h) ==
  /\ ctl[h] = "done" /\ h \notin joined
  /\ joined' = joined \cup {h}
  /\ outcome' = [outcome EXCEPT ![h] = IF failure[h] THEN "failed" ELSE @]
  /\ dead' = [dead EXCEPT ![h] = @ \/ (failure[h] /\ Fatal)]
  /\ UNCHANGED <<ctl, cur, stack, slot, res, cells, pending, failedVar, verdict, taken,
                 play, at, failure, hand, final>>

HostStep(h) == \/ Step(h) \/ PassOver(h) \/ StartTask(h) \/ TaskReturns(h)
               \/ EndOfPlay(h) \/ Drain(h) \/ DrainEnds(h) \/ Join(h)

Next == \E h \in Hosts : HostStep(h)

\* The runtime polls every walker that can go on, and the join loop waits on
\* all of them.
Spec == Init /\ [][Next]_vars /\ \A h \in Hosts : WF_vars(HostStep(h))

-----------------------------------------------------------------------------
(* Properties *)

\* The walkers' types, and those of the play.
TypeOK == /\ WalkTypeOK
          /\ play \in Plays
          /\ at \in [Hosts -> 1 .. Len(Play) + 1]
          /\ failure \in [Hosts -> BOOLEAN]
          /\ hand \in [Hosts -> 1 .. Len(HandlerList) + 1]
          /\ final \in [Hosts -> BOOLEAN]
          /\ joined \subseteq Hosts
          /\ outcome \in [Hosts -> {"ok", "failed"}]

\* The tasks of the play that are dispatched to hosts.
Dispatched == {t \in Range(Play) : Kind[t] # "meta" /\ t \notin TagSkipped}

\* `HostOutcome::Ok`: "Every task targeted at this host completed (or was
\* skipped) without a failure"; or its connection was lost in a task whose
\* failure is excused, and it was left alone from then on.
OkMeansVisited ==
  \A h \in joined : outcome[h] = "ok" =>
    \/ \A t \in Dispatched : verdict[h][t] \in {"ok", "changed", "skipped"}
    \/ dead[h] /\ Excused(verdict[h])

\* A handler is pending on a host only because of a change: of a task of that
\* host, or of the run_once task whose result it took over (unless that cannot
\* tell).
PendingJustified ==
  \A h \in Hosts : \A n \in pending[h] : \E t \in Tasks : n \in Notify[t] /\ Cause(h, t)

\* A host that ends the play without a failure leaves no notification behind,
\* neither its own nor one broadcast to it by the runner; unless the last it ran
\* was cut short by the connection, or a handler block notified upwards.
NotificationsServed ==
  \A h \in Hosts : (ctl[h] = "done" /\ ~failure[h]) =>
    pending[h] \subseteq Belated(verdict[h]) \/ ~res[h].alive

\* Under a fatal policy a host that failed a task of the play dispatches no
\* later one and drains no handler, and its pool is dead once it is joined.
QuietAfterFailure ==
  Policy # "continue" => \A h \in Hosts : \A i \in DOMAIN Play : verdict[h][Play[i]] = "failed" =>
             /\ \A j \in i + 1 .. Len(Play) : verdict[h][Play[j]] = "none"
             /\ ctl[h] # "flush"
             /\ h \in joined => dead[h]

\* Every walker comes to its end, so the join loop and the play do: nobody is
\* left waiting on a run_once cell.
Terminates == <>(joined = Hosts)

\* "runner host fills its slot's OnceCell, every non-runner walker awaits the
\* cell and broadcasts the result": who waits is served.
Served == \A h \in Hosts : (ctl[h] = "call" /\ Coordinated(h)) ~> ctl[h] = "return"

\* The outcome of a host tells what happened on it: ok that all its tasks came to
\* an end, failed that it was left alone from then on.
OutcomeTrue == TypeOK /\ OkMeansVisited /\ QuietAfterFailure

\* No notification without a change behind it, and none of them lost.
Notified == PendingJustified /\ NotificationsServed
=============================================================================
