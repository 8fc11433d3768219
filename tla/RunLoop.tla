------------------------------- MODULE RunLoop -------------------------------
(***************************************************************************)
(* A whole run (orchestrator.rs `run`, main.rs): loading (LoadPhase.tla),   *)
(* the parallel connect phase under a semaphore, the loop over the plays,   *)
(* the layers of variables each host carries from play to play, the Bye     *)
(* loop and the end of the run, with the report sink of ReportPush.tla at   *)
(* work beside it.                                                          *)
(*                                                                         *)
(* A play is a number of tasks each live host runs in turn.  What a task    *)
(* does, blocks, run_once and handlers are in HostWalk.tla, PerPlay.tla and  *)
(* PerTask.tla; here it succeeds, fails, or loses its connection.           *)
(***************************************************************************)
EXTENDS ReportPush, LoadPhase, FiniteSetsExt

CONSTANT MaxConcurrent   \* max_concurrent_hosts

ASSUME RunAssumption == MaxConcurrent \in Nat

VARIABLES
  plays,      \* the playbook of the run, once it is planned
  dial,       \* host -> "waiting" | "dialing" | "up" | "down" | "none"
  outcome,    \* report.host_outcomes
  slot,       \* host -> "live" | "stale" (its stream is broken) | "dead" | "none"
  play,       \* index of the play
  peers,      \* the live hosts it started with
  walk,       \* host -> "out" | "refresh" | "run" | "publish" | "wait" | "join"
  at,         \* host -> tasks of the play it has run
  reading,    \* host -> the peers whose views its refresh has read
  failed,     \* the hosts whose walk of this play has failed
  layers,     \* host -> [defaults, vars : play they come from, facts, regs]
  view,       \* host -> the registers its peers can see
  world,      \* host -> [host -> registers] as its current task sees them
  stopped     \* report.stopped_early

loopVars == <<job, plays, phase, dial, outcome, slot, play, peers, walk, at,
              reading, failed, layers, view, world, stopped>>
vars == <<loopVars, pushVars>>
connecting == <<job, plays, dial, outcome, slot>>
playing == <<play, peers, walk, at, reading, failed, layers, view, world, stopped>>

Play == plays[play]
Targets == UNION {p.hosts : p \in Range(plays)}
Live == {h \in Hosts : walk[h] # "out"}
Fatal == Play.policy \in {"stop", "mark_host_failed"}
NoLayers == [defaults |-> 0, vars |-> 0, facts |-> FALSE, regs |-> 0]

Init ==
  /\ job \in Jobs /\ phase = "load" /\ plays = <<>>
  /\ dial = [h \in Hosts |-> "none"] /\ outcome = [h \in Hosts |-> "not_targeted"]
  /\ slot = [h \in Hosts |-> "none"]
  /\ play = 1 /\ peers = {}
  /\ walk = [h \in Hosts |-> "out"] /\ failed = {}
  /\ at = [h \in Hosts |-> 0] /\ reading = [h \in Hosts |-> 0]
  /\ layers = [h \in Hosts |-> NoLayers]
  /\ view = [h \in Hosts |-> 0]
  /\ world = [h \in Hosts |-> [q \in Hosts |-> 0]]
  /\ stopped = FALSE
  /\ PushInit

-----------------------------------------------------------------------------
(* Before the first connection *)

\* The command ends without an end of the run: main leaves without `join`, and
\* the worker goes with the process.
Leaves == phase' = "dead" /\ worker' = "gone" /\ job' = NoJob

\* `cmd_validate` and a command whose files are refused end here.
Load ==
  /\ phase = "load"
  /\ IF job.cmd = "run" /\ Accepted(job)
       THEN phase' = "open" /\ UNCHANGED <<job, worker>>
       ELSE Leaves
  /\ UNCHANGED <<plays, dial, outcome, slot, playing, process, buf, goal, attempt, fin, renewDue, server>>

\* The report is opened before anyone is dialled.
OpenRun(answer) ==
  /\ phase = "open" /\ OpenReport(answer)
  /\ IF answer = "ok" THEN phase' = "plan" /\ UNCHANGED job ELSE phase' = "dead" /\ job' = NoJob
  /\ UNCHANGED <<plays, dial, outcome, slot, playing>>

\* What --limit or a mixed transport refuses leaves the run open at the server
\* until its lease expires.  Only `followed` jobs are run any further here.
Refuse ==
  /\ phase = "plan" /\ (RunRefused \/ ~job.followed)
  /\ Leaves
  /\ UNCHANGED <<plays, dial, outcome, slot, playing, process, buf, goal, attempt, fin, renewDue, server>>

Start ==
  /\ phase = "plan" /\ job.followed /\ ~RunRefused
  /\ phase' = "connect" /\ plays' = PlannedPlays /\ job' = NoJob
  /\ dial' = [h \in Hosts |-> IF h \in JobTargets THEN "waiting" ELSE "none"]
  /\ outcome' = [h \in Hosts |-> IF h \in JobTargets THEN "ok" ELSE "not_targeted"]
  /\ UNCHANGED <<slot, playing, pushVars>>

-----------------------------------------------------------------------------
(* The connect phase *)

\* max_concurrent_hosts.max(1)
Permits == IF MaxConcurrent = 0 THEN 1 ELSE MaxConcurrent

\* Mutant of Dialing: a host that was not reached keeps its permit.
DialingOrDown == {h \in Hosts : dial[h] \in {"dialing", "down"}}

Dialing == {h \in Hosts : dial[h] = "dialing"}

Dial(h) ==
  /\ phase = "connect" /\ dial[h] = "waiting"
  /\ Cardinality(Dialing) < Permits
  /\ dial' = [dial EXCEPT ![h] = "dialing"]
  /\ UNCHANGED <<job, plays, phase, outcome, slot, playing, pushVars>>

Connected(h) ==
  /\ dial[h] = "dialing"
  /\ dial' = [dial EXCEPT ![h] = "up"]
  /\ slot' = [slot EXCEPT ![h] = "live"]
  /\ UNCHANGED <<job, plays, phase, outcome, playing, pushVars>>

\* The permit goes with the connect task, whatever came of it.
Unreachable(h) ==
  /\ dial[h] = "dialing"
  /\ dial' = [dial EXCEPT ![h] = "down"]
  /\ outcome' = [outcome EXCEPT ![h] = "unreachable"]
  /\ UNCHANGED <<job, plays, phase, slot, playing, pushVars>>

AllDialed ==
  /\ phase = "connect" /\ \A h \in Targets : dial[h] \in {"up", "down"}
  /\ phase' = "enter"
  /\ UNCHANGED <<connecting, playing, pushVars>>

-----------------------------------------------------------------------------
(* Entering a play *)

\* `run` leaves out who is not connected or has failed; both strategies ask
\* again.
PlayTargets == {h \in Play.hosts : dial[h] = "up" /\ outcome[h] = "ok"}

\* Mutant of PlayLayers: play vars pile up from play to play.
PlayLayersOnce(l, gathered) ==
  [l EXCEPT !.defaults = play, !.vars = IF @ = 0 THEN play ELSE @, !.facts = @ \/ gathered]

\* `apply_role_defaults_layer`, `gather_facts_for_play`, `apply_play_vars`:
\* the layers of the play replace those of the play before; facts stay.
PlayLayers(l, gathered) ==
  [l EXCEPT !.defaults = play, !.vars = play, !.facts = @ \/ gathered]

\* `gather_facts_for_play`: failures are logged, and a broken exchange leaves
\* the slot as it is.
Gathers(h) == IF Play.gather THEN {"facts", "failed", "broken"} ELSE {"none"}

EnterPlay ==
  /\ phase = "enter" /\ play <= Len(plays)
  /\ \E g \in [PlayTargets -> {"facts", "failed", "broken", "none"}] :
       /\ \A h \in PlayTargets : g[h] \in Gathers(h)
       /\ layers' = [h \in Hosts |-> IF h \in PlayTargets THEN PlayLayers(layers[h], g[h] = "facts")
                                                          ELSE layers[h]]
       /\ slot' = [h \in Hosts |-> IF h \in PlayTargets /\ g[h] = "broken" /\ slot[h] = "live"
                                     THEN "stale" ELSE slot[h]]
  /\ view' = [h \in Hosts |-> layers[h].regs]
  /\ IF PlayTargets = {}
       THEN /\ play' = play + 1
            /\ UNCHANGED <<phase, walk>>
       ELSE /\ phase' = "tasks"
            /\ walk' = [h \in Hosts |-> IF h \in PlayTargets THEN "refresh" ELSE "out"]
            /\ UNCHANGED play
  /\ failed' = {} /\ peers' = PlayTargets
  /\ at' = [h \in Hosts |-> 0] /\ reading' = [h \in Hosts |-> 0]
  /\ UNCHANGED <<job, plays, dial, outcome, world, stopped, pushVars>>

-----------------------------------------------------------------------------
(* Tasks.  A task whose connection is not live comes to "broken"             *)

Results(h) == IF slot[h] = "live" THEN {"ok", "failed", "broken"} ELSE {"broken"}

Kill(h) == slot' = [slot EXCEPT ![h] = "dead"]

\* What a task leaves in the slot of its host: a broken exchange a stream that
\* cannot be used again.
Used(h, r) == IF r = "broken" /\ slot[h] = "live" THEN [slot EXCEPT ![h] = "stale"] ELSE slot

\* The task has run: its register is in the host's own context.
Registers(h) == /\ layers' = [layers EXCEPT ![h].regs = @ + 1]
                /\ at' = [at EXCEPT ![h] = @ + 1]

-----------------------------------------------------------------------------
(* per_task: `merge_dynamic_hostvars` before each task, for all hosts       *)

Waiting == \A h \in Live : walk[h] \in {"refresh", "wait"}

\* The loop stops after a task that failed somewhere under on_failure: stop.
Halts == failed # {} /\ Play.policy = "stop"

\* Mutant of Barrier: a host that has failed stays in the play.
BarrierForAll ==
  /\ phase = "tasks" /\ Play.strategy = "per_task" /\ Waiting /\ ~Halts
  /\ \E h \in Live : at[h] < Play.tasks
  /\ walk' = [h \in Hosts |-> IF walk[h] # "out" THEN "run" ELSE "out"]
  /\ world' = [h \in Hosts |-> [q \in Hosts |-> layers[q].regs]]
  /\ UNCHANGED <<phase, connecting, play, peers, at, reading, failed, layers, view, stopped, pushVars>>

Barrier ==
  /\ phase = "tasks" /\ Play.strategy = "per_task" /\ Waiting /\ ~Halts
  /\ \E h \in Live : outcome[h] = "ok" /\ at[h] < Play.tasks
  /\ walk' = [h \in Hosts |-> IF walk[h] # "out" /\ outcome[h] = "ok" THEN "run" ELSE "out"]
  /\ world' = [h \in Hosts |-> [q \in Hosts |-> layers[q].regs]]
  /\ UNCHANGED <<phase, connecting, play, peers, at, reading, failed, layers, view, stopped, pushVars>>

\* A task on one host and `apply_per_host_result`: the outcome, the item for
\* the report sink, and the pool.
RunFanned(h, r) ==
  /\ phase = "tasks" /\ Play.strategy = "per_task" /\ walk[h] = "run"
  /\ Registers(h)
  /\ walk' = [walk EXCEPT ![h] = "wait"]
  /\ IF r = "ok"
       THEN UNCHANGED <<failed, outcome>>
       ELSE /\ failed' = failed \cup {h}
            /\ outcome' = [outcome EXCEPT ![h] = "failed"]
  /\ IF r = "broken" \/ (r = "failed" /\ Fatal) THEN Kill(h) ELSE slot' = Used(h, r)
  /\ OnTask
  /\ UNCHANGED <<job, plays, phase, dial, play, peers, reading, view, world, stopped>>

FannedOut == /\ Play.strategy = "per_task" /\ Waiting
             /\ Halts \/ \A h \in Live : outcome[h] # "ok" \/ at[h] = Play.tasks

-----------------------------------------------------------------------------
(* per_play: each walker merges the published views of its peers            *)

\* Mutant of Seen: the walker reads its own published view, too.
SeenPublished(h, q) == view[q]

\* `merge_dynamic_hostvars_locked`: peer after peer, each under its own lock;
\* the walker's own context needs none.  Hosts out of the play are not in
\* `peer_views`.
Seen(h, q) == IF q = h THEN layers[h].regs ELSE view[q]

\* Mutant of Visible: a walker that has been joined is out of sight.
VisibleRunning(q) == q \in Live

Visible(q) == q \in peers

\* The hosts that have a context.
Contexts == Ordered(Targets)

ReadPeer(h) ==
  /\ phase = "tasks" /\ Play.strategy = "per_play"
  /\ walk[h] = "refresh" /\ at[h] < Play.tasks /\ reading[h] < Len(Contexts)
  /\ LET q == Contexts[reading[h] + 1] IN
       world' = [world EXCEPT ![h][q] = IF Visible(q) THEN Seen(h, q) ELSE 0]
  /\ reading' = [reading EXCEPT ![h] = @ + 1]
  /\ UNCHANGED <<phase, connecting, play, peers, walk, at, failed, layers, view, stopped, pushVars>>

Merged(h) == /\ phase = "tasks" /\ Play.strategy = "per_play"
             /\ walk[h] = "refresh" /\ at[h] < Play.tasks /\ reading[h] = Len(Contexts)

\* A flush runs the host's handlers and publishes nothing; of a connection
\* that dies in one the walker does not learn.
RunMeta(h, r) ==
  /\ Merged(h) /\ at[h] + 1 \in Play.flushes
  /\ Registers(h)
  /\ failed' = IF r = "ok" THEN failed ELSE failed \cup {h}
  /\ walk' = [walk EXCEPT ![h] = IF h \in failed' /\ Fatal THEN "join" ELSE "refresh"]
  /\ reading' = [reading EXCEPT ![h] = 0]
  /\ slot' = Used(h, r)
  /\ UNCHANGED <<job, plays, phase, dial, outcome, play, peers, view, world, stopped, pushVars>>

RunAlone(h, r) ==
  /\ Merged(h) /\ at[h] + 1 \notin Play.flushes
  /\ Registers(h)
  /\ walk' = [walk EXCEPT ![h] = "publish"]
  /\ failed' = IF r = "ok" THEN failed ELSE failed \cup {h}
  /\ slot' = Used(h, r)
  /\ UNCHANGED <<job, plays, phase, dial, outcome, play, peers, reading, view, world, stopped, pushVars>>

\* The context is published, then a failure or a lost connection ends the walk.
Publish(h) ==
  /\ walk[h] = "publish"
  /\ view' = [view EXCEPT ![h] = layers[h].regs]
  /\ LET leaves == h \in failed /\ (Fatal \/ slot[h] # "live") IN
       /\ walk' = [walk EXCEPT ![h] = IF leaves THEN "join" ELSE "refresh"]
       /\ IF leaves /\ ~Fatal THEN Kill(h) ELSE UNCHANGED slot
  /\ reading' = [reading EXCEPT ![h] = 0]
  /\ UNCHANGED <<job, plays, phase, dial, outcome, play, peers, at, failed, layers, world, stopped, pushVars>>

EndOfWalk(h) ==
  /\ phase = "tasks" /\ Play.strategy = "per_play"
  /\ walk[h] = "refresh" /\ at[h] = Play.tasks
  /\ walk' = [walk EXCEPT ![h] = "join"]
  /\ UNCHANGED <<phase, connecting, play, peers, at, reading, failed, layers, view, world, stopped, pushVars>>

Join(h) ==
  /\ walk[h] = "join"
  /\ walk' = [walk EXCEPT ![h] = "out"]
  /\ outcome' = [outcome EXCEPT ![h] = IF h \in failed THEN "failed" ELSE @]
  /\ IF h \in failed /\ Fatal THEN Kill(h) ELSE UNCHANGED slot
  /\ UNCHANGED <<job, plays, phase, dial, play, peers, at, reading, failed, layers, view, world, stopped, pushVars>>

-----------------------------------------------------------------------------
(* The end of a play and of the run *)

LeavePlay ==
  /\ phase = "tasks" /\ (Live = {} \/ FannedOut)
  /\ stopped' = (failed # {} /\ Play.policy = "stop")
  /\ IF stopped' THEN phase' = "bye" /\ UNCHANGED play
                 ELSE phase' = "enter" /\ play' = play + 1
  /\ walk' = [h \in Hosts |-> "out"]
  /\ UNCHANGED <<connecting, peers, at, reading, failed, layers, view, world, pushVars>>

LastPlay ==
  /\ phase = "enter" /\ play > Len(plays)
  /\ phase' = "bye"
  /\ UNCHANGED <<connecting, playing, pushVars>>

\* Bye to every agent that is still there; one that cannot be told is dropped
\* as well.
Bye(h) ==
  /\ phase = "bye" /\ slot[h] \in {"live", "stale"}
  /\ Kill(h)
  /\ UNCHANGED <<job, plays, phase, dial, outcome, playing, pushVars>>

\* Mutant of RunVerdict: hosts that were never reached do not count.
RunVerdictFailed ==
  IF stopped \/ \E h \in Hosts : outcome[h] = "failed" THEN "failed" ELSE "succeeded"

\* `HttpReporter::finish`: failed iff the run stopped early or a host failed
\* or could not be reached.
RunVerdict ==
  IF stopped \/ \E h \in Hosts : outcome[h] \in {"failed", "unreachable"}
    THEN "failed" ELSE "succeeded"

Finish ==
  /\ phase = "bye" /\ \A h \in Hosts : slot[h] \notin {"live", "stale"}
  /\ phase' = "done"
  /\ OnFinish(RunVerdict)
  /\ UNCHANGED <<connecting, playing>>

\* The controller is killed, or `run` returns an error.
Dies ==
  /\ phase \notin {"done", "dead"}
  /\ Leaves
  /\ UNCHANGED <<plays, dial, outcome, slot, playing, seq, chan, buf, goal, attempt, fin, renewDue, server>>

HostStep(h) ==
  \/ Dial(h) \/ Connected(h) \/ Unreachable(h)
  \/ \E r \in Results(h) : RunFanned(h, r) \/ RunAlone(h, r) \/ RunMeta(h, r)
  \/ ReadPeer(h) \/ Publish(h) \/ EndOfWalk(h) \/ Join(h) \/ Bye(h)

LoadStep == Load \/ Refuse \/ Start \/ \E answer \in Answers : OpenRun(answer)

LoopStep == \/ AllDialed \/ EnterPlay \/ Barrier \/ LeavePlay \/ LastPlay \/ Finish
            \/ \E h \in Hosts : HostStep(h)

Next == \/ LoadStep \/ LoopStep \/ Dies
        \/ (WorkerStep \/ Environment) /\ UNCHANGED loopVars

\* The runtime polls every connect task and every walker, and the push worker.
\* Neither the environment nor, before the first connection, the command need
\* ever act.
Spec == /\ Init /\ [][Next]_vars
        /\ WF_vars(LoopStep) /\ PushFairness

-----------------------------------------------------------------------------
(* Properties *)

\* The types of the run's state and of the report sink's.
TypeOK ==
  /\ plays \in Seq([hosts : SUBSET Hosts, strategy : {"per_task", "per_play"},
                    policy : {"stop", "mark_host_failed", "continue"}, gather : BOOLEAN,
                    tasks : Nat, flushes : SUBSET Nat])
  /\ phase \in {"load", "open", "plan", "connect", "enter", "tasks", "bye", "done", "dead"}
  /\ dial \in [Hosts -> {"waiting", "dialing", "up", "down", "none"}]
  /\ outcome \in [Hosts -> {"ok", "failed", "unreachable", "not_targeted"}]
  /\ slot \in [Hosts -> {"live", "stale", "dead", "none"}]
  /\ play \in 1 .. Len(plays) + 1 /\ peers \subseteq Hosts /\ failed \subseteq Hosts
  /\ walk \in [Hosts -> {"out", "refresh", "run", "publish", "wait", "join"}]
  /\ at \in [Hosts -> Nat] /\ reading \in [Hosts -> 0 .. Len(Contexts)]
  /\ layers \in [Hosts -> [defaults : 0 .. Len(plays), vars : 0 .. Len(plays),
                           facts : BOOLEAN, regs : Nat]]
  /\ view \in [Hosts -> Nat] /\ world \in [Hosts -> [Hosts -> Nat]]
  /\ stopped \in BOOLEAN
  /\ PushTypeOK

\* "hosts that connected AND haven't been marked failed under a prior play": a
\* host that failed or could not be reached runs no task again.
SitOut ==
  [][\A h \in Hosts : outcome[h] # "ok" => layers'[h].regs = layers[h].regs]_vars

\* "Clears prior plays' vars first": the tasks of a play see the play's own
\* vars and role defaults, on every host it targets.
OwnLayers ==
  phase = "tasks" => \A h \in peers : layers[h].vars = play /\ layers[h].defaults = play

\* "A wants its own freshest value": a task sees all registers of its own host,
\* those of handlers it has flushed included.
OwnFresh ==
  \A h \in Hosts : walk[h] = "refresh" /\ reading[h] = Len(Contexts)
                     => world[h][h] = layers[h].regs

\* Within a play no walker sees a peer's registers disappear again.
ViewsAdvance ==
  [][\A h, q \in Hosts : at[h] > 0 /\ play' = play => world'[h][q] >= world[h][q]]_vars

\* No item is lost or reordered on its way: what the server has seen, then the
\* buffer, then the channel are the run's items in order (an unanswered batch
\* is both seen and buffered).
ItemsInOrder ==
  LET queued == SelectSeq(chan, IsItem)
      onTheWay == buf \o [i \in DOMAIN queued |-> queued[i].seq]
  IN /\ \A i \in 2 .. Len(onTheWay) : onTheWay[i] = onTheWay[i - 1] + 1
     /\ onTheWay # <<>> => Last(onTheWay) = seq - 1
     /\ Items \ Range(onTheWay) \subseteq server.seen
     /\ \A i \in server.seen : 0 .. i \subseteq server.seen

\* A run that is final at the server without all its items has given up the
\* last flush: the items it misses are the undelivered buffer.
FinalGapIsBacklog ==
  server.verdict # NoVerdict => Items \ server.seen \subseteq Range(buf)

\* A run shown as succeeded came to its end without a failed or unreachable
\* host and without a stop.
VerdictTrue ==
  server.verdict = "succeeded" =>
    phase = "done" /\ ~stopped /\ \A h \in Hosts : outcome[h] \in {"ok", "not_targeted"}

\* Once the first host may be dialled, the connects, the plays and `join` come
\* to an end whatever the server does.
RunEnds == phase = "connect" ~> phase \in {"done", "dead"} /\ worker = "gone"

\* A task sees the layers of its own play and the latest of its own host.
ContextsTrue == TypeOK /\ OwnLayers /\ OwnFresh

\* From step to step no host comes back into the run and no view falls behind.
NeverBack == SitOut /\ ViewsAdvance

\* What the server has of a run is the run: its items in order, all but the
\* undelivered ones, and its verdict.
ReportFaithful == ItemsInOrder /\ FinalGapIsBacklog /\ VerdictTrue
=============================================================================
