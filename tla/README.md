# rsansible in TLA+

rsansible runs Ansible-style playbooks. A controller (`crates/ctl`) reads the
playbook and the inventory, connects to every targeted host, starts a small agent
there (`crates/agent`), and drives each play's tasks by exchanging frames
(`crates/wire`, `crates/wire-runtime`) with the agents. This directory models the
way of a run from its files to its report: loading and selection, the connect
phase, the scheduling of tasks across hosts and the state the hosts share, the
agent connections they compete for, retries, async jobs, composite tasks, how a
task's arguments reach the agent, what the agent's modules do to a machine,
forward mode, and the HTTP report. Line numbers below are those of
`crates/ctl/src/orchestrator.rs` unless a file is named.

## 1. The system's parts

| part | state it keeps | operations | what is hard, what must hold |
|---|---|---|---|
| playbook loading (`playbook/mod.rs`, `role.rs`, `import.rs`, `validate.rs`) | the playbook | parse, expand roles and imports, look files up, validate | what is written is what runs: conditions, tags, become and notifications survive the expansion |
| variables and selection (`inventory.rs`, `host_pattern.rs`, `limit.rs`, `tags.rs`) | inventory, layers of variables, secrets | resolve patterns, merge layers, choose transports | precedence; the right hosts; secrets known before the first task |
| connect phase and run loop (251-660) | host outcomes, pools, contexts | parallel connects under a semaphore, one strategy call per play, Bye loop | unreachable hosts stay out; a permit is given back; layers are those of the play |
| per_task strategy (1171-1443, 8287-8506) | `report.host_outcomes`, pending handlers | fanout, join, apply a result, run_once, flush | the barrier between tasks; a failed host stays out; stop halts; notifications are served |
| per_play strategy (1447-1687, 8511-8565) | the walkers, `first_failure` | one walker per host, inline flush, join | no barrier: walkers drift apart by whole plays and still agree on run_once results |
| task walk (1771-2194, 2352-2875) | slot counter, block nesting, `ansible_failed_*` | dispatch, block / rescue / always, loops | the counters of all hosts agree whatever path each took; outcome of nested blocks |
| run_once slot (2239-2281) | a `OnceCell` and a `Notify` | publish, wait | no lost wake-up, one value for all |
| agent pool (`pool.rs`; 1924-1952, 3628-3736) | one slot per become key and host | get_or_spawn, lock and dispatch, kill_all | single flight, exclusive use, no deadlock with delegation, dead means dead |
| composites (3356-6045) | a cache of key PEMs | probe, decide, act, each an exchange | a probe that is stale when it is used |
| retry loop (3092-3249, 7688-7876) | attempt count, last result, register | attempt, failed_when / changed_when, until, sleep | the decision table; what the register says |
| peer variable views (830-933) | a published copy of each host's context | publish, merge | eventual under per_play, exact under per_task |
| task parsing and dispatch (`playbook/task_op/`, 6300-7500) | none | read a body, render it, build the op, wrap it | an argument that is lost, renamed, truncated or left unrendered |
| wire protocol (`generated.rs`, `msg.rs`, `framing.rs`) | bytes on a stream | encode, frame, decode | lengths that do not fit their prefix; a stream cut anywhere |
| agent main loop (`agent/src/lib.rs`, `writer.rs`, `modules/exec.rs`) | a channel to the writer task, pipes of a command | dispatch, pump output, time out | bounded buffers on every side; neither end may wait for the other forever |
| agent modules (`agent/src/modules/`) | the target machine | idempotent operations, staged writes | check mode predicts, reruns are quiet, failures harm nothing |
| async jobs (`async_job.rs`, 3598-3740) | the agent's job table | start, run, time out, status, poll | a timeout racing the end and the output of a job; a poller that keeps the connection locked |
| report push (`report_http.rs`) | a buffer, a lease | post with retries, renew, finalise | duplicates, loss at the end, head-of-line blocking |
| forward mode (`forward.rs`, `forward_push.rs`, `local_agent.rs`) | a cache and a workspace on the forwarder | probe, push, start, relay, report | runs that share a cache; links that break in the middle of a push |
| templates, metrics, rendering, the declarative spike | none that control depends on | evaluate, count, print | see section 5 |

Parts interact in four ways. The run loop calls a strategy for each play, and the
strategies call the walk as (recursive) async functions, one tokio task per host.
The walkers share the `RunOnceCoord` of the play or fanout, the published contexts
of their peers, and the pools, which they reach across hosts through `delegate_to:`.
Results flow back through a join loop, which alone writes the report and kills
pools. And the report sink and the agents are behind channels and streams that are
bounded, may be slow, and may break.

`PROJECT.json` lists every component with its status, and every hazard with the
line where it bites.

## 2. The modules

```
scheduling   OnceBroadcast <- RunOnceSlot              RunOnceSlot_proofs
                 : justifies the atomic cell of
             HostWalk -> PerPlay, PerTask              HostWalk_proofs -> PerPlay_proofs,
                                                           PerTask_proofs
connections  AgentPool -> Composites                   Composites_proofs
             RetryLoop + AgentLink -> RetryLink        RetryLoop_proofs
             AsyncJob                                  AsyncJob_proofs
             Forward                                   Forward_proofs
a run        Selection -> Loading -> LoadPhase
             ReportPush + LoadPhase -> RunLoop
a task       WireTypes -> WireMessages -> TaskArgs -> SystemOps
             SystemOps + SqlFence -> NetOps -> TaskClauses -> Dispatch
a machine    TextEdits -> ModuleRuns -> FileModules -> SystemModules
                 -> ServiceModules -> AgentModules
```

An arrow is EXTENDS, except `OnceBroadcast <- RunOnceSlot`, a refinement. `MC*.tla`
hold the finite values and the instances.

**RunOnceSlot.** One step per access of a shared primitive: `cell.set`,
`notify_waiters`, `notified()`, `cell.get`, the await. `Notify` is a counter of
`notify_waiters` calls and each future remembers the counter at its creation,
which is how tokio documents it: the future is ready once a call came after it
was created. Its refinement `Broadcast` maps it to **OnceBroadcast**, in which a
value appears and everybody who waits takes it. HostWalk relies on this result
when it publishes and reads a cell in one step.

**HostWalk.** The recursion `dispatch_one_task` -> `run_task_on_one_host` ->
`run_block_on_one_host` -> `run_task_list_on_host` is an explicit stack of block
frames for each host, and `ctl` says where its walker stands (`call`, `iterate`,
`list`, `skip`, `armDone`, `return`). Tasks are numbered in pre-order, so a task's number
is the slot `RunOnceCoord::allocate` gives it; the slot counter is modelled with
each of its corrections (the `+1` of dispatch, the compensation after it, the
skip of the rest of a list task by task (`SkipNext`), the reset of a block's iterations). A leaf comes to
one of these results, chosen per host and task from the constant `May`: unchanged,
changed, skipped, error (an early return before the body, which `ignore_errors`
does not cover), failed, spoiled (failed, but `changed_when:` calls it a change)
and broken (the exchange failed and the connection counts as dead). `verdict` and
`taken` are history variables. A handler that is a block (`Composite`) runs in one
step: what its children notify is any part of what they name (`Tells`), and it may end
well although the connection was lost in it ("lost"). That suffices, because a handler
is dispatched without a coord under per_play (`RunOnceCoord::empty`), so that its walk
meets no other host, and under per_task in a fanout of its own, where only a run_once
child meets the others; what such a child does is part of the free choice of the step
(that it may wait for a runner which never gets there is the divergence of
`per_play_served`, and left out here).

**PerPlay** runs one walker per host over the whole play and drains handlers
inline; the constant `Plays` is a set of plays with their policies, one of which a
behaviour runs. **PerTask** fans every task out, joins all results and applies them,
and has the top-level form of run_once. Both contain every exit of the code: fatal
policies, lost connections, tag filter, meta tasks, no live host left, stop.

**AgentPool.** A walker resolves its target (`resolve_target!`), takes the pool
lock, looks up or spawns, lets go of the pool, takes the slot lock, looks at the
`Option`, exchanges frames, unlocks; on a failure it may take its own pool's lock
and empty slot after slot. Any walker may delegate to any host under any key.

**Composites.** The bodies of more than one exchange, `creates:` / `removes:`,
`openssl_privatekey`, `openssl_csr_pipe` and the `postgresql_*` composites: each
exchange goes through the pool's lock and slot again, so another walker may act
between a probe and the write it decides. `machine` is what the bodies are about (a
marker, a key, roles, memberships, a database), `seen` a walker's last probe, `pem`
its key cache, `log` what each body was asked and left behind.

**RetryLoop.** `run_body_with_retries` on the single-execution path, with every
combination of clauses as an initial state. Every expression may evaluate to true,
to false, or not at all. `reg` is what is stored under the task's register name.
**AgentLink** is one connection as the agent's `serve`, its emitter, the bounded
channel, the writer task, the pipe to a command and the controller's reader make it,
with every one of those buffers bounded (`ChanCap`, `WireCap`, `PipeCap`).
**RetryLink** spells the attempts of the tasks in `Linked` out as exchanges over it.

**AsyncJob.** One agent and the walkers that use it. On the agent a job is an entry
of the table and a watcher, whose `select!` is one action per arm in the order of
`biased`: a chunk in the channel (`Stash`), the dispatch (`Launch` when it is first
polled, `Sends` while it stays pending, `Returns` and `ReturnsSilently` when it is
ready), the deadline (`TimesOut`). The controller's side is `run_op_body` from the
number it draws to the end of the poll loop, with the slot lock in `guard`. Time is
two flags per job, the agent's deadline and the poller's, which is never earlier.
`owner`, `told` and, past the end of a command, `sent` are history variables. That a
chunk sent in the poll in which the deadline fires is lost is part of `TimesOut`.

**Selection**, **Loading** and **LoadPhase** are what happens before the first
connection. A *job* is all that a command reads: plays, roles, files, inventory, var
files, flags. The expansion, look-ups and checks are operators in the order of the
code's passes; `LoadPhase` has the step that loads a job or refuses it.
**ReportPush** is the reporter's worker: its channel, batches, retries, lease renewal
and finalisation, against a server and a network. **RunLoop** extends both with
`run()`: dials under the semaphore, play after play under its strategy, layers of
variables, published peer views, the Bye loop, and the verdict the worker posts. A
play is here a row of leaves; HostWalk and the strategies have the trees.

**WireTypes** has the types of `generated.rs` as data (fields with their widths) and
one encoder and decoder over them, **WireMessages** the constructors of `msg.rs`,
**TaskArgs** the kinds of parameters a body's deserialiser knows, and
**SystemOps**, **NetOps**, **TaskClauses** one *form* for each module: its keys, their
kinds, aliases and defaults, and the op it becomes. **SqlFence** is the check-mode
fence around SQL, and, as the reference, a reading of the same texts after PostgreSQL's
own rules that uses none of its scanners. **Dispatch** runs a
task through reading, rendering, `to_wire_op`, the wrapping, the frame, a stream that
may be cut, and the decoder.

**ModuleRuns** gives a module run its steps (read, validate, stage, rename, run a
command, ...), with a failure or a loss at any of them; **TextEdits** the pure edits of
`lineinfile` and `blockinfile`; **FileModules**, **SystemModules** and
**ServiceModules** the modules; **AgentModules** two actors that run sequences of ops,
checks and runs alike, on one small machine, and logs what each found, answered and
left.

**Forward** has the laptop's side of `run_forwarded`, the forwarder's two scripts step
by step, the cache they share, and the back channel to the desk's own agent.

## 3. What is checked

Most properties of the configurations are conjunctions of named parts, listed below
with what they rule out; the parts have their own definitions and comments. Bounds
are named in the modules or given in the configurations. Deadlock checking is off
everywhere because every system here ends; that nobody gets stuck is a liveness
property where the code promises it.

| run | states | what it asks |
|---|---|---|
| `run_once_slot` | 3 k | two publishers (the second meets the silent no-op), three waiters, two values: `NoLostWakeup`, `ImplementsBroadcast` |
| `per_play` | 276 k | two plays on two hosts. Under continue: nested blocks, rescue in rescue, run_once in a block, in an always arm and last, a flush in the middle, a handler that is a block and notifies one before it. Under stop: a looped block with a run_once and a meta task in it, up to two items. Failures, skips, errors and lost connections nearly anywhere: `RunOnceShared`, `BlocksMeant`, `OutcomeTrue`, `Notified`, `Terminates` |
| `per_task` | 333 k | a play on three hosts under all three policies, run_once at top level and in a block, flushes, a handler that is a block and notifies one drained before it: `InStep`, `Notified`, `FailedSitOut`, `Terminates` |
| `agent_pool` | 208 k | two hosts, two keys, two tasks each, any delegation, any failure; then plans of composites on one target: `PoolSafe`, `KillFinal`, `Progress`, `PoolRespected`, `BodiesTrue`, `KeyKept` |
| `retry_loop` | 515 k | all task shapes with no, 0, 1 and 2 retries (and the default of three with `until:`), three of them over a link with buffers of one: `DecisionTable`, `AnswerTrue`, `LinkSound`, `LinkEnds` |
| `async_job` | 307 k | two walkers and two jobs on one agent, a chunk of output each, a channel of two, the agent dying at any time: `JobsTrue`, `AnswersFinal`, `PollerReturns` |
| `run_loop` | 451 k | some 2 800 projects for the load phase; two hosts, a per_play and a per_task play in either order, and the report worker beside them: `LoadMeant`, `SelectionMeant`, `ContextsTrue`, `NeverBack`, `ReportFaithful`, `RunEnds` |
| `dispatch` | 306 k | some 20 000 tasks, every key of every module alone and in the combinations the code treats specially, their streams cut: `ArgsArrive`, `FramesTrue`, `TasksRead` |
| `agent_modules` | 669 k | some 600 machines with the ops that may come, up to four in sequence, two side by side, one failure or loss: `AnswersTrue`, `RerunQuiet`, `CheckPure`, `DestSafe` |
| `forward` | 882 k | two laptops through one forwarder, one mishap (a link, a push, a run or an `accept` that fails) and one purge at any moment: `StagingSafe`, `RunTrue`, `ForwardEnds` |
| `per_play_slots` | violation | `SlotAligned`, see below |
| `per_play_served` | violation | `Served`, see below |

Why the bounds are enough. Two hosts show slot misalignment, since the property
compares each counter with the task it stands at; three are used where a third party
matters (a host that waits while two others finish differently). Two loop items show
the replay of slots; two operations per walker a dead slot met after a kill. Two jobs
with one chunk each show a job that is started, asked about or timed out while another
is; the channel of two lets a last chunk and the terminal message arrive in one poll,
which is where draining it matters. Buffers of one on the link make every writer wait
at least once. One permit makes the second dial wait. One mishap suffices for Forward,
as runs are independent but for the cache and a mishap is final for its run. Expansion depth two
stands for the real limits of 16: the property is that a chain over the limit is
refused and one below it is not. One op failing and one lost is what a rerun must
recover from.

The properties and their parts:

* `RunOnceShared`: `SlotAligned`, a host that dispatches a task stands at that task's
  slot, after any mix of skipped blocks, broken lists, rescues and lost connections;
  `BroadcastFaithful`, a result taken over from a cell was published for that very task
  by a host that ran it.
* `BlocksMeant`: `BlockOutcome`, `ArmDiscipline`, `FailedVarScoped`, the state machine
  of block / rescue / always against its declarative meaning.
* `OutcomeTrue` (`OkMeansVisited`, `QuietAfterFailure`), `InStep` (`Barrier`,
  `StopHalts`, `LiveHasPool`), `FailedSitOut`: outcome, policy and pool fit together.
* `Notified` (`PendingJustified`, `NotificationsServed`): a notification has a change
  behind it and is not lost.
* `PoolSafe` (`OneAgentPerSlot`, `Exclusive`, `InFlightLive`), `KillFinal` (when a kill
  is through, nothing in the pool is live or in use, whoever was looking up, spawning or
  waiting meanwhile, and a slot that was emptied stays so; a key that is new to the pool
  gets an agent, see below),
  `Progress` for the pools; `PoolRespected` says that composites use them by the same
  rules (AgentPool's `SafeSpec` is a property of the composed system).
* `BodiesTrue`: `GoalMet`, `ChangedTrue`, `RacersAgree` (bodies that agree on what they
  want end with it however they overlap), `SignedByPlaced`; `KeyKept`, a key that is on
  its target is replaced only if another body came between the probe and the write.
* `DecisionTable`; `AnswerTrue` (`OkMeansAnswered`, `RegisterCurrent`); `LinkSound`
  (`StreamClean`: each dispatch finds a silent stream, `AnswerWhole`: an answer comes
  after all the command wrote); `LinkEnds` (`ExchangeEnds`, `AgentLeaves`).
* `JobsTrue` (`OneVerdict`, `FullOutput`, `OwnJob`), `AnswersFinal`, `PollerReturns`.
* `LoadMeant`: `LoadRefuses`, `PathInherited` (conditions, tags and become reach every
  task from whatever it stands in, nothing is lost, doubled or moved), `NearestSource`,
  `NotifyResolves`. `SelectionMeant`: `ResolveMeant`, `OneTransport`, `VarsLayered`,
  `SecretsKnown`. They compare what the passes come to with a declarative reading of
  the same files.
* `ContextsTrue` (`OwnLayers`, `OwnFresh`), `NeverBack` (`SitOut`, `ViewsAdvance`);
  `ReportFaithful` (`ItemsInOrder`, `FinalGapIsBacklog`, `VerdictTrue`); `RunEnds`.
* `ArgsArrive`: each argument arrives under its own name, `NoneLost` (no key that says
  something can be left out without the agent noticing), `TemplatesTransparent` (an
  expression counts for what it yields). `FramesTrue`: what is read is what was sent,
  in order, and a cut stream is an error unless it is cut between frames. `TasksRead`:
  `ClausesTaken`, and `ReadOnlyTrue`, under check mode no writing statement gets through
  but in a `Misleading` text.
* `AnswersTrue` (`OkMeansDone`, `UnchangedMeansSame`, `CheckPredicts`), `RerunQuiet`,
  `CheckPure`, `DestSafe` (`FailureHarmless`, `DestWhole`, `VettedOnly`, `NoLitter`,
  `LinesKept`).
* `StagingSafe` (`TornOnlyCut`, `StagedBeforeExec`, `StreamFits`, and `RunsWhole`: a
  controller at work took whole binaries, but for an agent of the cache that was cut
  short), `RunTrue` (`PlacedRight`: `connection: local` is the laptop of the run or, once
  its listener or link is gone, nobody; `ReportTrue`), `ForwardEnds`.

Some properties carry exceptions by name (`Repeats`, `Unforeseen`, `Unreported`,
`Overruled`, `EmptySays`, `Unrendered`, `Misleading`, `Excused`, `Untold`, `Belated`):
each lists the places where the code is known not to keep the rule, and section "Where
the code and its comments part" says what happens there. The last three are about
scheduling. `Excused`: a connection was lost in a task whose failure is ignored or
rescued, so that the host counts as ok though it ran no further. `Untold`: the broadcast
of a run_once task without register, or with an ignored failure, notifies without a
change. `Belated`: a handler block notified a handler that stood before it in the flush.
They are stated because the theorems of section 4 are about all plays; the plays of the
passing runs come upon `Belated`, and avoid most of the others and the two divergences
below: the runner reaches all its run_once tasks, and no play has a block with a rescue
arm and a run_once task in its always arm outside a looped block.

### Where the code and its comments part

Two disagreements have a run that finds them:

| run | property | what TLC finds |
|---|---|---|
| `per_play_slots` | `SlotAligned` | a block that needs no rescue does not step over the slots of its rescue arm (2804-2809) before `always`; rescued and unrescued hosts then disagree about the slots of the always arm |
| `per_play_served` | `Served` | a runner that leaves the play after a failure (1610-1612) never publishes its later run_once slots; the others wait forever |

The others were noticed while modelling. They are in the models as the code has them,
unless a line says that the case is left out.

*Scheduling and connections.*
* `get_or_spawn` (`pool.rs` 135) starts an agent in a pool that `kill_all` has emptied
  if the key is new, although `pool.rs` 255-257 says that "every future op against this
  host (including delegate_to hops) sees a dead handle". `KillFinal` is therefore about
  the agents that were there, not about the host.
* `until:` exhausted, or an expression error: the task fails and its register says
  `failed: false` (3226-3234, against 2883). An expression that does not evaluate
  replaces `conn_alive: false` by `true` (3187, 7808, 7844).
* A polled job that failed, timed out or still runs ends its task Ok (3728): the exit
  code is that of the status operation, and `lift_async_envelope` (6171) drops the
  job's `rc` and `failed`; the comment at 3664 wants it to "feel like a synchronous
  run". The seconds of `async:` are cut `as u32`.
* An ignored failure with a lost connection ends a host's walk under per_play
  (1615-1625) and the host is reported Ok although its later tasks never ran (73).
  A run_once task without register whose failure is ignored notifies all the other
  hosts (1408-1413, against 2880). Under per_task an ignored failure that reports a
  dead connection kills the pool of a host that stays in the play (8425-8433, against
  2881). The exchange of `gather_facts` that breaks leaves its slot live.
* Handlers cannot notify (`validate.rs` 163-171, which looks at the handler itself only);
  a child of a handler's block may: a handler that stands earlier stays pending when the
  play ends, or runs in the next flush of the play. A drain ends with the connection
  (8560) and leaves the rest pending, though the host counts as ok if the handler's
  failure was ignored.
* A frame over the maximum makes the agent's writer task end while `emit` swallows the
  error: the controller waits for an answer that cannot come (`writer.rs` 34-36 says
  otherwise). The configuration keeps frames within the limit; with `Sizes` extended by
  "huge", `ExchangeEnds` fails. A grandchild that holds the pipes of an exec keeps it
  past its timeout (`exec.rs` 195-200).
* The key composite caches the PEM it has generated before any dispatch and also when
  the target has a key already (3973-3978, 4053-4072); a request in the same run is
  then signed with a key that is on no disk, where `exec_ctx.rs` 104-106 expects a loud
  failure. The cache is keyed by path, not by target, and outlives the play. Two
  walkers that delegate a key task to one target can overwrite one another's key.
  A failing pair of a membership task leaves the earlier grants, with no register.

*The report.* The verdict is posted also when the last flush was given up
(`report_http.rs` 407-412, against "a network blip never loses a run" in the protocol's
document); retries can outlast the lease, which the same worker renews; under per_play
no per-item results are reported (8414, against `report.rs` 7-8); unnamed tasks share
their dimensions; if `run` returns an error the process ends without joining the worker;
a run that is refused after its report was opened stays open until the lease expires.
Under per_play peers outside the live set have no view, under per_task all are overlaid.

*Loading and selection.*
* `import_tasks` hands down only tags and when, `include_role` only tags, when and
  vars; become, loop, environment, notify and the rest are dropped without a word. The
  synthetic `set_fact` of `include_role` has no tags (`role.rs` 277), so under `--tags`
  its tasks may run without the include's variables.
* The passes that load templates and files, tag, import, include and precompile visit
  top-level tasks only: a `template:` or `copy:` with a file inside a block is always
  refused, against "walk every task in the playbook". Tag filters see top-level tasks
  only, and `meta` tasks are never filtered (1083, 1221, 1567).
* A role listed twice has its handlers doubled and is refused. Groups are in name
  order, so `web[0]` is not by declaration. `all` leaves out the implicit localhost,
  which globs match. `[never, always]` runs without `--tags` (`tags.rs` 36-37).
* The coordinates of a host are layered disk over inline, all other variables inline
  over disk (`inventory.rs` 438-452 and 711-738 here). `host_vars/localhost` is never
  read for the implicit localhost. Vault values shorter than eight characters are not
  redacted, by design.

*Reading and dispatching tasks.*
* Lengths of 16 bits are cut without an error. Numbers of `mode` and `port` are cut
  `as u32` before they are checked; a timeout of `get_url` wraps.
* Some fields are never rendered: `regexp`, `insertbefore`, `insertafter` of lineinfile,
  the markers of blockinfile, digests, and all of `openssl_privatekey` but the path,
  though `openssl.rs` 30-31 says that its mode "accepts a Jinja template too". Checks
  made at parse time on the text of a template are not repeated on what it yields.
* The omit sentinel becomes an empty text, which says something in lists, for keys with
  a default, for shell and home of a user, and for the directory of a tempfile; a required
  key that is omitted is sent empty.
* Unknown keys in a mapping of `shell:` are ignored, though `task_op/mod.rs` 20-21 says
  that bodies refuse them. Of two aliases of ufw and iptables parameters one is dropped
  silently; ufw's precedence ignores what a rule overrides. A command with `creates`
  and `removes` looks at `creates` only (3356-3362). `selfsigned_not_after` is dropped
  under ownca, owner and group of `openssl_privatekey` are read and never applied.
* The SQL fence lets statements through that write. `Misleading` names the texts:
  `Hidden`, a quote, comment or semicolon in a literal with double quotes or dollars
  (559-600 and 612-645 know single quotes only, though 542-544 speaks of dollar-quoted
  bodies); `Glued`, words with only a block comment between them, which 559-576 cuts out
  without a blank, so that `EXPLAIN ANALYZE/**/DELETE` is an unknown option and
  `WITH x AS (DELETE/**/FROM t ...)` holds no keyword; `DollarWord`, a word with `$$` in
  it; `Creates`, `SELECT INTO`; `OddAnalyze`, `ANALYSE`, `"analyze"`, a value right behind
  ANALYZE, and ANALYZE on after it was off (355-374 takes the first, PostgreSQL the last).
  Not among the model's texts are strings with escapes (`E'\''`) and functions that
  write; both pass the fence too. Options of EXPLAIN that are not closed panic (382-402).

*Agent modules.*
* `get_url` sets attributes after the rename, its document says before; under check it
  ignores permissions. `write_file` and `copy` set the owner after the mode, so a setuid
  bit never converges; they rewrite unchanged content and may hand the file to the
  agent's user. The edit modules drop ownership in the rename and leave their staged
  file behind on an error; a marker that is not closed swallows the rest of the file
  (`blockinfile.rs` 352-374). `authorized_key`, repositories and get_url stage under a
  fixed name that two runs share.
* The metadata of a destination that cannot be read count as absent (`.ok()`, `write_file.rs`
  87, `copy_target.rs` 90, `repository/apt.rs` 96), so such a run reports a change of what
  it left as it was. A unit that is still activating is not stopped and reported unchanged
  (`systemd.rs` 192-197).
* A user whose primary group is among its groups changes every run; hostname, timezone
  and repositories report ok after a partial failure; ufw reports changes forever while
  inactive and takes "22" to be in "2222"; `pip latest` never upgrades; `apt latest`
  with a virtual name is unchanged; timezone and modprobe announce changes that the run
  does not make; iptables removes one copy only.
* An extraction that breaks off leaves files with new times: a rerun with `keep_newer`
  keeps the torn one, and a marker made by the broken extraction makes the rerun skip.
  A request whose answer is lost is a failure, and its retry applies it twice.

*Forward mode.* A push whose input ends early lets `cat` succeed, and a truncated file
is installed under the hash of the whole one (`forward_push.rs` 29-32). Both scripts
trap EXIT and then `exec`, so nothing is cleaned up after a success (`forward.rs`
964-985). The listener of `connection: local` "accepts connections forever"
(`forward.rs` 638-640) up to the first error of `accept` (`local_agent.rs` 63-68), which
is logged and no more: the run goes on, and its laptop is out of reach. A host with
`connection: local` that is the forwarder itself runs there. A controller that has lost
its laptop goes on. `--report` is ignored.

### Fairness

`RunOnceSlot`: weak fairness of a notifier and of each waiter that has arrived,
since tokio polls a task that can go on. Nobody is obliged to arrive or to publish.
`PerPlay`, `PerTask`: weak fairness for each walker and for the loop, for the same
reason; a body always ends, because the agent answers or the stream breaks.
`AgentPool`, `Composites`: strong fairness of a walker's steps. tokio's mutex is first
come, first served, so a lock that is released over and over is got in the end; and an
operation or a spawn ends. No fairness is assumed of starting a task.
`RetryLink`: weak fairness of the loop, of the controller's reader and of the agent's
steps: commands end, what they leave behind closes its output, lost connections are
noticed, and no frame is over the limit.
`AsyncJob`: weak fairness of a poller inside its loop, of each watcher, and of
`Expire`, because time passes; a command is under no obligation to end, and nobody
needs to start or to ask anything.
`RunLoop`: weak fairness of the loop's steps from "connect" on and of the worker's
posts, strong fairness of the worker taking an item and the finalisation, which compete
with renewals in a `select!`. Nothing is asked of the load phase, the server or the
network.
`Forward`: weak fairness of the laptop, the scripts and the remote side: programs go on,
a play ends, and ssh notices in the end that its connection is gone (the code sets no
keepalive, so that is an assumption about the environment).
`Dispatch` and `AgentModules` have safety properties only.

## 4. What is proved

All theorems are about the modules as TLC runs them, for every value of the
constants that satisfies the named assumptions.

* `RunOnceSlot_proofs` (assumption: `NoResult` is not a result). `NoLostWakeup` and
  `Agreement` are inductive together with the types, `SnapshotBound` (a waiter's
  snapshot is at most the number of calls so far, so a new call always differs from
  it) and `NothingEarly` (a waiter that has not returned holds nothing). From it
  `WakeupSafety`, `OneResult`, and `SlotRefinesBroadcast`: every step is a step of
  `OnceBroadcast` or a stutter. `Agreement` is no property of the run: it follows from
  the refinement.
* `HostWalk_proofs` (`TreeAssumption`, `PreOrderAssumption`; for the slots also
  `GaplessAssumption`). One walker in the subtree
  of the task it was sent into, for every tree of tasks, any nesting of blocks and
  loops, and whatever the tasks do. Its predicates are about one host's state as values
  (`Standing`, of which `Walker(h, t)` is the instance): `Nest` (the frames are blocks
  nested in one another, each at the task of the next), `Control` (what `ctl` allows of
  the innermost frame), `Meaning` (what each frame says of the verdicts: which arms are
  fresh, which tasks are behind, what `over` stands for), `Scoped` (the failed task of
  every rescue arm and what it saved), `Owned` (a lost connection comes with a failure
  or an excuse), `Rooted` (the task itself ends last). The properties alone are not
  inductive: what a block returns follows from its `over` flag and its arm only if the
  flag has told the verdicts all the way, in every frame of the stack, also the ones
  that wait. `WalkerSteps` is the result the strategies use: a step leaves the walker in
  its subtree, writes verdicts of that subtree only, outside loops each once, and
  notifies for a reason. `MeansBlocks` gets `BlocksMeant` from it.

  `Counts` is the same for the slot counter, which is no part of that invariant. `Counted`
  says where the counter stands in terms of tasks: at the task that is dispatched, past
  all of one that has returned, and inside an arm beyond every child that the list has
  been through and not beyond any that is left (`Amid`); where a loop has cut the coord
  off, only that it is not beyond the end of the looped block, which is what lets the end of
  `dispatch_one_task` put it right. That the two agree rests on subtree sizes that add
  up along every path, which `GaplessAssumption` and `PreOrderAssumption` say of the numbering
  (an induction over the fold in `Size` is not needed).
* `PerTask_proofs` (these and `PlayAssumption`). `IInv` adds to the walkers that none is
  under way outside a fanout (`Loop`), where the loop is (`Place`), that what is ahead is
  untouched on every host (`Future`: without it a host might come to a task that has a
  verdict already) and what is behind it done on every host in the play (`Past`), whose
  results of the task at hand are known (`Present`), and which handlers may still be
  pending in a flush (`Flushing`). From it `InStep`, `Notified` and `BlocksMeant` as a
  whole, and `FailedSitOut` as an action property.
* `PerPlay_proofs` (these and PerPlay's `PlayAssumption`). No host waits for another but at
  a cell, and what it takes from one is a result like its own; so the invariant is one of
  each host by itself (`Sound`): `Placed`, `Ahead` and `Behind` as above, `Faults` (a
  failure is known to the walker or just coming back; a fatal one is the last thing that
  has happened), `Over` (why a host is at its end and what the join loop made of it),
  `Draining` (in a drain only the handlers to come are pending,
  and those notified too late), `Reasons`. From it
  `OutcomeTrue`, `Notified` and `BlocksMeant`.

  These results hold whatever a cell held. That it held the right thing is `SharedPerPlay`
  (`RunOnceShared`, with `SlotsAssumption`). Its invariant `SlotsInv` says that each host
  is in line with the tasks of the play (`Lined`: `Counted` in a task, `Due` between two
  tasks and in a flush on the way; after the last drain nobody counts), that a cell holds
  what the runner published for the owner of the slot, as it ended there (`Published`), and
  that only this is taken, and not by the runner (`TakenWell`). A published result lasts
  because a task outside loops ends once on a host, which is `IInv`'s part. The theorem
  assumes `Straight`: no block outside loops has both a rescue arm and an always arm. That
  is the divergence the run per_play_slots shows, and the only one: with any other nesting,
  and any failures, the counters agree. The plays of the run per_play are `Straight`.

  What the assumptions ask of a play is what `allocate` and the loader make of every one:
  tasks are numbered in pre-order and without a gap, those of a play lie apart, one after
  the other, and hold no handler. A handler is in no block of the play; one that is
  not a block notifies nobody (`HandlerAssumption`, which is what `validate.rs` 163-171
  enforces), one that is a block may notify any, and with it the two `Notified` theorems
  say what a flush can leave behind: what such a block notified after that handler's turn
  (`Belated`), and under per_play what a lost connection cut off.
* `Composites_proofs` (`PoolAssumption`, `PlansAssumption`). First the pool: `TypeOK`,
  `OneAgentPerSlot` and `InFlightLive` are inductive together with `PoolHeld` (who looks
  up, spawns or kills holds the pool lock), `SlotHeld` (who looks at a slot or uses it
  holds its lock), `SpawnsMissing` (a spawn is for an absent slot: nobody can have filled
  it since the look-up) and `MissingNeverSpawned`. `Exclusive` follows from `SlotHeld`.
  `PoolSafety` is `PoolSafe` as a whole, `KillIsFinal` the action property; it needs
  `KillsAll` (who kills has yet to empty every slot that is live). Then the
  bodies: `BodiesUsePool`, each step of a composed
  system is a step of AgentPool or a stutter, so its invariants hold with composites
  too (`BodiesSafe`). `KeysSurvive` is `KeyKept` for any number of hosts and plans; its
  invariant adds `Shaped` (every walker has a body, every target a place for a key),
  `Solitary` (a body that counts as alone has no other one beside it) and `SeenStands`
  (what a body alone has seen still stands, which is why only a body that was not alone
  can replace a key).

  `BodiesAreTrue` is `BodiesTrue` as a whole. None of its parts is inductive, because what a
  record says was decided exchanges earlier, and others may have been at the target since.
  `BodyInv` adds what holds on the way: `AtTask` and `InTurn` (who is at a task is at one of
  its plan, with the last of its pairs ahead, and acts because a probe found a need),
  `AloneKnows` (a body that counts as alone knows its target: as it found it, or, for a
  membership, by the pairs it has settled, up to whether it has told of a change),
  `CalmKept` (what a body that nobody contradicts has seen or settled stands in spite of
  the others, because an act of a task that agrees keeps it: `RoleActKeeps`, `GoalKept`),
  `KeyHeld` (the key in a walker's context is the one it placed last, and none while one is
  read from the target) and `RecordsTrue` (each record by itself). Every action is first
  shown to be one of nine moves of its walker (`StepMoves`), so the invariants are proved
  about moves and not about eighteen actions. What the acts do is in lemmas about tasks
  and targets alone (`LeftIsMet`, `ActedOnIsUnmet`, `ActMeets`, `ActChanges`).
  `PlansAssumption` says that tasks and targets are such: of one of the six kinds, with the
  fields of that kind; a membership names at least one pair (`take_string_or_list` refuses
  an empty list) and no database is asked for with the owner "none", which is the model's
  word for a database that is not there.
* `RetryLoop_proofs` (`CountsAssumption`, `LinkAssumption`). The invariant adds
  `Counted` (the log is as long as the finished attempts and no earlier entry met the
  condition) and `Held` (a result with a register stems from the current attempt). From
  it the whole `DecisionTable` and, as `AnswerIsTrue`, `OkMeansAnswered` and
  `RegisterCurrent`, for any number of retries. `LoopMoves` (a step of the loop over a
  link is one of the loop alone, or gives the task up because there is no agent) carries
  both over to `LinkedSpec`, the specification of the run retry_loop: `LinkedDecision`,
  `LinkedAnswer`.

  `LinkIsSound` is `LinkSound` for any output of the command, any size of the three
  buffers and any number of attempts, and with answers above the limit, which the run
  leaves out. `StreamClean` and `AnswerWhole` speak of the ends of
  an exchange, so `LinkInv` says what the queues and the agent hold on the way there. On a
  connection that stands there are three phases (`Phased`). In the `Opening` one frame is
  under way at a time, and none that the writer could refuse. In an `Exchange` the two
  queues hold frames of this dispatch only, output first and at most one answer, and that
  one last (`Ordered`, `Ends`); and for each stream the chunks captured, under way, queued
  and in the pipe add up to what the command has written (`Sent`, by counting the frames
  of a stream: `CountQueued`, `CountTaken`). Around it all is `Silent`. Hence `LastFrame`:
  when the frame that ends the exchange is read, nothing is behind it and everything was
  before it. A connection that is lost holds nothing (`Empty`), and an answer that was
  read stays that of the agent's last job (`Arrived`).
* `AsyncJob_proofs` (`AsyncAssumption`, `NoEntryAssumption`). The invariant adds
  `EntryInv` (an entry is open and holds all but the queued output while its watcher
  selects, and is closed with one verdict afterwards), `Numbered` and `Drawn` (a drawn
  number belongs to one walker, and every job in the table to a drawn number) and
  `ToldClosed` (a job reported finished has no watcher any more). From it `TableTrue`
  and the action property `FinalAnswers`, for any number of walkers, jobs and chunks.
* `Forward_proofs` (`ForwardAssumption`). `Sessions` ties the state of a run to that of
  its connection and script, `Stood` says that a binary a run counts on stood or was
  tidied away, `AllUntorn` that a binary no push of which was cut is whole wherever it
  is, `AllTook` the same of what a running controller took. From them
  `StagedWell` (its part about controllers is `ControllersRunWhole`) and `RunIsTrue`, for
  any number of laptops and mishaps, with listeners that may end on an error. There are
  two binaries, as in the code.

Only model-checked:
* everything under fairness (`Terminates`, `Progress`, `PollerReturns`, `LinkEnds`,
  `RunEnds`, `ForwardEnds`, the liveness half of `ImplementsBroadcast`): the prover
  handles neither liveness from fairness nor ENABLED;
* loading, selection and dispatch: they are operators over files and messages, many of
  them RECURSIVE (`Loading`, `TaskArgs`, `WireTypes`, `SqlFence`, `Dispatch` and those
  built on them), and no module with a theorem uses them. The same goes for RunLoop,
  which extends them;
* the agent's modules (`AnswersTrue`, `RerunQuiet`, `DestSafe`, `CheckPure`). What an
  edit makes of a text, and whether it makes it again, is what `SelectSeq` and its like
  compute over lines of any number: induction over data. Besides, `LinesKept` is no theorem
  for every scene: an edit that adds another's end marker makes a block of what was none.
  The scenes of the run have no such pair.

## 5. What is left out, and why

* The template language: expressions are free choices or small values; filters,
  lookups and the fixpoint over variables are pure functions of `template.rs` and
  minijinja. The vault's cryptography, TLS, ssh's own protocol, and the contents of facts.
* Metrics, counters, reporter output, logging and censoring: no control depends on
  them. The declarative spike is used by no other crate.
* In the scheduling models: a leaf with `loop:` is one result, its iterations and their
  aggregate register (2040-2193) are not followed; register names are one per task (a
  shared name makes the broadcast read a value of another task, 1402); delegation is in
  AgentPool and Composites, without the tree; bodies that stay on the controller cannot
  break a connection and are no leaves here.
* Async jobs other than commands; the `changed` and `skipped` flags of a job; a status
  question for a job of another agent process (`async_job.rs` 221), which the
  controller takes for a broken exchange; a command that outlives its job's deadline
  (the code does not kill it).
* Composites: x509 certificates and tempfiles (no exchange of their own, dispatch has
  their arguments). A successful command is taken to make its marker; what PostgreSQL
  refuses is an external choice.
* Load phase: jobs come in families, one feature each in the combinations that
  interact, and only some of them (`followed`) go on past planning; the two locations of
  a role are one; validation without an inventory, the field checks of single ops,
  precompilation and the order check of requests are one possible `fault`; imports
  name files of the same directory.
* Wire: an octet has 32 values, u8 and u16 take one, u32 two, u64 three, and a frame
  holds at most 130, so that every length can reach its limit in a small text; a second
  is two milliseconds, modes and numerals have one digit. Null and absent are
  the same; shlex and comma splitting, word spellings of ufw rules and lists of packages
  given by `splat` are left out, as are `context.rs`, `codecs.rs` and the bit-wise part
  of `bitstream.rs`, which the generated code does not use.
* Agent modules: diff payloads, archive formats, directories and links in archives,
  redirects. Agent main loop: Hello, Ping and Bye (a connection is up or not).
* Forward: what goes into the bundle is its number of parts; progress output. How the
  agent binary gets to an ordinary host, the clock offset and the arguments of ssh: a
  spawn succeeds or fails.

## 6. Plan

Done: the modules and proofs above. Worth doing next, in this order:

1. `LoopTask`: the iterations of a leaf with `loop:`, their aggregate register and the
   retries inside them.
2. `BarrierLoop`: an abstract per_task (a set of live hosts, a task at a time) with a
   proof of barrier and halt, and PerTask shown to implement it.
3. Of the agent's modules, a proof of what does not depend on the contents of a text:
   `CheckPure`, `DestWhole`, `VettedOnly` and `NoLitter`.
4. A proof of `ItemsInOrder` and `FinalGapIsBacklog` for ReportPush, once it is split
   from the load phase for the prover.
