------------------------------ MODULE HostWalk ------------------------------
(***************************************************************************)
(* One host walks a tree of tasks (orchestrator.rs): `dispatch_one_task`,  *)
(* `run_task_on_one_host`, `run_block_on_one_host` and                     *)
(* `run_task_list_on_host`.  The recursion of these async functions is an   *)
(* explicit stack of block frames per host; the hosts share only the       *)
(* `RunOnceCoord`, one cell per task of the tree, which each host indexes  *)
(* with a slot counter of its own.                                         *)
(*                                                                         *)
(* Tasks are numbered 0 .. NTasks-1 in pre-order, the order in which       *)
(* `RunOnceCoord::allocate` assigns slots: the number of a task is the     *)
(* slot it owns.  PerPlay.tla and PerTask.tla extend this module with the   *)
(* two strategies that feed it tasks and consume the results.              *)
(***************************************************************************)
EXTENDS Integers, Sequences, SequencesExt, FiniteSets

CONSTANTS
  Inventory,   \* the hosts, in inventory order (a sequence without repetition)
  NTasks,      \* the tasks of the play and its handlers
  Kind,        \* task -> "leaf" | "block" | "meta"
  Arm,         \* task -> [tasks, rescue, always : sequence of tasks]
  RunOnce,     \* the tasks with `run_once: true` (never a block)
  Ignore,      \* the tasks with `ignore_errors: true`
  Register,    \* the tasks with a `register:` clause
  Looped,      \* the blocks with a `loop:`
  MaxItems,    \* bound: items of a loop
  HandlerList, \* the handlers of the play, in declaration order
  Composite,   \* those of them that are blocks; a run of one is a single step here
  Notify,      \* task -> set of handlers; of a composite one, what its children notify
  May,         \* [host, task] -> what the task may do on that host
  NoTask       \* absence of a task

Hosts == Range(Inventory)
Tasks == 0 .. NTasks - 1
Arms == {"tasks", "rescue", "always"}
Handlers == Range(HandlerList)
Children(t) == Arm[t].tasks \o Arm[t].rescue \o Arm[t].always

(* What running a task's own body comes to.  "error" is an early return     *)
(* (vars:, when:, loop:, delegate_to: or become: do not resolve), "failed"  *)
(* a result with a non-zero exit, "spoiled" one that `changed_when:` calls a  *)
(* change, "broken" an `Err` of the dispatch, which reports the connection   *)
(* dead; and "lost" a handler block that ends well although the connection   *)
(* died in it.                                                             *)
Bodies == {"unchanged", "changed", "skipped", "error", "failed", "spoiled", "broken", "lost"}

ASSUME TreeAssumption ==
  /\ NTasks \in Nat /\ MaxItems \in Nat
  /\ Kind \in [Tasks -> {"leaf", "block", "meta"}]
  /\ \A t \in Tasks : \A a \in Arms : Arm[t][a] \in Seq(Tasks)
  /\ \A t \in RunOnce : t \in Tasks /\ Kind[t] = "leaf"
  /\ HandlerList \in Seq({t \in Tasks : Kind[t] = "leaf"})
  /\ Looped \subseteq {t \in Tasks : Kind[t] = "block"}
  /\ Notify \in [Tasks -> SUBSET Handlers]
  /\ May \in [Hosts \X Tasks -> SUBSET Bodies]
  /\ NoTask \notin Tasks

\* `validate_handler` refuses the `notify:` of a handler; those of the children of
\* a handler that is a block it does not look at.
ASSUME HandlerAssumption ==
  /\ Composite \subseteq Handlers \ RunOnce
  /\ \A n \in Handlers \ Composite : Notify[n] = {}
  /\ \A h \in Hosts : \A t \in Composite : {"changed", "spoiled"} \cap May[h, t] = {}
  /\ \A h \in Hosts : \A t \in Tasks : "lost" \in May[h, t] => t \in Composite

\* `collect_subtree_sizes`: a task and everything in the arms of its block.
Size[t \in Tasks] == FoldSeq(LAMBDA c, n : n + Size[c], 1, Children(t))

\* A task stands in one place, before those nested in it and after those before it.
ASSUME PreOrderAssumption ==
  /\ \A t \in Tasks :
       /\ Size[t] \in Nat \ {0} /\ t + Size[t] <= NTasks
       /\ Kind[t] # "block" => Size[t] = 1 /\ Children(t) = <<>>
       /\ \A a \in Arms : \A c \in Range(Arm[t][a]) : t < c /\ c + Size[c] <= t + Size[t]
       /\ \A a \in Arms : \A i, j \in DOMAIN Arm[t][a] :
            i < j => Arm[t][a][i] + Size[Arm[t][a][i]] <= Arm[t][a][j]
       /\ \A c \in Range(Arm[t].tasks), d \in Range(Arm[t].rescue) : c + Size[c] <= d
       /\ \A c \in Range(Arm[t].tasks) \cup Range(Arm[t].rescue), d \in Range(Arm[t].always) :
            c + Size[c] <= d
  /\ \A t, u \in Tasks : t # u => Range(Children(t)) \cap Range(Children(u)) = {}

\* The numbers leave no gap: a task nested in a block is one of its children or nested
\* in one, all of it.
ASSUME GaplessAssumption ==
  \A t \in Tasks :
    /\ \A u \in t + 1 .. t + Size[t] - 1 :
         \E c \in Range(Children(t)) : u \in c .. c + Size[c] - 1
    /\ \A u \in t .. t + Size[t] - 1 : u + Size[u] <= t + Size[t]

VARIABLES
  ctl,        \* where the host's walker stands
  cur,        \* the task it dispatches, or has just finished
  stack,      \* the frames of the blocks it is in, innermost first
  slot,       \* its `slot_counter`
  res,        \* the PerHostTaskResult it returns
  cells,      \* RunOnceCoord::cells, shared: a slot for every task it covers
  pending,    \* ctx.pending_handlers
  failedVar,  \* ctx.ansible_failed_task
  dead,       \* `kill_all` was called on the host's pool
  verdict,    \* history: how the last visit of each task ended
  taken       \* history: the broadcast a non-runner took for a task

walkVars == <<ctl, cur, stack, slot, res, cells, pending, failedVar, dead, verdict, taken>>

NoCell == [task |-> NoTask, body |-> "error"]
NoResult == [out |-> "none", changed |-> FALSE, alive |-> TRUE]

\* `RunOnceCoord::allocate`: a cell for each of the tasks `covered`.
Allocate(covered) == [s \in covered |-> NoCell]

\* The walkers start at slot `first`.  (The code counts the slots of every
\* coord from 0; here a slot keeps the number of its task.)
WalkInit(covered, first) ==
  /\ ctl = [h \in Hosts |-> "idle"]
  /\ cur = [h \in Hosts |-> NoTask]
  /\ stack = [h \in Hosts |-> <<>>]
  /\ slot = [h \in Hosts |-> first]
  /\ res = [h \in Hosts |-> NoResult]
  /\ cells = Allocate(covered)
  /\ pending = [h \in Hosts |-> {}]
  /\ failedVar = [h \in Hosts |-> NoTask]
  /\ dead = [h \in Hosts |-> FALSE]
  /\ verdict = [h \in Hosts |-> [t \in Tasks |-> "none"]]
  /\ taken = [h \in Hosts |-> [t \in Tasks |-> NoCell]]

-----------------------------------------------------------------------------
(* Slots *)

\* A looped block hands its children an empty coord (no cells, sizes of 1).
Shared(st) == IF st = <<>> THEN TRUE ELSE Head(st).coord

\* `RunOnceCoord::subtree_size`.
SizeAt(st, s) == IF Shared(st) /\ s \in DOMAIN cells THEN Size[s] ELSE 1

\* `RunOnceCoord::cell`: the slot of a run_once task exists.
Coordinated(h) == cur[h] \in RunOnce /\ Shared(stack[h]) /\ slot[h] \in DOMAIN cells

\* The end of `dispatch_one_task`: the counter stands at least one past the
\* entry slot, and is pushed to the end of the subtree of the entry slot.
Compensated(st, entry, s) ==
  LET end == entry + SizeAt(st, entry) IN IF s < end THEN end ELSE s

-----------------------------------------------------------------------------
(* Results *)

\* Mutant of Outcome: a failure is passed on under its own name.
OutcomeRaw(t, b) == IF b \in {"unchanged", "changed"} THEN "ok" ELSE b

\* `maybe_ignore_failure`, applied where the body itself failed; the early
\* returns are not covered, and the liveness of the connection is kept.
Outcome(t, b) ==
  CASE b \in {"unchanged", "changed", "lost"} -> "ok"
    [] b = "skipped" -> "skipped"
    [] b = "error" -> "failed"
    [] b \in {"failed", "spoiled", "broken"} -> IF t \in Ignore THEN "ok" ELSE "failed"

BodyResult(t, b) ==
  [out |-> Outcome(t, b), changed |-> b = "changed", alive |-> b \notin {"broken", "lost"}]

\* Mutant of BroadcastNotifies: the runner's register is not consulted.
NotifiesIfOk(t, b) == Outcome(t, b) = "ok"

\* Does the broadcast of run_once result `b` notify the other hosts?  The
\* runner's register decides, and without one the answer is yes.
BroadcastNotifies(t, b) ==
  /\ Outcome(t, b) = "ok"
  /\ t \in Register /\ b # "broken" => b \in {"changed", "spoiled"}

\* A killed pool answers only "agent conn is dead"; what does not need the
\* agent (a false `when:`, an unresolvable template) is not affected.
BodyOn(h, t) == IF dead[h] THEN (May[h, t] \cap {"skipped", "error", "lost"}) \cup {"broken"}
                           ELSE May[h, t]

\* What task `t` may notify on the host it runs on: what it names, if it changed
\* something; of a handler that is a block, what those of its children did that
\* changed something, however the block ends.
Tells(t, b) ==
  IF t \in Composite THEN (IF b \in {"skipped", "error"} THEN {{}} ELSE SUBSET Notify[t])
                     ELSE {IF b = "changed" THEN Notify[t] ELSE {}}

Verdict(r) == IF r.out = "ok" /\ r.changed THEN "changed" ELSE r.out

\* The task the host is at ends with result `r`.
Return(h, r) == /\ ctl' = [ctl EXCEPT ![h] = "return"]
                /\ res' = [res EXCEPT ![h] = r]
                /\ verdict' = [verdict EXCEPT ![h][cur[h]] = Verdict(r)]

-----------------------------------------------------------------------------
(* Leaves: dispatch_one_task around run_task_on_one_host *)

EnqueueNotifies(h, t, fires) ==
  pending' = IF fires THEN [pending EXCEPT ![h] = @ \cup Notify[t]] ELSE pending

\* A task without run_once coordination runs on this host.
RunLeaf(h) ==
  /\ ctl[h] = "call" /\ Kind[cur[h]] = "leaf" /\ ~Coordinated(h)
  /\ \E b \in BodyOn(h, cur[h]) :
       /\ Return(h, BodyResult(cur[h], b))
       /\ \E told \in Tells(cur[h], b) : pending' = [pending EXCEPT ![h] = @ \cup told]
  /\ slot' = [slot EXCEPT ![h] = Compensated(stack[h], @, @ + 1)]
  /\ UNCHANGED <<cur, stack, cells, failedVar, dead, taken>>

\* Mutant of RunOnceRunner: it publishes to where its counter has moved on to.
PublishesLate(h) ==
  /\ ctl[h] = "call" /\ Coordinated(h)
  /\ \E b \in BodyOn(h, cur[h]) :
       /\ Return(h, BodyResult(cur[h], b))
       /\ EnqueueNotifies(h, cur[h], b = "changed")
       /\ cells' = [cells EXCEPT ![slot[h] + 1] = [task |-> cur[h], body |-> b]]
  /\ slot' = [slot EXCEPT ![h] = Compensated(stack[h], @, @ + 1)]
  /\ UNCHANGED <<cur, stack, failedVar, dead, taken>>

\* Mutant of RunOnceRunner: only a success is published.
PublishesSuccess(h) ==
  /\ ctl[h] = "call" /\ Coordinated(h)
  /\ \E b \in BodyOn(h, cur[h]) :
       /\ Return(h, BodyResult(cur[h], b))
       /\ EnqueueNotifies(h, cur[h], b = "changed")
       /\ cells' = IF cells[slot[h]] = NoCell /\ Outcome(cur[h], b) = "ok"
                     THEN [cells EXCEPT ![slot[h]] = [task |-> cur[h], body |-> b]]
                     ELSE cells
  /\ slot' = [slot EXCEPT ![h] = Compensated(stack[h], @, @ + 1)]
  /\ UNCHANGED <<cur, stack, failedVar, dead, taken>>

\* The designated runner runs the run_once task and publishes to the cell of
\* *its* slot; a cell that is set stays as it is.
RunOnceRunner(h) ==
  /\ ctl[h] = "call" /\ Coordinated(h)
  /\ \E b \in BodyOn(h, cur[h]) :
       /\ Return(h, BodyResult(cur[h], b))
       /\ EnqueueNotifies(h, cur[h], b = "changed")
       /\ cells' = IF cells[slot[h]] = NoCell
                     THEN [cells EXCEPT ![slot[h]] = [task |-> cur[h], body |-> b]]
                     ELSE cells
  /\ slot' = [slot EXCEPT ![h] = Compensated(stack[h], @, @ + 1)]
  /\ UNCHANGED <<cur, stack, failedVar, dead, taken>>

\* Every other host waits for the cell of *its* slot and takes over what the
\* runner published: outcome, register and notifications.
RunOnceOther(h) ==
  /\ ctl[h] = "call" /\ Coordinated(h)
  /\ cells[slot[h]] # NoCell
  /\ LET c == cells[slot[h]] IN
       /\ Return(h, [BodyResult(c.task, c.body) EXCEPT !.alive = TRUE])
       /\ EnqueueNotifies(h, cur[h], BroadcastNotifies(c.task, c.body))
       /\ taken' = [taken EXCEPT ![h][cur[h]] = c]
  /\ slot' = [slot EXCEPT ![h] = Compensated(stack[h], @, @ + 1)]
  /\ UNCHANGED <<cur, stack, cells, failedVar, dead>>

-----------------------------------------------------------------------------
(* Blocks: run_block_on_one_host *)

Top(h) == Head(stack[h])
List(f) == Arm[f.block][f.arm]
Replace(h, f) == stack' = [stack EXCEPT ![h] = <<f>> \o Tail(@)]

\* A list starts afresh: no failure yet, and a connection taken to be alive.
StartArm(f, a) == [f EXCEPT !.arm = a, !.next = 1, !.failed = NoTask, !.listAlive = TRUE]

\* `vars:`, `when:` or `loop:` keeps the whole block from being entered.
SkipBlock(h) ==
  /\ ctl[h] = "call" /\ Kind[cur[h]] = "block"
  /\ \E b \in May[h, cur[h]] \cap {"skipped", "error"} :
       /\ b = "skipped" => cur[h] \notin Looped
       /\ Return(h, BodyResult(cur[h], b))
  /\ slot' = [slot EXCEPT ![h] = Compensated(stack[h], @, @ + 1)]
  /\ UNCHANGED <<cur, stack, cells, pending, failedVar, dead, taken>>

EnterBlock(h) ==
  /\ ctl[h] = "call" /\ Kind[cur[h]] = "block"
  /\ \E n \in (IF cur[h] \in Looped THEN 0 .. MaxItems ELSE {1}) :
       stack' = [stack EXCEPT ![h] =
         <<[block |-> cur[h], arm |-> "tasks", next |-> 1, failed |-> NoTask,
            listAlive |-> TRUE, alive |-> TRUE, over |-> FALSE, left |-> n,
            entry |-> slot[h], coord |-> Shared(@) /\ cur[h] \notin Looped,
            saved |-> NoTask]>> \o @]
  /\ slot' = [slot EXCEPT ![h] = @ + 1]
  /\ ctl' = [ctl EXCEPT ![h] = "iterate"]
  /\ UNCHANGED <<cur, res, cells, pending, failedVar, dead, verdict, taken>>

\* The next iteration replays the slots of the block; a looped block asks its
\* `when:` here, and a false or failing one passes over the whole triple.
Iterate(h) ==
  /\ ctl[h] = "iterate" /\ Top(h).left > 0 /\ Top(h).alive
  /\ \E w \in {"run"} \cup (IF Top(h).block \in Looped
                              THEN May[h, Top(h).block] \cap {"skipped", "error"} ELSE {}) :
       IF w = "run"
         THEN /\ Replace(h, [StartArm(Top(h), "tasks") EXCEPT !.left = @ - 1])
              /\ ctl' = [ctl EXCEPT ![h] = "list"]
         ELSE /\ Replace(h, [Top(h) EXCEPT !.left = @ - 1, !.over = @ \/ w = "error"])
              /\ UNCHANGED ctl
  /\ slot' = [slot EXCEPT ![h] = Top(h).entry + 1]
  /\ UNCHANGED <<cur, res, cells, pending, failedVar, dead, verdict, taken>>

\* `run_task_list_on_host`: dispatch the next task of the arm; a meta task
\* inside a block only takes up its slot.
NextInList(h) ==
  /\ ctl[h] = "list" /\ Top(h).next <= Len(List(Top(h)))
  /\ Replace(h, [Top(h) EXCEPT !.next = @ + 1])
  /\ LET t == List(Top(h))[Top(h).next] IN
       IF Kind[t] = "meta"
         THEN /\ slot' = [slot EXCEPT ![h] = @ + SizeAt(stack[h], @)]
              /\ UNCHANGED <<ctl, cur>>
         ELSE /\ ctl' = [ctl EXCEPT ![h] = "call"]
              /\ cur' = [cur EXCEPT ![h] = t]
              /\ UNCHANGED slot
  /\ UNCHANGED <<res, cells, pending, failedVar, dead, verdict, taken>>

EndOfList(h) ==
  /\ ctl[h] \in {"list", "skip"} /\ Top(h).next > Len(List(Top(h)))
  /\ ctl' = [ctl EXCEPT ![h] = "armDone"]
  /\ UNCHANGED <<cur, stack, slot, res, cells, pending, failedVar, dead, verdict, taken>>

\* Mutant of ChildReturns: a dead connection hides the failure it came with.
DeadChildReturns(h) ==
  /\ ctl[h] = "return" /\ stack[h] # <<>>
  /\ LET f == Top(h)
         r == res[h]
         broke == r.out = "failed" \/ ~(f.listAlive /\ r.alive)
     IN /\ Replace(h, [f EXCEPT !.listAlive = @ /\ r.alive,
                                !.alive = @ /\ r.alive,
                                !.failed = IF r.out = "failed" /\ r.alive THEN cur[h] ELSE @])
        /\ ctl' = [ctl EXCEPT ![h] = IF broke THEN "skip" ELSE "list"]
  /\ UNCHANGED <<cur, slot, res, cells, pending, failedVar, dead, verdict, taken>>

\* The result of a child: a failure or a dead connection breaks the list.
ChildReturns(h) ==
  /\ ctl[h] = "return" /\ stack[h] # <<>>
  /\ LET f == Top(h)
         r == res[h]
         broke == r.out = "failed" \/ ~(f.listAlive /\ r.alive)
     IN /\ Replace(h, [f EXCEPT !.listAlive = @ /\ r.alive,
                                !.alive = @ /\ r.alive,
                                !.failed = IF r.out = "failed" THEN cur[h] ELSE @])
        /\ ctl' = [ctl EXCEPT ![h] = IF broke THEN "skip" ELSE "list"]
  /\ UNCHANGED <<cur, slot, res, cells, pending, failedVar, dead, verdict, taken>>

\* Mutant of SkipNext: an early break leaves the counter at the failed task.
SkipFree(h) ==
  /\ ctl[h] = "skip" /\ Top(h).next <= Len(List(Top(h)))
  /\ Replace(h, [Top(h) EXCEPT !.next = @ + 1])
  /\ UNCHANGED <<ctl, cur, slot, res, cells, pending, failedVar, dead, verdict, taken>>

\* After an early break every task of the list that was not visited is stepped
\* over, to stay with the hosts that walk the whole list.
SkipNext(h) ==
  /\ ctl[h] = "skip" /\ Top(h).next <= Len(List(Top(h)))
  /\ Replace(h, [Top(h) EXCEPT !.next = @ + 1])
  /\ slot' = [slot EXCEPT ![h] = @ + SizeAt(stack[h], @)]
  /\ UNCHANGED <<ctl, cur, res, cells, pending, failedVar, dead, verdict, taken>>

\* Mutant of NeedsRescue: the rescue arm follows the tasks unconditionally.
RescuesAlways(f) == f.arm = "tasks" /\ Arm[f.block].rescue # <<>>

NeedsRescue(f) == f.arm = "tasks" /\ f.failed # NoTask /\ Arm[f.block].rescue # <<>>

\* Mutant of Settle: the last arm decides.
SettleLast(f) == [f EXCEPT !.over = f.failed # NoTask]

\* An arm's failure that nothing recovers becomes the failure of the block.
Settle(f) == [f EXCEPT !.over = @ \/ f.failed # NoTask]

\* Mutant of RestoreFailedVar: the variable is cleared.
ClearFailedVar(h) ==
  failedVar' = IF Top(h).arm = "rescue" THEN [failedVar EXCEPT ![h] = NoTask] ELSE failedVar

\* Leaving the rescue arm puts back the outer `ansible_failed_task`.
RestoreFailedVar(h) ==
  failedVar' = IF Top(h).arm = "rescue" THEN [failedVar EXCEPT ![h] = Top(h).saved]
                                        ELSE failedVar

BeginRescue(h) ==
  /\ ctl[h] = "armDone" /\ NeedsRescue(Top(h))
  /\ Replace(h, [StartArm(Top(h), "rescue") EXCEPT !.saved = failedVar[h]])
  /\ failedVar' = [failedVar EXCEPT ![h] = Top(h).failed]
  /\ ctl' = [ctl EXCEPT ![h] = "list"]
  /\ UNCHANGED <<cur, slot, res, cells, pending, dead, verdict, taken>>

BeginAlways(h) ==
  /\ ctl[h] = "armDone" /\ ~NeedsRescue(Top(h))
  /\ Top(h).arm # "always" /\ Arm[Top(h).block].always # <<>>
  /\ Replace(h, StartArm(Settle(Top(h)), "always"))
  /\ RestoreFailedVar(h)
  /\ ctl' = [ctl EXCEPT ![h] = "list"]
  /\ UNCHANGED <<cur, slot, res, cells, pending, dead, verdict, taken>>

EndIteration(h) ==
  /\ ctl[h] = "armDone" /\ ~NeedsRescue(Top(h))
  /\ Top(h).arm = "always" \/ Arm[Top(h).block].always = <<>>
  /\ Replace(h, StartArm(Settle(Top(h)), "tasks"))
  /\ RestoreFailedVar(h)
  /\ ctl' = [ctl EXCEPT ![h] = "iterate"]
  /\ UNCHANGED <<cur, slot, res, cells, pending, dead, verdict, taken>>

\* No iteration left, or no connection to run one on: the block returns.
LeaveBlock(h) ==
  /\ ctl[h] = "iterate" /\ (Top(h).left = 0 \/ ~Top(h).alive)
  /\ LET f == Top(h)
         out == IF f.over /\ f.block \notin Ignore THEN "failed" ELSE "ok"
     IN /\ ctl' = [ctl EXCEPT ![h] = "return"]
        /\ cur' = [cur EXCEPT ![h] = f.block]
        /\ res' = [res EXCEPT ![h] = [out |-> out, changed |-> FALSE, alive |-> f.alive]]
        /\ verdict' = [verdict EXCEPT ![h][f.block] = out]
        /\ stack' = [stack EXCEPT ![h] = Tail(@)]
        /\ slot' = [slot EXCEPT ![h] = Compensated(Tail(stack[h]), f.entry, @)]
  /\ UNCHANGED <<cells, pending, failedVar, dead, taken>>

BlockStep(h) == \/ SkipBlock(h) \/ EnterBlock(h) \/ Iterate(h) \/ NextInList(h)
                \/ ChildReturns(h) \/ SkipNext(h) \/ EndOfList(h) \/ BeginRescue(h)
                \/ BeginAlways(h) \/ EndIteration(h) \/ LeaveBlock(h)

\* One step of the walker of host `h`, where `runner` runs the run_once tasks.
WalkStep(h, runner) ==
  \/ RunLeaf(h)
  \/ h = runner /\ RunOnceRunner(h)
  \/ h # runner /\ RunOnceOther(h)
  \/ BlockStep(h)

-----------------------------------------------------------------------------
(* Properties, checked under the strategies *)

FrameType ==
  [block : Tasks, arm : Arms, next : Nat,
   failed : Tasks \cup {NoTask}, listAlive : BOOLEAN, alive : BOOLEAN,
   over : BOOLEAN, left : 0 .. MaxItems + 1, entry : Nat, coord : BOOLEAN,
   saved : Tasks \cup {NoTask}]

CellType == [task : Tasks \cup {NoTask}, body : Bodies]

\* The types of the walkers and of the state they share.
WalkTypeOK ==
  /\ ctl \in [Hosts -> {"idle", "call", "iterate", "list", "skip", "armDone",
                        "return", "flush", "handler", "done"}]
  /\ cur \in [Hosts -> Tasks \cup {NoTask}]
  /\ stack \in [Hosts -> Seq(FrameType)]
  /\ slot \in [Hosts -> Nat]
  /\ res \in [Hosts -> [out : {"none", "ok", "skipped", "failed"},
                        changed : BOOLEAN, alive : BOOLEAN]]
  /\ DOMAIN cells \subseteq Tasks /\ cells \in [DOMAIN cells -> CellType]
  /\ pending \in [Hosts -> SUBSET Handlers]
  /\ failedVar \in [Hosts -> Tasks \cup {NoTask}]
  /\ dead \in [Hosts -> BOOLEAN]
  /\ verdict \in [Hosts -> [Tasks -> {"none", "ok", "changed", "skipped", "failed"}]]
  /\ taken \in [Hosts -> [Tasks -> CellType]]

\* Whichever way the hosts went through the tree (skips, failures, rescues,
\* dead connections), a host that dispatches a task outside looped blocks
\* stands at the slot the task owns: the counters never drift apart.
SlotAligned ==
  \A h \in Hosts : (ctl[h] = "call" /\ Shared(stack[h])) => slot[h] = cur[h]

\* What a host took over from a run_once cell was published for that very
\* task, by a host that ran it and ended it the same way.
BroadcastFaithful ==
  \A h \in Hosts, t \in Tasks : taken[h][t] # NoCell =>
    /\ taken[h][t].task = t
    /\ \E g \in Hosts : /\ taken[g][t] = NoCell
                        /\ verdict[g][t] = Verdict(BodyResult(t, taken[h][t].body))

\* The declarative meaning of block / rescue / always, from how the children
\* ended on this host.
ArmFails(h, s) == \E c \in Range(s) : verdict[h][c] = "failed"
BlockFails(h, b) ==
  \/ ArmFails(h, Arm[b].always)
  \/ ArmFails(h, Arm[b].tasks) /\ (Arm[b].rescue = <<>> \/ ArmFails(h, Arm[b].rescue))

Unlooped(b) == \A l \in Looped : b \notin l .. l + Size[l] - 1

\* A block that was entered fails exactly if its children say so: a failure
\* in its tasks that the rescue arm did not absorb, or one in always; whatever
\* happened to the connection and however deep the blocks are nested.
BlockOutcome ==
  \A h \in Hosts : \A b \in {t \in Tasks : Kind[t] = "block" /\ Unlooped(t)} :
    (ctl[h] = "return" /\ cur[h] = b /\ \E c \in Range(Children(b)) : verdict[h][c] # "none")
      => (res[h].out = "failed" <=> BlockFails(h, b) /\ b \notin Ignore)

\* No task of a rescue arm runs on a host unless a task of the same block has
\* failed there; and a block never returns without having tried its always
\* arm, not even on a dead connection (an arm that opens with a meta task
\* leaves no trace of that).
ArmDiscipline ==
  \A h \in Hosts : \A b \in {t \in Tasks : Kind[t] = "block" /\ Unlooped(t)} :
    /\ (\E c \in Range(Arm[b].rescue) : verdict[h][c] # "none") => ArmFails(h, Arm[b].tasks)
    /\ (ctl[h] = "return" /\ cur[h] = b /\ Arm[b].always # <<>>
          /\ Kind[Arm[b].always[1]] # "meta" /\ \E c \in Range(Arm[b].tasks) : verdict[h][c] # "none")
       => verdict[h][Arm[b].always[1]] # "none"

\* `ansible_failed_task` names the failed task of the innermost rescue arm the
\* host is in, and nothing when it is in none: the save and restore around
\* nested rescues neither leaks nor loses a value.
Innermost(s, i) == s[i].arm = "rescue" /\ \A j \in 1 .. i - 1 : s[j].arm # "rescue"
FailedVarScoped ==
  \A h \in Hosts :
    /\ (\A i \in DOMAIN stack[h] : stack[h][i].arm # "rescue") => failedVar[h] = NoTask
    /\ \A i \in DOMAIN stack[h] : Innermost(stack[h], i) =>
         /\ failedVar[h] \in Range(Arm[stack[h][i].block].tasks)
         /\ verdict[h][failedVar[h]] = "failed"

\* A failure of one of these need not fail the host: `ignore_errors`, or a
\* rescue arm to go on with, which a composite handler may have.
Excusable(t) == t \in Ignore \cup Composite \/ Arm[t].rescue # <<>>
Excused(v) == \E t \in Tasks : Excusable(t) /\ v[t] # "none"

\* The broadcast of such a run_once task may notify without a change: there is
\* no register to tell, or a failure was ignored.
Untold(t) == t \notin Register \/ t \in Ignore

\* Host `h` saw task `t` change something, or was told so.  Of a task in a looped
\* block `verdict` has the last visit only; of those in a handler, that it ran.
Cause(h, t) == \/ verdict[h][t] = "changed" \/ ~Unlooped(t)
               \/ t \in Composite /\ verdict[h][t] # "none"
               \/ taken[h][t] # NoCell /\ Untold(taken[h][t].task)

\* The handlers notified too late: by the children of a handler, on a host with the
\* verdicts `v`, that stands after them in the order of the flush.
Belated(v) == {HandlerList[i] : i \in {k \in DOMAIN HandlerList : \E j \in DOMAIN HandlerList :
                 /\ k < j /\ HandlerList[j] \in Composite /\ v[HandlerList[j]] # "none"
                 /\ HandlerList[k] \in Notify[HandlerList[j]]}}

\* The run_once protocol of a play: every walker is at the slot its task owns, and
\* what it takes from a slot was published for that task.
RunOnceShared == SlotAligned /\ BroadcastFaithful

\* block / rescue / always mean what they say, on hosts that fail, skip and lose
\* their connection at any depth.
BlocksMeant == BlockOutcome /\ ArmDiscipline /\ FailedVarScoped

-----------------------------------------------------------------------------
(* Notation for the task trees of the model-checked plays.                 *)

Block(t, r, a) == [tasks |-> t, rescue |-> r, always |-> a]
NoArms == Block(<<>>, <<>>, <<>>)

\* `n` tasks, of which the domain of `arms` are blocks.
Tree(n, arms) == [t \in 0 .. n - 1 |-> IF t \in DOMAIN arms THEN arms[t] ELSE NoArms]
Kinds(n, arms, metas) == [t \in 0 .. n - 1 |-> IF t \in DOMAIN arms THEN "block"
                                               ELSE IF t \in metas THEN "meta" ELSE "leaf"]
=============================================================================
