------------------------------ MODULE AsyncJob -------------------------------
(***************************************************************************)
(* `async: N, poll: M`.  On one agent: the job table, and per job a         *)
(* watcher that multiplexes the output of the inner operation, its end and *)
(* the deadline (async_job.rs).  On the controller: walkers that start jobs *)
(* there, poll them while they keep the slot of the connection locked, or  *)
(* fire and forget and ask with `async_status:` later (run_op_body).       *)
(* The inner operation is a command (exec.rs).  Time is two flags: a job's *)
(* agent deadline has `expired`, a poller's own deadline has `lapsed`.     *)
(***************************************************************************)
EXTENDS Naturals

CONSTANTS
  Walkers,   \* the hosts' walkers that use this agent, by delegation all but one
  Nobody,    \* a free slot lock
  NoEntry,   \* no such job in the table
  MaxJobs,   \* bound: start operations in a run
  MaxChunks, \* bound: chunks of output of one command
  Capacity   \* of the channel between a job and its watcher

ASSUME AsyncAssumption ==
  /\ Nobody \notin Walkers
  /\ MaxJobs \in Nat /\ MaxChunks \in Nat
  /\ Capacity \in Nat \ {0}

Ids == 1..MaxJobs

Entries == [finished : BOOLEAN,
            rc : {"none", "zero", "nonzero"},
            error : {"none", "timeout", "module", "internal"},
            out : 0..MaxChunks]  \* chunks of output stashed

ASSUME NoEntryAssumption == NoEntry \notin Entries

VARIABLES
  next,    \* next_seq: the run's sequence counter, as far as it numbers jobs
  seq,     \* the number a walker has drawn
  pc,      \* where a walker stands
  guard,   \* who holds the slot of the connection
  lapsed,  \* pollers past their deadline
  reply,   \* the last status a poller was given
  agent,   \* "up" | "gone"
  entry,   \* the job table
  watcher, \* job -> "none" | "select" | "over"
  queue,   \* job -> chunks in its channel
  sent,    \* job -> chunks its command has sent (a bound, and a history)
  command, \* what the dispatch waits for: "none" | "running" | how it ended
  expired, \* jobs past their deadline
  owner,   \* history: job -> the walker that started it
  told,    \* history: jobs that a walker has been told are finished
  jids     \* walker -> the job ids it has registered

controller == <<next, seq, pc, guard, lapsed, reply, jids>>
job == <<entry, watcher, queue, sent, command, expired>>
history == <<owner, told>>
vars == <<controller, agent, job, history>>

Fresh == [finished |-> FALSE, rc |-> "none", error |-> "none", out |-> 0]

\* JobTable::new: no job on a new agent.
AllJobs(x) == [j \in Ids |-> x]

Init ==
  /\ next = 1
  /\ seq = [w \in Walkers |-> 0]
  /\ pc = [w \in Walkers |-> "idle"]
  /\ guard = Nobody
  /\ lapsed = {}
  /\ reply = [w \in Walkers |-> NoEntry]
  /\ agent = "up"
  /\ entry = AllJobs(NoEntry)
  /\ watcher = AllJobs("none")
  /\ queue = AllJobs(0)
  /\ sent = AllJobs(0)
  /\ command = AllJobs("none")
  /\ expired = {}
  /\ owner = AllJobs(Nobody)
  /\ told = {}
  /\ jids = [w \in Walkers |-> {}]

-----------------------------------------------------------------------------
(* The controller: run_op_body *)

Goto(w, l) == pc' = [pc EXCEPT ![w] = l]

\* The task is over; the guard, if it has one, is dropped.
Ends(w) ==
  /\ Goto(w, "idle")
  /\ guard' = IF guard = w THEN Nobody ELSE guard
  /\ seq' = [seq EXCEPT ![w] = 0]
  /\ reply' = [reply EXCEPT ![w] = NoEntry]
  /\ lapsed' = lapsed \ {w}

\* Mutant of Draw: the counter is read and not advanced.
DrawLoads(w) ==
  /\ pc[w] = "idle" /\ next \in Ids
  /\ seq' = [seq EXCEPT ![w] = next]
  /\ Goto(w, "lock")
  /\ UNCHANGED <<next, guard, lapsed, reply, jids, agent, job, history>>

\* A task with `async:` takes its number before it has the connection.
Draw(w) ==
  /\ pc[w] = "idle" /\ next \in Ids
  /\ seq' = [seq EXCEPT ![w] = next]
  /\ next' = next + 1
  /\ Goto(w, "lock")
  /\ UNCHANGED <<guard, lapsed, reply, jids, agent, job, history>>

\* OpAsyncStart on the agent: an entry under the dispatch's number, and a
\* watcher, or in check mode an entry that is finished from the start.
RunStart(w, j) ==
  /\ \/ /\ entry' = [entry EXCEPT ![j] = Fresh]
        /\ watcher' = [watcher EXCEPT ![j] = "select"]
     \/ /\ entry' = [entry EXCEPT ![j] = [Fresh EXCEPT !.finished = TRUE, !.rc = "zero"]]
        /\ watcher' = [watcher EXCEPT ![j] = "over"]
  /\ owner' = [owner EXCEPT ![j] = w]
  /\ UNCHANGED <<queue, sent, command, expired, told>>

Start(w) ==
  /\ pc[w] = "lock" /\ guard = Nobody /\ agent = "up"
  /\ guard' = w
  /\ RunStart(w, seq[w])
  /\ Goto(w, "started")
  /\ UNCHANGED <<next, seq, lapsed, reply, jids, agent>>

\* The start is acknowledged; `poll:` is rendered only now.
FireAndForget(w) ==
  /\ pc[w] = "started" /\ agent = "up"
  /\ jids' = [jids EXCEPT ![w] = @ \cup {seq[w]}]
  /\ Ends(w)
  /\ UNCHANGED <<next, agent, job, history>>

BadPoll(w) ==
  /\ pc[w] = "started" /\ agent = "up"
  /\ Ends(w)
  /\ UNCHANGED <<next, jids, agent, job, history>>

BeginPolling(w) ==
  /\ pc[w] = "started" /\ agent = "up"
  /\ lapsed' = lapsed \ {w}
  /\ Goto(w, "poll")
  /\ UNCHANGED <<next, seq, guard, reply, jids, agent, job, history>>

\* OpAsyncStatus on the agent: one look at the entry.
RunStatus(j) == told' = IF entry[j].finished THEN told \cup {j} ELSE told

Poll(w) ==
  /\ pc[w] = "poll" /\ agent = "up"
  /\ reply' = [reply EXCEPT ![w] = entry[seq[w]]]
  /\ RunStatus(seq[w])
  /\ Goto(w, "judge")
  /\ UNCHANGED <<next, seq, guard, lapsed, jids, agent, job, owner>>

\* Mutant of Judge: only an exit code ends the polling.
JudgeByExitCode(w) ==
  /\ pc[w] = "judge"
  /\ IF reply[w].rc # "none" THEN Ends(w)
     ELSE Goto(w, "poll") /\ UNCHANGED <<guard, seq, reply, lapsed>>
  /\ UNCHANGED <<next, jids, agent, job, history>>

\* The status operation exits with 0 whatever became of the job.
Judge(w) ==
  /\ pc[w] = "judge"
  /\ IF reply[w].finished \/ w \in lapsed THEN Ends(w)
     ELSE Goto(w, "poll") /\ UNCHANGED <<guard, seq, reply, lapsed>>
  /\ UNCHANGED <<next, jids, agent, job, history>>

\* The controller's deadline starts after the agent's and is no shorter.
Lapse(w) ==
  /\ pc[w] \in {"poll", "judge"} /\ w \notin lapsed
  /\ seq[w] \in expired
  /\ lapsed' = lapsed \cup {w}
  /\ UNCHANGED <<next, seq, pc, guard, reply, jids, agent, job, history>>

\* `async_status: jid:` with a registered id.
AsksStatus(w) ==
  /\ pc[w] = "idle" /\ guard = Nobody /\ agent = "up"
  /\ \E j \in jids[w] : RunStatus(j)
  /\ UNCHANGED <<controller, agent, job, owner>>

\* A broken exchange, or a slot that is found dead.
Broken(w) ==
  /\ agent = "gone"
  /\ pc[w] \in {"started", "poll"} \/ (pc[w] = "lock" /\ guard = Nobody)
  /\ Ends(w)
  /\ UNCHANGED <<next, jids, agent, job, history>>

-----------------------------------------------------------------------------
(* The agent: the watcher of a job, one action per arm of its select *)

Watches(j) == watcher[j] = "select"

\* The inner dispatch is first polled: it starts the command.
Launch(j) ==
  /\ Watches(j) /\ command[j] = "none"
  /\ command' = [command EXCEPT ![j] = "running"]
  /\ UNCHANGED <<controller, agent, entry, watcher, queue, sent, expired, history>>

\* Mutant of Stash: the chunk stays in the channel.
StashPeeks(j) ==
  /\ Watches(j) /\ queue[j] > 0
  /\ entry' = [entry EXCEPT ![j].out = @ + 1]
  /\ UNCHANGED <<controller, agent, watcher, queue, sent, command, expired, history>>

\* First arm: rx.recv().
Stash(j) ==
  /\ Watches(j) /\ queue[j] > 0
  /\ entry' = [entry EXCEPT ![j].out = @ + 1]
  /\ queue' = [queue EXCEPT ![j] = @ - 1]
  /\ UNCHANGED <<controller, agent, watcher, sent, command, expired, history>>

\* Second arm, with an empty channel: the dispatch sends and stays pending.
\* (Past the deadline the third arm follows in the same poll, and what was
\* sent is lost: TimesOut.)
Sends(j) ==
  /\ Watches(j) /\ queue[j] = 0 /\ command[j] # "none" /\ j \notin expired
  /\ \E k \in 1..Capacity :
       /\ sent[j] + k <= MaxChunks
       /\ sent' = [sent EXCEPT ![j] = @ + k]
       /\ queue' = [queue EXCEPT ![j] = k]
  /\ UNCHANGED <<controller, agent, entry, watcher, command, expired, history>>

\* Mutant of Terminal: a TaskError is not recorded.
TerminalForgets(j, e) ==
  IF command[j] \in {"none", "killed"} THEN e ELSE [e EXCEPT !.rc = command[j]]

\* What the dispatch ends with: the exit code, or a TaskError of a command that
\* did not start or was killed at its own timeout.
Terminal(j, e) ==
  IF command[j] \in {"none", "killed"} THEN [e EXCEPT !.error = "module"]
  ELSE [e EXCEPT !.rc = command[j]]

\* The job is closed, with what was still in the channel.
Finish(j, k) == [entry[j] EXCEPT !.finished = TRUE, !.out = entry[j].out + k]

\* Mutant of Returns: the channel is not drained before the job is closed.
ReturnsUndrained(j) ==
  /\ Watches(j) /\ queue[j] = 0 /\ command[j] # "running"
  /\ \E k \in 0..(Capacity - 1) :
       /\ sent[j] + k <= MaxChunks
       /\ sent' = [sent EXCEPT ![j] = @ + k]
       /\ entry' = [entry EXCEPT ![j] = Terminal(j, Finish(j, 0))]
  /\ watcher' = [watcher EXCEPT ![j] = "over"]
  /\ command' = [command EXCEPT ![j] = "none"]
  /\ UNCHANGED <<controller, agent, queue, expired, history>>

\* Second arm, ready: the last chunks and the terminal message are sent and
\* the dispatch returns in one poll; the channel is drained.
Returns(j) ==
  /\ Watches(j) /\ queue[j] = 0 /\ command[j] # "running"
  /\ \E k \in 0..(Capacity - 1) :
       /\ sent[j] + k <= MaxChunks
       /\ command[j] = "none" => k = 0
       /\ sent' = [sent EXCEPT ![j] = @ + k]
       /\ entry' = [entry EXCEPT ![j] = Terminal(j, Finish(j, k))]
  /\ watcher' = [watcher EXCEPT ![j] = "over"]
  /\ command' = [command EXCEPT ![j] = "none"]
  /\ UNCHANGED <<controller, agent, queue, expired, history>>

\* Second arm, ready without a terminal message: the module broke its contract.
ReturnsSilently(j) ==
  /\ Watches(j) /\ queue[j] = 0 /\ command[j] # "running"
  /\ entry' = [entry EXCEPT ![j] = [Finish(j, 0) EXCEPT !.error = "internal"]]
  /\ watcher' = [watcher EXCEPT ![j] = "over"]
  /\ command' = [command EXCEPT ![j] = "none"]
  /\ UNCHANGED <<controller, agent, queue, sent, expired, history>>

Expire(j) ==
  /\ Watches(j) /\ j \notin expired
  /\ expired' = expired \cup {j}
  /\ UNCHANGED <<controller, agent, entry, watcher, queue, sent, command, history>>

\* Mutant of TimesOut: the error is recorded and the loop goes on.
TimesOutAndGoesOn(j) ==
  /\ Watches(j) /\ queue[j] = 0 /\ j \in expired /\ command[j] # "none"
  /\ entry' = [entry EXCEPT ![j] = [Finish(j, 0) EXCEPT !.error = "timeout"]]
  /\ UNCHANGED <<controller, agent, watcher, queue, sent, command, expired, history>>

\* Third arm: the dispatch is dropped, the command is not killed.
TimesOut(j) ==
  /\ Watches(j) /\ queue[j] = 0 /\ j \in expired /\ command[j] # "none"
  /\ entry' = [entry EXCEPT ![j] = [Finish(j, 0) EXCEPT !.error = "timeout"]]
  /\ watcher' = [watcher EXCEPT ![j] = "over"]
  /\ command' = [command EXCEPT ![j] = "none"]
  /\ UNCHANGED <<controller, agent, queue, sent, expired, history>>

\* A command that outlives its watcher is no longer followed.
CommandExits(j) ==
  /\ Watches(j) /\ command[j] = "running"
  /\ \E s \in {"zero", "nonzero", "killed"} : command' = [command EXCEPT ![j] = s]
  /\ UNCHANGED <<controller, agent, entry, watcher, queue, sent, expired, history>>

\* The connection breaks, `kill_all` drops it, or the run says Bye: the agent
\* exits, and its jobs are gone with its memory.
AgentGoes ==
  /\ agent = "up"
  /\ agent' = "gone"
  /\ entry' = AllJobs(NoEntry)
  /\ watcher' = AllJobs("none")
  /\ queue' = AllJobs(0)
  /\ sent' = AllJobs(0)
  /\ command' = AllJobs("none")
  /\ expired' = {}
  /\ UNCHANGED <<controller, history>>

-----------------------------------------------------------------------------

WalkerStep(w) ==
  \/ Start(w) \/ FireAndForget(w) \/ BadPoll(w) \/ BeginPolling(w)
  \/ Poll(w) \/ Judge(w) \/ Broken(w)

WatcherStep(j) ==
  Launch(j) \/ Stash(j) \/ Sends(j) \/ Returns(j) \/ ReturnsSilently(j) \/ TimesOut(j)

Next ==
  \/ \E w \in Walkers : Draw(w) \/ WalkerStep(w) \/ Lapse(w) \/ AsksStatus(w)
  \/ \E j \in Ids : WatcherStep(j) \/ Expire(j) \/ CommandExits(j)
  \/ AgentGoes

SafeSpec == Init /\ [][Next]_vars

\* tokio polls what is ready and time passes; a command need not end.
Spec ==
  /\ SafeSpec
  /\ \A w \in Walkers : WF_vars(Poll(w) \/ Judge(w) \/ Broken(w))
  /\ \A j \in Ids : WF_vars(WatcherStep(j)) /\ WF_vars(Expire(j))

-----------------------------------------------------------------------------
(* Properties *)

\* The types of the controller's and the agent's state.
TypeOK ==
  /\ next \in 1..(MaxJobs + 1)
  /\ seq \in [Walkers -> 0..MaxJobs]
  /\ pc \in [Walkers -> {"idle", "lock", "started", "poll", "judge"}]
  /\ guard \in Walkers \cup {Nobody}
  /\ lapsed \subseteq Walkers
  /\ reply \in [Walkers -> Entries \cup {NoEntry}]
  /\ agent \in {"up", "gone"}
  /\ entry \in [Ids -> Entries \cup {NoEntry}]
  /\ watcher \in [Ids -> {"none", "select", "over"}]
  /\ queue \in [Ids -> 0..Capacity]
  /\ sent \in [Ids -> 0..MaxChunks]
  /\ command \in [Ids -> {"none", "running", "zero", "nonzero", "killed"}]
  /\ expired \subseteq Ids
  /\ owner \in [Ids -> Walkers \cup {Nobody}]
  /\ told \subseteq Ids
  /\ jids \in [Walkers -> SUBSET Ids]

Finished(e) == e # NoEntry /\ e.finished

\* A status that says finished is the last word on the job: no chunk, exit
\* code or timeout is recorded after anybody may have seen it.
AnswersFinal == [][agent' = "up" => \A j \in told : entry'[j] = entry[j]]_vars

\* Exactly one of an exit code and an error, never both and never neither,
\* however the deadline races the end of the command.
OneVerdict ==
  \A j \in Ids : Finished(entry[j]) =>
    (entry[j].rc = "none") # (entry[j].error = "none")

\* A job that was not timed out has all its output, the chunks included that
\* were still in the channel when it ended.
FullOutput ==
  \A j \in Ids : (Finished(entry[j]) /\ entry[j].error # "timeout") => entry[j].out = sent[j]

\* A job id a walker has registered names the job it started, although other
\* walkers start jobs on the same agent.
OwnJob == \A w \in Walkers : \A j \in jids[w] : owner[j] = w

\* A poller comes back, be it with an unfinished job: it does not keep the
\* connection from the other walkers forever.
PollerReturns == \A w \in Walkers : pc[w] = "poll" ~> pc[w] = "idle"

\* What the table says of a job is what became of it, and it says so to the walker
\* that started it.
JobsTrue == TypeOK /\ OneVerdict /\ FullOutput /\ OwnJob
=============================================================================
