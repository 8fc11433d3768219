------------------------------ MODULE AgentLink ------------------------------
(***************************************************************************)
(* One agent connection, end to end: the controller opens it, greets,       *)
(* dispatches an operation and reads frames until its answer                *)
(* (`spawn_agent_channel`, `run_one_task_op`); the agent's loop takes one   *)
(* dispatch at a time (agent/src/lib.rs), a command's output is pumped      *)
(* while it runs (modules/exec.rs), and one task writes all frames          *)
(* (writer.rs).  Either process, or the network between them, may go.       *)
(***************************************************************************)
EXTENDS Naturals, Sequences

CONSTANTS
  Outputs,   \* what a command may print: functions from Streams to Nat
  ChanCap,   \* bound: frames in the writer's channel
  WireCap,   \* bound: frames under way in one direction
  PipeCap,   \* bound: chunks in a command's output pipe
  Sizes      \* "fits", and "huge" for answers above MAX_FRAME_LEN

Streams == {"stdout", "stderr"}

ASSUME LinkAssumption ==
  /\ Outputs \subseteq [Streams -> Nat] /\ Sizes \subseteq {"fits", "huge"}
  /\ {ChanCap, WireCap, PipeCap} \subseteq Nat \ {0}

VARIABLES
  ctl,    \* "none" | "greet" | "probe" | "idle" | "await" | "answered" | "over"
  seq,    \* the number of the last dispatch
  got,    \* stream -> chunks captured for it
  answer, \* how the exchange ended: "none" | "ok" | "failed" | "lost" | "unopened"
  wire,   \* "up" | "lost"
  down,   \* frames on their way to the agent
  up,     \* frames on their way to the controller
  agent,  \* "none" | "hello" | "read" | "run" | "drain" | "exited"
  chan,   \* frames queued for the writer task
  writer, \* "up" | "gone"
  job     \* the operation: its number and, for a command, its process

linkVars == <<ctl, seq, got, answer, wire, down, up, agent, chan, writer, job>>
ctlVars == <<ctl, seq, got, answer>>

Nothing == [s \in Streams |-> 0]
\* `left`, `piped`: chunks the command has still to write, and has in its
\* pipes; `open`: somebody holds the write ends; `timed`: it has a timeout.
NoJob == [seq |-> 0, left |-> Nothing, piped |-> Nothing, wrote |-> Nothing,
          exit |-> "none", open |-> FALSE, timed |-> FALSE]

Frame(t, n) == [t |-> t, seq |-> n, size |-> "fits"]

LinkInit ==
  /\ ctl = "none" /\ seq = 0 /\ got = Nothing /\ answer = "none"
  /\ wire = "up" /\ down = <<>> /\ up = <<>>
  /\ agent = "none" /\ chan = <<>> /\ writer = "up" /\ job = NoJob

-----------------------------------------------------------------------------
(* The agent *)

\* Mutant of Emit: the channel has no bound.
EmitUnbounded(f) == IF writer = "gone" THEN UNCHANGED chan ELSE chan' = Append(chan, f)

\* Mutant of Emit: a frame waits for a writer that is gone.
EmitInsists(f) == writer = "up" /\ Len(chan) < ChanCap /\ chan' = Append(chan, f)

\* `Context::emit`: waits for room in the channel, and drops the frame when the
\* writer is gone.
Emit(f) == IF writer = "gone" THEN UNCHANGED chan
           ELSE Len(chan) < ChanCap /\ chan' = Append(chan, f)

\* Greeting.
AgentHello ==
  /\ agent = "hello" /\ Emit(Frame("hello", 0))
  /\ agent' = "read"
  /\ UNCHANGED <<ctlVars, wire, down, up, writer, job>>

\* A dispatch is a module that answers at once, or a command.
AgentReads ==
  /\ agent = "read" /\ down # <<>> /\ wire = "up"
  /\ down' = Tail(down)
  /\ \/ /\ Head(down).t = "ping" /\ Emit(Frame("pong", 0))
        /\ UNCHANGED <<agent, job>>
     \/ /\ Head(down).t = "bye"
        /\ agent' = "drain" /\ UNCHANGED <<chan, job>>
     \/ /\ Head(down).t = "dispatch"
        /\ agent' = "run" /\ UNCHANGED chan
        /\ \E o \in Outputs, t \in BOOLEAN :
             job' = [NoJob EXCEPT !.seq = Head(down).seq, !.left = o, !.open = TRUE, !.timed = t]
  /\ UNCHANGED <<ctlVars, wire, up, writer>>

\* The controller has closed, or the connection has.
AgentEof ==
  /\ agent = "read" /\ (wire = "lost" \/ (ctl = "over" /\ down = <<>>))
  /\ agent' = "drain"
  /\ UNCHANGED <<ctlVars, wire, down, up, chan, writer, job>>

\* The answer of a module, or of a command that cannot be spawned.
Answers ==
  /\ agent = "run" /\ job.exit = "none" /\ job.wrote = Nothing
  /\ \E t \in {"ok", "failed", "error"}, z \in Sizes :
       Emit([Frame(t, job.seq) EXCEPT !.size = z])
  /\ agent' = "read" /\ job' = [job EXCEPT !.open = FALSE, !.left = Nothing, !.timed = FALSE]
  /\ UNCHANGED <<ctlVars, wire, down, up, writer>>

\* The command, or what it left running, writes.
Writes(s) ==
  /\ agent = "run" /\ job.open /\ job.left[s] > 0 /\ job.piped[s] < PipeCap
  /\ job' = [job EXCEPT !.left[s] = @ - 1, !.piped[s] = @ + 1, !.wrote[s] = @ + 1]
  /\ UNCHANGED <<ctlVars, wire, down, up, agent, chan, writer>>

\* It ends when it has written what it had to, or when `wait_with_timeout`
\* kills it.
ChildEnds ==
  /\ agent = "run" /\ job.exit = "none"
  /\ \/ /\ job.left = Nothing
        /\ \E c \in {"ok", "failed"} : job' = [job EXCEPT !.exit = c]
     \/ job.timed /\ job' = [job EXCEPT !.exit = "error"]
  /\ UNCHANGED <<ctlVars, wire, down, up, agent, chan, writer>>

\* The last holder of the write ends closes them.
PipesClose ==
  /\ agent = "run" /\ job.exit # "none" /\ job.open
  /\ job' = [job EXCEPT !.open = FALSE]
  /\ UNCHANGED <<ctlVars, wire, down, up, agent, chan, writer>>

\* Mutant of MayPump: output is read once the command has ended.
MayPumpLate(s) == job.piped[s] > 0 /\ job.exit # "none"

MayPump(s) == job.piped[s] > 0

\* `pump`.
Pump(s) ==
  /\ agent = "run" /\ MayPump(s)
  /\ Emit(Frame(s, job.seq))
  /\ job' = [job EXCEPT !.piped[s] = @ - 1]
  /\ UNCHANGED <<ctlVars, wire, down, up, agent, writer>>

\* Mutant of Joined: the answer goes out when the command has ended.
JoinedExit == job.exit # "none"

\* `join!` of the wait and both pumps.
Joined == job.exit # "none" /\ ~job.open /\ job.piped = Nothing

\* Mutant of Finishes: a command that timed out is answered twice.
FinishesTwice ==
  /\ agent = "run" /\ Joined
  /\ Emit(Frame(job.exit, job.seq))
  /\ IF job.exit = "error" THEN job' = [job EXCEPT !.exit = "failed"] /\ UNCHANGED agent
                           ELSE agent' = "read" /\ UNCHANGED job
  /\ UNCHANGED <<ctlVars, wire, down, up, writer>>

Finishes ==
  /\ agent = "run" /\ Joined
  /\ Emit(Frame(job.exit, job.seq))
  /\ agent' = "read"
  /\ UNCHANGED <<ctlVars, wire, down, up, writer, job>>

\* The writer task: a frame at a time, until one cannot be written.
WriterSends ==
  /\ writer = "up" /\ chan # <<>>
  /\ IF wire = "lost" \/ ctl = "over" \/ Head(chan).size = "huge"
       THEN writer' = "gone" /\ chan' = <<>> /\ UNCHANGED up
       ELSE /\ Len(up) < WireCap
            /\ up' = Append(up, Head(chan)) /\ chan' = Tail(chan)
            /\ UNCHANGED writer
  /\ UNCHANGED <<ctlVars, wire, down, agent, job>>

\* The loop has ended; the process waits for its writer.
AgentExits ==
  /\ agent = "drain" /\ (chan = <<>> \/ writer = "gone")
  /\ agent' = "exited"
  /\ UNCHANGED <<ctlVars, wire, down, up, chan, writer, job>>

-----------------------------------------------------------------------------
(* The controller *)

\* What is under way arrives before the end of the stream does.
AtEof == wire = "lost" \/ (agent = "exited" /\ up = <<>>)
CanRead == wire = "up" /\ up # <<>>

\* What is written to a connection that is gone is gone too.
Ship(f) == IF wire = "lost" \/ agent = "exited" THEN UNCHANGED down
           ELSE Len(down) < WireCap /\ down' = Append(down, f)

EndsAs(how) == ctl' = "answered" /\ answer' = how

\* A slot without an agent gets one.
Connect ==
  /\ ctl = "none" /\ ctl' = "greet"
  /\ agent' = "hello" /\ wire' = "up" /\ down' = <<>> /\ up' = <<>>
  /\ chan' = <<>> /\ writer' = "up" /\ job' = NoJob
  /\ UNCHANGED <<seq, got, answer>>

\* No agent could be started, or it is gone before its Hello: the slot stays
\* empty.
NoHello ==
  /\ ctl = "greet" /\ AtEof /\ EndsAs("unopened")
  /\ UNCHANGED <<seq, got, wire, down, up, agent, chan, writer, job>>

\* Hello, and the clock probe behind it.
ReadHello ==
  /\ ctl = "greet" /\ CanRead /\ ctl' = "probe"
  /\ up' = Tail(up) /\ Ship(Frame("ping", 0))
  /\ UNCHANGED <<seq, got, answer, wire, agent, chan, writer, job>>

\* Best effort: without an answer the connection is used all the same.
ReadPong ==
  /\ ctl = "probe" /\ (CanRead \/ AtEof) /\ ctl' = "idle"
  /\ up' = IF CanRead THEN Tail(up) ELSE up
  /\ UNCHANGED <<seq, got, answer, wire, down, agent, chan, writer, job>>

Dispatch ==
  /\ ctl = "idle" /\ ctl' = "await"
  /\ seq' = seq + 1 /\ got' = Nothing
  /\ Ship(Frame("dispatch", seq + 1))
  /\ UNCHANGED <<answer, wire, up, agent, chan, writer, job>>

\* The frame is too large, or the stream is known to be gone.
DispatchFails ==
  /\ ctl = "idle" /\ EndsAs("lost")
  /\ seq' = seq + 1 /\ got' = Nothing
  /\ UNCHANGED << wire, down, up, agent, chan, writer, job>>

Expected(f) == f.t \in Streams \cup {"ok", "failed", "error"} /\ f.seq = seq

\* The loop of `run_one_task_op`.
Receive ==
  /\ ctl = "await" /\ CanRead /\ up' = Tail(up)
  /\ LET f == Head(up) IN
       IF ~Expected(f) \/ f.t = "error" THEN EndsAs("lost") /\ UNCHANGED got
       ELSE IF f.t \in Streams
         THEN got' = [got EXCEPT ![f.t] = @ + 1] /\ UNCHANGED <<ctl, answer>>
         ELSE EndsAs(f.t) /\ UNCHANGED got
  /\ UNCHANGED <<seq, wire, down, agent, chan, writer, job>>

Interrupted ==
  /\ ctl = "await" /\ AtEof /\ EndsAs("lost")
  /\ UNCHANGED <<seq, got, wire, down, up, agent, chan, writer, job>>

\* `run` parts with its agents: Bye, and the connection is dropped.
Goodbye ==
  /\ ctl \in {"none", "idle"} /\ ctl' = "over"
  /\ IF ctl = "idle" THEN Ship(Frame("bye", 0)) ELSE UNCHANGED down
  /\ UNCHANGED <<seq, got, answer, wire, up, agent, chan, writer, job>>

-----------------------------------------------------------------------------
(* What may happen to a connection *)

WireLost ==
  /\ wire = "up" /\ ctl # "none" /\ wire' = "lost"
  /\ down' = <<>> /\ up' = <<>>
  /\ UNCHANGED <<ctlVars, agent, chan, writer, job>>

AgentDies ==
  /\ agent \in {"hello", "read", "run"} /\ agent' = "exited"
  /\ chan' = <<>> /\ writer' = "gone" /\ down' = <<>>
  /\ UNCHANGED <<ctlVars, wire, up, job>>

ControllerDies ==
  /\ ctl \in {"probe", "idle", "await"} /\ ctl' = "over"
  /\ UNCHANGED <<seq, got, answer, wire, down, up, agent, chan, writer, job>>

AgentSteps ==
  \/ AgentHello \/ AgentReads \/ AgentEof \/ Answers \/ ChildEnds \/ PipesClose
  \/ Finishes \/ WriterSends \/ AgentExits
  \/ \E s \in Streams : Writes(s) \/ Pump(s)
ControllerReads == NoHello \/ ReadHello \/ ReadPong \/ Receive \/ Interrupted
Faults == WireLost \/ AgentDies \/ ControllerDies

-----------------------------------------------------------------------------
(* Properties *)

\* A controller that is about to dispatch, on a connection that still stands,
\* finds it silent: nothing of an earlier exchange is under way, queued or
\* being produced, whatever way that exchange ended (orchestrator.rs:8200).
StreamClean ==
  (ctl = "idle" /\ wire = "up" /\ agent # "exited") =>
    up = <<>> /\ down = <<>> /\ chan = <<>> /\ agent = "read"

\* An answer to a command comes with all the command has written.
AnswerWhole == (ctl = "answered" /\ answer \in {"ok", "failed"}) => got = job.wrote

\* A dispatch ends: with an answer, or with the end of the stream.
ExchangeEnds == ctl = "await" ~> ctl # "await"

\* No agent outlives its controller.
AgentLeaves == (ctl = "over" /\ agent # "none") ~> agent = "exited"
=============================================================================
