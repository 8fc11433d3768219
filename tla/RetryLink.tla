------------------------------ MODULE RetryLink ------------------------------
(***************************************************************************)
(* The retry loop over a connection: each attempt of `run_body_with_retries` *)
(* is an exchange with the agent the slot holds, and what that exchange came *)
(* to is the result of the attempt (`run_op_body`).                         *)
(***************************************************************************)
EXTENDS RetryLoop, AgentLink

CONSTANT Linked  \* the tasks whose attempts are spelled out; `Body` stands for the others'

ASSUME LinkedAssumption == Linked \subseteq TaskShapes

linkedVars == <<vars, linkVars>>

LinkedInit == Init /\ LinkInit

\* `resolve_target!`: the slot gets its agent ahead of the first attempt.
Resolve == pc = "body" /\ attempt = 0 /\ Connect /\ UNCHANGED vars

\* There is none: the task fails and its body is never run.
Unresolved ==
  /\ ctl = "answered" /\ answer = "unopened" /\ Finish(Failed(NoRegister))
  /\ aborted' = TRUE /\ ctl' = "none" /\ answer' = "none"
  /\ UNCHANGED <<task, conn, attempt, log, seq, got, wire, down, up, agent, chan, writer, job>>

\* The op has rendered: the attempt goes to the agent in the slot.
AttemptGoes == pc = "body" /\ (Dispatch \/ DispatchFails) /\ UNCHANGED vars

ResultKind == CASE answer = "ok" -> "ok" [] answer = "failed" -> "failed" [] OTHER -> "lost"

\* The attempt has come to its end; a connection that broke stays in the slot.
AttemptEnds ==
  /\ ctl = "answered" /\ answer # "unopened" /\ Body
  /\ result'.kind = ResultKind /\ (result'.kind = "failed" => result'.reg # NoRegister)
  /\ conn' = IF answer = "lost" /\ (wire = "lost" \/ agent = "exited") THEN "down" ELSE conn
  /\ ctl' = "idle" /\ answer' = "none"
  /\ got' = Nothing /\ job' = IF agent = "run" THEN job ELSE NoJob
  /\ UNCHANGED <<seq, wire, down, up, agent, chan, writer>>

\* The op does not render: nothing is dispatched.
Unrendered ==
  /\ ctl = "idle" /\ Body /\ result' = Failed(NoRegister)
  /\ UNCHANGED linkVars

LinkSteps == (AgentSteps \/ ControllerReads) /\ UNCHANGED vars
LoopSteps == /\ ctl = "idle"
             /\ Judge \/ Until \/ UntilErrors \/ Sleep \/ BadClause
             /\ UNCHANGED linkVars
Parting == pc = "done" /\ Goodbye /\ UNCHANGED vars

Stepping == Resolve \/ Unresolved \/ AttemptGoes \/ AttemptEnds \/ Unrendered \/ LoopSteps \/ Parting

LinkedNext == \/ task \in Linked /\ (Stepping \/ LinkSteps \/ (Faults /\ UNCHANGED vars))
              \/ task \notin Linked /\ Next /\ UNCHANGED linkVars

\* Both processes go on, a command ends and what it left running closes its
\* output, and a lost connection is noticed.
LinkedFairness == /\ WF_linkedVars(task \in Linked /\ Stepping)
                  /\ WF_linkedVars(ControllerReads /\ UNCHANGED vars)
                  /\ WF_linkedVars(AgentSteps /\ UNCHANGED vars)

LinkedSpec == LinkedInit /\ [][LinkedNext]_linkedVars /\ LinkedFairness

-----------------------------------------------------------------------------
(* Properties *)

\* The types of the link; what is captured was sent, and no more than was sent.
LinkTypeOK ==
  /\ ctl \in {"none", "greet", "probe", "idle", "await", "answered", "over"}
  /\ answer \in {"none", "ok", "failed", "lost", "unopened"}
  /\ (ctl = "answered") => (answer # "none") /\ wire \in {"up", "lost"}
  /\ seq \in 0 .. attempt + 1 /\ writer \in {"up", "gone"}
  /\ agent \in {"none", "hello", "read", "run", "drain", "exited"}
  /\ Len(up) <= WireCap /\ Len(down) <= WireCap /\ Len(chan) <= ChanCap
  /\ \A s \in Streams : got[s] \in Nat /\ job.left[s] \in Nat /\ job.piped[s] \in 0 .. PipeCap

\* One exchange does not run into the next, however it ended.
LinkSound == LinkTypeOK /\ StreamClean /\ AnswerWhole

\* Neither end waits for the other forever.
LinkEnds == ExchangeEnds /\ AgentLeaves
=============================================================================
