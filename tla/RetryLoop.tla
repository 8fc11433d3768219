------------------------------ MODULE RetryLoop ------------------------------
(***************************************************************************)
(* `run_body_with_retries` (orchestrator.rs) around one task body on one    *)
(* host: the attempts, what `failed_when:` / `changed_when:` make of each    *)
(* (`apply_changed_failed_when`), the `until:` condition, and what the      *)
(* single execution of `run_task_on_one_host` then records and reports.     *)
(***************************************************************************)
EXTENDS Naturals, Sequences

CONSTANTS Counts,     \* the values of `retries:`, negative ones clamped to 0
          NoRetries   \* no `retries:` clause

ASSUME CountsAssumption == Counts \subseteq Nat /\ NoRetries \notin Nat

VARIABLES
  task,    \* the clauses of the task
  pc,      \* "body" -> "judge" -> "until" -> ("sleep" -> "body") | "done"
  conn,    \* the agent's end of the connection: "up" | "down"
  result,  \* the BodyResult of the attempt, in the end that of the task
  reg,     \* ctx.registers under the task's name
  attempt, \* `attempts_made`
  log,     \* history: per attempt, how it ended and what `until` said
  aborted  \* history: an expression did not evaluate

vars == <<task, pc, conn, result, reg, attempt, log, aborted>>

\* A register-shape value: its flags, and the attempt it stems from.
Register == [failed : BOOLEAN, changed : BOOLEAN, from : Nat, attempts : Nat]
NoRegister == [failed |-> FALSE, changed |-> FALSE, from |-> 0, attempts |-> 0]

\* BodyResult: "lost" is a failure that reports the connection dead.
Kinds == {"ok", "failed", "lost"}
Result == [kind : Kinds, reg : Register]
Ok(r) == [kind |-> "ok", reg |-> r]
Failed(r) == [kind |-> "failed", reg |-> r]
Lost == [kind |-> "lost", reg |-> NoRegister]

TaskShapes == [retries : Counts \cup {NoRetries}, until : BOOLEAN,
               failedWhen : BOOLEAN, changedWhen : BOOLEAN, register : BOOLEAN]

Init == /\ task \in TaskShapes
        /\ pc = "body" /\ conn = "up"
        /\ result = Failed(NoRegister)
        /\ reg = NoRegister
        /\ attempt = 0 /\ log = <<>> /\ aborted = FALSE

Total == IF task.retries # NoRetries THEN 1 + task.retries
         ELSE IF task.until THEN 4 ELSE 1

\* Only a loop of several attempts asks `until`, and records as it goes.
Retrying == Total > 1

\* What is recorded in the end: the final register, if there is one.
Recorded(r) == IF task.register /\ r.reg # NoRegister THEN r.reg ELSE reg

Finish(r) == /\ result' = r
             /\ reg' = Recorded(r)
             /\ pc' = "done"

-----------------------------------------------------------------------------
(* One attempt *)

Answer(failed, changed) ==
  [failed |-> failed, changed |-> changed, from |-> attempt + 1, attempts |-> 0]

\* The agent answers with an exit code, or the exchange errors: a TaskError
\* or a garbled frame leaves the connection up, the end of the stream does
\* not.  Each of the latter counts as a lost connection.
Body ==
  /\ pc = "body"
  /\ \/ /\ conn = "up" /\ UNCHANGED conn
        /\ \E failed, changed \in BOOLEAN :
             result' = IF failed THEN Failed(Answer(TRUE, changed))
                           ELSE Ok(Answer(FALSE, changed))
     \/ /\ result' = Lost
        /\ conn' \in {conn, "down"}
     \/ /\ result' = Failed(NoRegister)   \* the op does not render
        /\ UNCHANGED conn
  /\ attempt' = attempt + 1
  /\ pc' = "judge"
  /\ UNCHANGED <<task, reg, log, aborted>>

\* Mutant of FailedWhen: a false `failed_when:` is enough to succeed.
FailedWhenForgives(w, r) ==
  LET q == IF r.reg = NoRegister THEN r.reg ELSE [r.reg EXCEPT !.failed = w]
  IN IF w THEN [r EXCEPT !.reg = q] ELSE Ok(q)

\* `failed_when:` decides, but a failure without an answer stays one.
FailedWhen(w, r) ==
  IF r.reg = NoRegister THEN r
  ELSE LET q == [r.reg EXCEPT !.failed = w] IN IF w THEN Failed(q) ELSE Ok(q)

ChangedWhen(w, r) ==
  IF r.reg = NoRegister THEN r ELSE [r EXCEPT !.reg.changed = w]

\* `apply_changed_failed_when`; an expression that does not evaluate fails the
\* attempt with the body's own register and a connection taken to be alive.
Judged(r) ==
  LET afterFailed == IF task.failedWhen THEN {FailedWhen(w, r) : w \in BOOLEAN} ELSE {r}
      afterChanged == IF task.changedWhen
                        THEN {ChangedWhen(w, q) : w \in BOOLEAN, q \in afterFailed}
                        ELSE afterFailed
  IN afterChanged \cup (IF task.failedWhen \/ task.changedWhen
                          THEN {Failed(r.reg)} ELSE {})

\* Mutant of Judge: the attempt's register is recorded at the end only.
JudgeUnrecorded ==
  /\ pc = "judge"
  /\ \E r \in Judged(result) :
       IF ~Retrying
         THEN /\ Finish(r)
              /\ log' = Append(log, [kind |-> r.kind, until |-> FALSE])
         ELSE /\ result' = r
              /\ pc' = "until"
              /\ UNCHANGED <<log, reg>>
  /\ UNCHANGED <<task, conn, attempt, aborted>>

\* A single attempt is the result; one of several is recorded first.
Judge ==
  /\ pc = "judge"
  /\ \E r \in Judged(result) :
       IF ~Retrying
         THEN /\ Finish(r)
              /\ log' = Append(log, [kind |-> r.kind, until |-> FALSE])
         ELSE /\ result' = r
              /\ reg' = Recorded(r)
              /\ pc' = "until"
              /\ UNCHANGED log
  /\ UNCHANGED <<task, conn, attempt, aborted>>

-----------------------------------------------------------------------------
(* Between attempts *)

\* Mutant of Exhausted: the last attempt decides, `until:` or not.
ExhaustedKeepsOk(r) == r

\* The condition was never met: the task fails even if its last attempt did
\* not.
Exhausted(r) == IF r.kind = "ok" THEN Failed(r.reg) ELSE r

\* `register.attempts`.
Annotated(r) == IF r.reg = NoRegister THEN r ELSE [r EXCEPT !.reg.attempts = attempt]

LastAttempt == attempt >= Total

Until ==
  /\ pc = "until"
  /\ \E u \in (IF task.until THEN BOOLEAN ELSE {result.kind = "ok"}) :
       /\ log' = Append(log, [kind |-> result.kind, until |-> u])
       /\ IF u THEN Finish(Annotated(result))
          ELSE IF LastAttempt THEN Finish(Annotated(Exhausted(result)))
          ELSE pc' = "sleep" /\ UNCHANGED <<result, reg>>
  /\ UNCHANGED <<task, conn, attempt, aborted>>

\* `until:` does not evaluate.
UntilErrors ==
  /\ pc = "until" /\ task.until
  /\ Finish(Failed(NoRegister))
  /\ aborted' = TRUE
  /\ UNCHANGED <<task, conn, attempt, log>>

Sleep ==
  /\ pc = "sleep"
  /\ pc' = "body"
  /\ UNCHANGED <<task, conn, result, reg, attempt, log, aborted>>

\* `retries:` or `delay:` does not evaluate; nothing is dispatched.
BadClause ==
  /\ pc = "body" /\ attempt = 0
  /\ task.retries # NoRetries \/ Retrying
  /\ Finish(Failed(NoRegister))
  /\ aborted' = TRUE
  /\ UNCHANGED <<task, conn, attempt, log>>

Next == Body \/ Judge \/ Until \/ UntilErrors \/ Sleep \/ BadClause

Spec == Init /\ [][Next]_vars

-----------------------------------------------------------------------------
(* Properties *)

\* The types of the loop; `BodyResult::Ok` always has a register.
TypeOK == /\ task \in TaskShapes
          /\ pc \in {"body", "judge", "until", "sleep", "done"}
          /\ conn \in {"up", "down"}
          /\ result \in Result /\ (result.kind = "ok" => result.reg # NoRegister)
          /\ reg \in Register
          /\ attempt \in Nat
          /\ log \in Seq([kind : Kinds, until : BOOLEAN])
          /\ aborted \in BOOLEAN

\* The decision table of the doc comment, from the history of the attempts:
\* `until` (or, without it, success) ends the loop at the first attempt that
\* meets it, no later than the last; and the task succeeds exactly if the
\* condition was met by an attempt that did.
Met(e) == IF task.until /\ Retrying THEN e.until ELSE e.kind = "ok"
DecisionTable ==
  (pc = "done" /\ ~aborted) =>
    LET n == Len(log) IN
      /\ n = attempt /\ n \in 1 .. Total
      /\ \A i \in 1 .. n - 1 : ~Met(log[i])
      /\ Met(log[n]) \/ n = Total
      /\ result.kind = "ok" <=> Met(log[n]) /\ log[n].kind = "ok"

\* No expression turns an exchange that broke into a success: the task is ok
\* only on an answer of the agent to its last attempt.
OkMeansAnswered == (pc = "done" /\ result.kind = "ok") => result.reg.from = attempt

\* What `until:` and the rest of the play read under the register's name is
\* the answer to the very last attempt, as the overrides left it: it never says
\* failed of a task that is ok, and once the task is over it counts the
\* attempts.
RegisterCurrent ==
  (task.register /\ pc \in {"until", "done"} /\ result.reg # NoRegister) =>
    /\ reg = result.reg /\ reg.from = attempt
    /\ result.kind = "ok" => ~reg.failed
    /\ pc = "done" /\ Retrying => reg.attempts = attempt

\* What the loop returns and what it leaves in the register are the agent's
\* answer to its last attempt.
AnswerTrue == TypeOK /\ OkMeansAnswered /\ RegisterCurrent
=============================================================================
