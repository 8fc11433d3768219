--------------------------- MODULE RetryLoop_proofs ---------------------------
(***************************************************************************)
(* The decision table of the retry loop and the register it leaves behind,  *)
(* for every number of retries; and the link its attempts go over: one       *)
(* exchange does not run into the next, however it ended.                    *)
(***************************************************************************)
EXTENDS RetryLink, FiniteSetTheorems, FunctionTheorems, TLAPS

\* The attempts are counted and logged, and none has met the condition yet.
Counted ==
  /\ pc # "done" => ~aborted
  /\ pc \in {"body", "sleep"} => Len(log) = attempt /\ attempt < Total
  /\ pc \in {"judge", "until"} => attempt = Len(log) + 1 /\ attempt <= Total
  /\ pc \in {"until", "sleep"} => Retrying
  /\ pc # "done" => \A i \in 1 .. Len(log) : ~Met(log[i])

\* What the loop holds is an answer to the attempt it is at, or none, and one
\* that is ok does not say failed.
Answered(r) ==
  IF r.reg = NoRegister THEN r.kind # "ok"
  ELSE r.reg.from = attempt /\ attempt > 0 /\ (r.kind = "ok" => ~r.reg.failed)

Held == Answered(result)

\* The inductive invariant.
IInv == TypeOK /\ Counted /\ Held /\ DecisionTable /\ RegisterCurrent

-----------------------------------------------------------------------------
\* The number of attempts is a positive natural.
LEMMA TotalType == TypeOK => Total \in Nat \ {0}
<1> SUFFICES ASSUME TypeOK PROVE Total \in Nat \ {0}
  OBVIOUS
<1>1. task.retries \in Counts \cup {NoRetries}
  BY DEF TypeOK, TaskShapes
<1> HIDE DEF TypeOK
<1>2. CASE task.retries # NoRetries
  <2>1. task.retries \in Nat
    BY <1>1, <1>2, CountsAssumption
  <2> QED
    BY <1>2, <2>1 DEF Total
<1>3. CASE task.retries = NoRetries
  BY <1>3 DEF Total
<1> QED
  BY <1>2, <1>3

\* A result, of the attempt the loop is at.
Good(r) == r \in Result /\ Answered(r)

\* The empty register is a register that answers to no attempt.
LEMMA NoRegisterType == NoRegister \in Register /\ NoRegister.from = 0
  BY DEF NoRegister, Register

\* What has a register of the attempt is a result of the attempt.
LEMMA AnswerGood ==
  ASSUME attempt \in Nat, attempt > 0, NEW q \in Register, q.from = attempt, NEW k \in Kinds,
         k = "ok" => ~q.failed
  PROVE  q # NoRegister /\ Good([kind |-> k, reg |-> q])
<1>1. q # NoRegister
  BY NoRegisterType
<1>2. [kind |-> k, reg |-> q] \in Result
  BY DEF Result
<1> QED
  BY <1>1, <1>2 DEF Good, Answered

\* `failed_when:` yields a result of the same attempt.
LEMMA FailedWhenType ==
  ASSUME attempt \in Nat, Good(result), NEW w \in BOOLEAN
  PROVE  Good(FailedWhen(w, result))
<1>1. CASE result.reg = NoRegister
  BY <1>1 DEF FailedWhen
<1>2. CASE result.reg # NoRegister
  <2> DEFINE q == [result.reg EXCEPT !.failed = w]
  <2>1. result.reg \in Register /\ result.reg.from = attempt /\ attempt > 0
    BY <1>2 DEF Good, Answered, Result
  <2>2. q \in Register /\ q.from = attempt /\ q.failed = w
    BY <2>1 DEF Register
  <2>3. FailedWhen(w, result) = IF w THEN Failed(q) ELSE Ok(q)
    BY <1>2 DEF FailedWhen
  <2> HIDE DEF q
  <2>4. Good(Failed(q)) /\ (~w => Good(Ok(q)))
    BY <2>1, <2>2, AnswerGood DEF Failed, Ok, Kinds
  <2> QED
    BY <2>3, <2>4
<1> QED
  BY <1>1, <1>2

\* So does `changed_when:`.
LEMMA ChangedWhenType ==
  ASSUME attempt \in Nat, NEW r, Good(r), NEW w \in BOOLEAN
  PROVE  Good(ChangedWhen(w, r))
<1>1. CASE r.reg = NoRegister
  BY <1>1 DEF ChangedWhen
<1>2. CASE r.reg # NoRegister
  <2> DEFINE q == [r.reg EXCEPT !.changed = w]
  <2>1. r \in Result /\ r.reg \in Register /\ r.reg.from = attempt /\ attempt > 0
    BY <1>2 DEF Good, Answered, Result
  <2>2. q \in Register /\ q.from = attempt /\ q.failed = r.reg.failed
    BY <2>1 DEF Register
  <2>3. ChangedWhen(w, r) = [kind |-> r.kind, reg |-> q]
    BY <1>2, <2>1 DEF ChangedWhen, Result
  <2>4. r.kind \in Kinds /\ (r.kind = "ok" => ~q.failed)
    BY <1>2, <2>1, <2>2 DEF Result, Good, Answered
  <2> HIDE DEF q
  <2> QED
    BY <2>1, <2>2, <2>3, <2>4, AnswerGood
<1> QED
  BY <1>1, <1>2

\* Whatever the two clauses evaluate to, or if they do not.
LEMMA JudgedType ==
  ASSUME attempt \in Nat, Good(result), NEW r \in Judged(result)
  PROVE  Good(r)
<1> DEFINE F == IF task.failedWhen THEN {FailedWhen(w, result) : w \in BOOLEAN}
                                   ELSE {result}
<1>1. \A q \in F : Good(q)
  BY FailedWhenType
<1>2. CASE r = Failed(result.reg)
  BY <1>2 DEF Good, Answered, Result, Failed, Kinds
<1>3. CASE r # Failed(result.reg)
  <2>1. r \in (IF task.changedWhen THEN {ChangedWhen(w, q) : w \in BOOLEAN, q \in F} ELSE F)
    BY <1>3 DEF Judged
  <2> HIDE DEF F
  <2>2. CASE task.changedWhen
    <3>1. PICK w \in BOOLEAN, q \in F : r = ChangedWhen(w, q)
      BY <2>1, <2>2
    <3>2. Good(q)
      BY <1>1
    <3> QED
      BY <3>1, <3>2, ChangedWhenType
  <2>3. CASE ~task.changedWhen
    BY <1>1, <2>1, <2>3
  <2> QED
    BY <2>2, <2>3
<1> QED
  BY <1>2, <1>3

\* So are the results `run_body_with_retries` makes of the last one.
LEMMA FinalType ==
  ASSUME attempt \in Nat, NEW r, Good(r)
  PROVE  /\ Good(Annotated(r)) /\ Annotated(r).kind = r.kind
         /\ Annotated(r).reg = NoRegister \/ Annotated(r).reg.attempts = attempt
         /\ Good(Exhausted(r)) /\ Exhausted(r).kind # "ok"
<1>1. r \in Result /\ r.reg \in Register /\ r.kind \in Kinds
  BY DEF Good, Result
<1>2. Good(Exhausted(r)) /\ Exhausted(r).kind # "ok"
  BY <1>1 DEF Good, Answered, Exhausted, Failed, Result, Kinds
<1>3. CASE r.reg = NoRegister
  BY <1>2, <1>3 DEF Annotated
<1>4. CASE r.reg # NoRegister
  <2> DEFINE q == [r.reg EXCEPT !.attempts = attempt]
  <2>1. r.reg.from = attempt /\ attempt > 0 /\ (r.kind = "ok" => ~r.reg.failed)
    BY <1>4 DEF Good, Answered
  <2>2. /\ q \in Register /\ q.from = attempt /\ q.attempts = attempt
        /\ q.failed = r.reg.failed
    BY <1>1, <2>1 DEF Register
  <2>3. Annotated(r) = [kind |-> r.kind, reg |-> q]
    BY <1>1, <1>4 DEF Annotated, Result
  <2> HIDE DEF q
  <2>4. Good(Annotated(r))
    BY <1>1, <2>1, <2>2, <2>3, AnswerGood
  <2> QED
    BY <1>2, <2>2, <2>3, <2>4
<1> QED
  BY <1>3, <1>4

\* Recording leaves a register, and the answer if there is one.
LEMMA RecordedType ==
  ASSUME reg \in Register, NEW r, Good(r)
  PROVE  /\ Recorded(r) \in Register
         /\ task.register /\ r.reg # NoRegister => Recorded(r) = r.reg
  BY DEF Recorded, Good, Result

\* The answer of the agent, or the lack of one, is a result of the attempt.
LEMMA BodyType == TypeOK /\ Body => Good(result)'
<1> SUFFICES ASSUME TypeOK, Body PROVE Good(result)'
  OBVIOUS
<1>1. attempt \in Nat /\ attempt' = attempt + 1
  BY DEF TypeOK, Body
<1>2. CASE result' \in {Lost, Failed(NoRegister)}
  BY <1>2, NoRegisterType DEF Lost, Failed, Good, Answered, Result, Kinds
<1>3. CASE result' \notin {Lost, Failed(NoRegister)}
  <2>1. PICK failed, changed \in BOOLEAN :
          result' = IF failed THEN Failed(Answer(TRUE, changed))
                              ELSE Ok(Answer(FALSE, changed))
    BY <1>3 DEF Body
  <2>2. PICK f \in BOOLEAN, k \in Kinds :
          /\ result' = [kind |-> k, reg |-> Answer(f, changed)]
          /\ k = "ok" => ~f
    BY <2>1 DEF Failed, Ok, Kinds
  <2>3. /\ Answer(f, changed) \in Register /\ Answer(f, changed).from = attempt + 1
        /\ Answer(f, changed).failed = f
    BY <1>1 DEF Answer, Register
  <2>4. Answer(f, changed) # NoRegister
    BY <1>1, <2>3, NoRegisterType
  <2> HIDE DEF Answer
  <2>5. result' \in Result
    BY <2>2, <2>3 DEF Result
  <2>6. result'.reg = Answer(f, changed) /\ result'.kind = k
    BY <2>2
  <2> QED
    BY <1>1, <2>2, <2>3, <2>4, <2>5, <2>6 DEF Good, Answered
<1> QED
  BY <1>2, <1>3

-----------------------------------------------------------------------------
\* The log grows by one entry.
LEMMA LogGrows ==
  ASSUME TypeOK, NEW k \in Kinds, NEW u \in BOOLEAN,
         log' = Append(log, [kind |-> k, until |-> u])
  PROVE  /\ log' \in Seq([kind : Kinds, until : BOOLEAN])
         /\ Len(log') = Len(log) + 1 /\ Len(log) \in Nat
         /\ log'[Len(log) + 1].kind = k /\ log'[Len(log) + 1].until = u
         /\ \A i \in 1 .. Len(log) : log'[i] = log[i]
<1> DEFINE E == [kind : Kinds, until : BOOLEAN]
           e == [kind |-> k, until |-> u]
<1>1. log \in Seq(E) /\ e \in E /\ e.kind = k /\ e.until = u
  BY DEF TypeOK
<1> HIDE DEF E, e
<1>2. log' = Append(log, e)
  BY DEF e
<1>3. log' \in Seq(E) /\ Len(log') = Len(log) + 1 /\ Len(log) \in Nat
  BY <1>1, <1>2
<1>4. log'[Len(log) + 1] = e /\ \A i \in 1 .. Len(log) : log'[i] = log[i]
  BY <1>1, <1>2
<1> QED
  BY <1>1, <1>3, <1>4 DEF E

\* The task and its number of attempts do not change.
LEMMA TaskFixed ==
  [Next]_vars => task' = task /\ Total' = Total /\ Retrying' = Retrying
<1> SUFFICES ASSUME [Next]_vars PROVE task' = task /\ Total' = Total /\ Retrying' = Retrying
  OBVIOUS
<1>1. task' = task
  BY DEF Next, vars, Body, Judge, Until, UntilErrors, Sleep, BadClause
<1> QED
  BY <1>1 DEF Total, Retrying

\* The initial state satisfies the invariant.
LEMMA InitInv == Init => IInv
<1> SUFFICES ASSUME Init PROVE IInv
  OBVIOUS
<1>1. TypeOK
  <2>1. result \in Result /\ result.kind # "ok"
    BY NoRegisterType DEF Init, Failed, Result, Kinds
  <2>2. log \in Seq([kind : Kinds, until : BOOLEAN])
    BY DEF Init
  <2> QED
    BY <2>1, <2>2, NoRegisterType DEF Init, TypeOK
<1>2. Total \in Nat \ {0}
  BY <1>1, TotalType
<1>3. Counted
  BY <1>2 DEF Init, Counted
<1>4. Held /\ DecisionTable /\ RegisterCurrent
  BY DEF Init, Held, Answered, Failed, DecisionTable, RegisterCurrent
<1> QED
  BY <1>1, <1>3, <1>4 DEF IInv

-----------------------------------------------------------------------------
\* Where the loop ends with an answer: the last entry of the log decides.
LEMMA Decided ==
  ASSUME IInv, task' = task, Total' = Total, Retrying' = Retrying,
         attempt' = attempt, aborted' = aborted,
         pc \in {"judge", "until"}, NEW k \in Kinds, NEW u \in BOOLEAN,
         log' = Append(log, [kind |-> k, until |-> u]),
         NEW met \in BOOLEAN, met = (IF task.until /\ Retrying THEN u ELSE k = "ok"),
         met \/ attempt = Total,
         result'.kind = "ok" <=> met /\ k = "ok"
  PROVE  DecisionTable'
<1>1. TypeOK /\ Counted
  BY DEF IInv
<1>2. Len(log') = attempt /\ attempt \in 1 .. Total
  BY <1>1, LogGrows, TotalType DEF Counted, TypeOK
<1>3. \A i \in 1 .. attempt - 1 : log'[i] = log[i] /\ ~Met(log[i])
  BY <1>1, LogGrows DEF Counted, TypeOK
<1>4. \A i \in 1 .. attempt - 1 :
        ~(IF task'.until /\ Retrying' THEN log'[i].until ELSE log'[i].kind = "ok")
  BY <1>3 DEF Met
<1>5. log'[attempt].kind = k /\ log'[attempt].until = u
  BY <1>1, LogGrows DEF Counted, TypeOK
<1>6. met = (IF task'.until /\ Retrying' THEN log'[attempt].until ELSE log'[attempt].kind = "ok")
  BY <1>5
<1> QED
  BY <1>2, <1>4, <1>5, <1>6 DEF DecisionTable, Met

\* Where it goes on, no attempt has met the condition.
LEMMA StillUnmet ==
  ASSUME TypeOK, task' = task, Retrying' = Retrying,
         \A i \in 1 .. Len(log) : ~Met(log[i]),
         NEW k \in Kinds, NEW u \in BOOLEAN,
         log' = Append(log, [kind |-> k, until |-> u]),
         ~(IF task.until /\ Retrying THEN u ELSE k = "ok")
  PROVE  \A i \in 1 .. Len(log') :
           ~(IF task'.until /\ Retrying' THEN log'[i].until ELSE log'[i].kind = "ok")
<1> SUFFICES ASSUME NEW i \in 1 .. Len(log')
             PROVE ~(IF task'.until /\ Retrying' THEN log'[i].until ELSE log'[i].kind = "ok")
  OBVIOUS
<1>1. CASE i \in 1 .. Len(log)
  BY <1>1, LogGrows DEF Met
<1>2. CASE i = Len(log) + 1
  BY <1>2, LogGrows
<1> QED
  BY <1>1, <1>2, LogGrows

\* Body keeps the invariant.
LEMMA BodyStep == IInv /\ Body => IInv'
<1> SUFFICES ASSUME IInv, Body PROVE IInv'
  OBVIOUS
<1>1. TypeOK /\ Counted
  BY DEF IInv
<1>2. task' = task /\ Total' = Total /\ Retrying' = Retrying
  BY TaskFixed DEF Next
<1>3. Good(result)'
  BY <1>1, BodyType
<1>4. Total \in Nat \ {0}
  BY <1>1, TotalType
<1>5. attempt' = attempt + 1 /\ pc = "body" /\ pc' = "judge"
      /\ log' = log /\ reg' = reg /\ aborted' = aborted /\ conn' \in {"up", "down"}
  BY <1>1 DEF Body, TypeOK
<1>6. TypeOK'
  BY <1>1, <1>2, <1>3, <1>5 DEF TypeOK, Good, Answered
<1>7. Counted'
  <2>1. \A i \in 1 .. Len(log') : ~(IF task'.until /\ Retrying' THEN log'[i].until
                                                              ELSE log'[i].kind = "ok")
    BY <1>1, <1>2, <1>5 DEF Counted, Met
  <2> QED
    BY <1>1, <1>2, <1>4, <1>5, <2>1 DEF Counted, Met, TypeOK
<1>8. Held' /\ DecisionTable' /\ RegisterCurrent'
  BY <1>3, <1>5 DEF Held, Good, DecisionTable, RegisterCurrent
<1> QED
  BY <1>6, <1>7, <1>8 DEF IInv

\* Judge keeps the invariant.
LEMMA JudgeStep == IInv /\ Judge => IInv'
<1> SUFFICES ASSUME IInv, Judge PROVE IInv'
  OBVIOUS
<1>1. TypeOK /\ Counted /\ Held
  BY DEF IInv
<1>2. task' = task /\ Total' = Total /\ Retrying' = Retrying
  BY TaskFixed DEF Next
<1>3. PICK r \in Judged(result) :
        IF ~Retrying
          THEN /\ Finish(r)
               /\ log' = Append(log, [kind |-> r.kind, until |-> FALSE])
          ELSE /\ result' = r
               /\ reg' = Recorded(r)
               /\ pc' = "until"
               /\ UNCHANGED log
  BY DEF Judge
<1>4. pc = "judge" /\ conn' = conn /\ attempt' = attempt /\ aborted' = aborted
  BY DEF Judge
<1>5. Good(r)
  BY <1>1, JudgedType DEF TypeOK, Held, Good
<1>6. result' = r /\ reg' = Recorded(r) /\ pc' \in {"until", "done"}
  BY <1>3 DEF Finish
<1>7. Recorded(r) \in Register /\ (task.register /\ r.reg # NoRegister => Recorded(r) = r.reg)
  BY <1>1, <1>5, RecordedType DEF TypeOK
<1>8. r \in Result /\ r.kind \in Kinds /\ Answered(r) /\ Answered(r)'
  BY <1>4, <1>5 DEF Good, Answered, Result
<1>9. Held'
  BY <1>6, <1>8 DEF Held, Answered
<1>10. CASE Retrying
  <2>1. pc' = "until" /\ log' = log
    BY <1>3, <1>10
  <2>2. TypeOK'
    BY <1>1, <1>2, <1>4, <1>6, <1>7, <1>8, <2>1 DEF TypeOK, Answered
  <2>3. \A i \in 1 .. Len(log') : ~(IF task'.until /\ Retrying' THEN log'[i].until
                                                              ELSE log'[i].kind = "ok")
    BY <1>1, <1>2, <1>4, <2>1 DEF Counted, Met
  <2>4. Counted'
    BY <1>1, <1>2, <1>4, <1>10, <2>1, <2>3 DEF Counted, Met
  <2>5. DecisionTable' /\ RegisterCurrent'
    BY <1>2, <1>4, <1>6, <1>7, <1>8, <2>1 DEF DecisionTable, RegisterCurrent, Answered
  <2> QED
    BY <1>9, <2>2, <2>4, <2>5 DEF IInv
<1>11. CASE ~Retrying
  <2>1. pc' = "done" /\ log' = Append(log, [kind |-> r.kind, until |-> FALSE])
    BY <1>3, <1>11 DEF Finish
  <2>2. TypeOK'
    BY <1>1, <1>2, <1>4, <1>6, <1>7, <1>8, <2>1, LogGrows DEF TypeOK, Answered
  <2>3. Counted'
    BY <2>1 DEF Counted
  <2>4. attempt = Total
    BY <1>1, <1>4, <1>11, TotalType DEF Retrying, Counted, TypeOK
  <2>5. DecisionTable'
    <3> DEFINE met == r.kind = "ok"
    <3>1. met = (IF task.until /\ Retrying THEN FALSE ELSE r.kind = "ok")
      BY <1>11
    <3>2. result'.kind = "ok" <=> met /\ r.kind = "ok"
      BY <1>6
    <3>3. met \in BOOLEAN
      OBVIOUS
    <3> HIDE DEF met
    <3> QED
      BY <1>2, <1>4, <1>8, <2>1, <2>4, <3>1, <3>2, <3>3, Decided
  <2>6. RegisterCurrent'
    BY <1>2, <1>4, <1>6, <1>7, <1>8, <1>11, <2>1 DEF RegisterCurrent, Answered
  <2> QED
    BY <1>9, <2>2, <2>3, <2>5, <2>6 DEF IInv
<1> QED
  BY <1>10, <1>11

\* Until keeps the invariant.
LEMMA UntilStep == IInv /\ Until => IInv'
<1> SUFFICES ASSUME IInv, Until PROVE IInv'
  OBVIOUS
<1>1. TypeOK /\ Counted /\ Held
  BY DEF IInv
<1>2. task' = task /\ Total' = Total /\ Retrying' = Retrying
  BY TaskFixed DEF Next
<1>3. PICK u \in (IF task.until THEN BOOLEAN ELSE {result.kind = "ok"}) :
        /\ log' = Append(log, [kind |-> result.kind, until |-> u])
        /\ IF u THEN Finish(Annotated(result))
           ELSE IF LastAttempt THEN Finish(Annotated(Exhausted(result)))
           ELSE pc' = "sleep" /\ UNCHANGED <<result, reg>>
  BY DEF Until
<1>4. pc = "until" /\ conn' = conn /\ attempt' = attempt /\ aborted' = aborted
  BY DEF Until
<1>5. u \in BOOLEAN /\ Retrying
  BY <1>1, <1>4 DEF Counted
<1>6. u = (IF task.until /\ Retrying THEN u ELSE result.kind = "ok")
  BY <1>3, <1>5
<1>7. Good(result) /\ result.kind \in Kinds
  BY <1>1 DEF TypeOK, Held, Good, Result
<1>8. attempt \in Nat /\ attempt = Len(log) + 1 /\ attempt <= Total
  BY <1>1, <1>4 DEF TypeOK, Counted
<1>9. /\ log' \in Seq([kind : Kinds, until : BOOLEAN])
      /\ Len(log') = Len(log) + 1
  BY <1>1, <1>3, <1>5, <1>7, LogGrows
<1>10. ASSUME NEW r, Good(r), Finish(r), u \/ attempt = Total,
              r.kind = "ok" <=> u /\ result.kind = "ok",
              r.reg = NoRegister \/ r.reg.attempts = attempt
       PROVE  IInv'
  <2>1. result' = r /\ reg' = Recorded(r) /\ pc' = "done"
    BY <1>10 DEF Finish
  <2>2. Recorded(r) \in Register /\ (task.register /\ r.reg # NoRegister => Recorded(r) = r.reg)
    BY <1>1, <1>10, RecordedType DEF TypeOK
  <2>3. r \in Result /\ Answered(r) /\ Answered(r)'
    BY <1>4, <1>10 DEF Good, Answered
  <2>4. TypeOK'
    BY <1>1, <1>2, <1>4, <1>9, <2>1, <2>2, <2>3 DEF TypeOK, Answered
  <2>5. Counted' /\ Held'
    BY <2>1, <2>3 DEF Counted, Held, Answered
  <2>6. DecisionTable'
    BY <1>2, <1>3, <1>4, <1>5, <1>6, <1>7, <1>10, <2>1, Decided
  <2>7. RegisterCurrent'
    BY <1>2, <1>4, <1>10, <2>1, <2>2, <2>3 DEF RegisterCurrent, Answered
  <2> QED
    BY <2>4, <2>5, <2>6, <2>7 DEF IInv
<1>11. CASE u
  <2>1. Finish(Annotated(result))
    BY <1>3, <1>11
  <2> QED
    BY <1>7, <1>8, <1>10, <1>11, <2>1, FinalType
<1>12. CASE ~u /\ LastAttempt
  <2>1. Finish(Annotated(Exhausted(result)))
    BY <1>3, <1>12
  <2>2. attempt = Total
    BY <1>1, <1>8, <1>12, TotalType DEF LastAttempt
  <2>3. Good(Exhausted(result)) /\ Exhausted(result).kind # "ok"
    BY <1>7, <1>8, FinalType
  <2> QED
    BY <1>8, <1>10, <1>12, <2>1, <2>2, <2>3, FinalType
<1>13. CASE ~u /\ ~LastAttempt
  <2>1. pc' = "sleep" /\ result' = result /\ reg' = reg
    BY <1>3, <1>13
  <2>2. attempt < Total
    BY <1>1, <1>8, <1>13, TotalType DEF LastAttempt
  <2>3. TypeOK'
    BY <1>1, <1>2, <1>4, <1>9, <2>1 DEF TypeOK
  <2>4. \A i \in 1 .. Len(log') : ~(IF task'.until /\ Retrying' THEN log'[i].until
                                                              ELSE log'[i].kind = "ok")
    <3>1. \A i \in 1 .. Len(log) : ~Met(log[i])
      BY <1>1, <1>4 DEF Counted
    <3>2. ~(IF task.until /\ Retrying THEN u ELSE result.kind = "ok")
      BY <1>6, <1>13
    <3> QED
      BY <1>1, <1>2, <1>3, <1>5, <1>7, <3>1, <3>2, StillUnmet
  <2>5. Counted'
    BY <1>1, <1>2, <1>4, <1>5, <1>8, <1>9, <2>1, <2>2, <2>4 DEF Counted, Met
  <2>6. Held' /\ DecisionTable' /\ RegisterCurrent'
    BY <1>4, <1>7, <2>1 DEF Held, Good, Answered, DecisionTable, RegisterCurrent
  <2> QED
    BY <2>3, <2>5, <2>6 DEF IInv
<1> QED
  BY <1>11, <1>12, <1>13

\* A task that is given up ends without a register: a clause does not evaluate,
\* or there is no agent to run it.
GivenUp ==
  /\ Finish(Failed(NoRegister)) /\ aborted' = TRUE
  /\ UNCHANGED <<task, conn, attempt, log>>

LEMMA AbortStep == IInv /\ GivenUp => IInv'
<1> SUFFICES ASSUME IInv, GivenUp PROVE IInv'
  OBVIOUS
<1>1. TypeOK
  BY DEF IInv
<1>2. task' = task /\ Total' = Total /\ Retrying' = Retrying
  BY DEF GivenUp, Total, Retrying
<1>3. Finish(Failed(NoRegister)) /\ aborted' = TRUE /\ conn' = conn
      /\ attempt' = attempt /\ log' = log
  BY DEF GivenUp
<1> DEFINE r == Failed(NoRegister)
<1>4. r \in Result /\ r.kind # "ok" /\ r.reg = NoRegister
  BY NoRegisterType DEF Failed, Result, Kinds
<1>5. result' = r /\ reg' = Recorded(r) /\ pc' = "done"
  BY <1>3 DEF Finish
<1>6. Recorded(r) = reg
  BY <1>4 DEF Recorded
<1> HIDE DEF r
<1>7. TypeOK'
  BY <1>1, <1>2, <1>3, <1>4, <1>5, <1>6 DEF TypeOK
<1>8. Counted' /\ Held' /\ DecisionTable' /\ RegisterCurrent'
  BY <1>3, <1>4, <1>5 DEF Counted, Held, Answered, DecisionTable, RegisterCurrent
<1> QED
  BY <1>7, <1>8 DEF IInv

\* Sleeping, and stuttering, keep the invariant.
LEMMA IdleStep == IInv /\ (Sleep \/ UNCHANGED vars) => IInv'
<1> SUFFICES ASSUME IInv, Sleep \/ UNCHANGED vars PROVE IInv'
  OBVIOUS
<1>1. TypeOK /\ Counted /\ Held /\ DecisionTable /\ RegisterCurrent
  BY DEF IInv
<1>2. task' = task /\ Total' = Total /\ Retrying' = Retrying
  BY TaskFixed DEF Next
<1>3. conn' = conn /\ result' = result /\ reg' = reg /\ attempt' = attempt
      /\ log' = log /\ aborted' = aborted
  BY DEF Sleep, vars
<1>4. pc' = pc \/ (pc = "sleep" /\ pc' = "body")
  BY DEF Sleep, vars
<1>5. TypeOK'
  BY <1>1, <1>2, <1>3, <1>4 DEF TypeOK
<1>6. pc # "done" => \A i \in 1 .. Len(log') :
        ~(IF task'.until /\ Retrying' THEN log'[i].until ELSE log'[i].kind = "ok")
  BY <1>1, <1>2, <1>3 DEF Counted, Met
<1>7. Counted'
  BY <1>1, <1>2, <1>3, <1>4, <1>6 DEF Counted, Met
<1>8. Held' /\ RegisterCurrent'
  BY <1>1, <1>2, <1>3, <1>4 DEF Held, Answered, RegisterCurrent
<1>9. DecisionTable'
  BY <1>1, <1>2, <1>3, <1>4 DEF DecisionTable, Met
<1> QED
  BY <1>5, <1>7, <1>8, <1>9 DEF IInv

\* Every step preserves the invariant.
LEMMA StepInv == IInv /\ [Next]_vars => IInv'
<1>1. UntilErrors \/ BadClause => GivenUp
  BY DEF UntilErrors, BadClause, GivenUp
<1> QED
  BY <1>1, BodyStep, JudgeStep, UntilStep, AbortStep, IdleStep DEF Next

-----------------------------------------------------------------------------
\* The invariant holds in every reachable state.
THEOREM Invariance == Spec => []IInv
  BY InitInv, StepInv, PTL DEF Spec

\* Type correctness; in particular, a success always has a register.
THEOREM TypeCorrect == Spec => []TypeOK
  BY Invariance, PTL DEF IInv

\* The decision table of `until:`, `retries:` and the body's own outcome, for
\* every number of retries.
THEOREM Decision == Spec => []DecisionTable
  BY Invariance, PTL DEF IInv

\* Whatever the clauses say, a task is ok only on the agent's answer to its
\* last attempt.
THEOREM AnsweredOk == Spec => []OkMeansAnswered
<1>1. IInv => OkMeansAnswered
  BY DEF IInv, TypeOK, Held, Answered, OkMeansAnswered
<1> QED
  BY <1>1, Invariance, PTL

\* The register the play reads is the answer to the last attempt.
THEOREM CurrentRegister == Spec => []RegisterCurrent
  BY Invariance, PTL DEF IInv

\* The loop's result and its register are the agent's answer to the last attempt,
\* for any number of retries.
THEOREM AnswerIsTrue == Spec => []AnswerTrue
<1>1. TypeOK /\ OkMeansAnswered /\ RegisterCurrent <=> AnswerTrue
  BY DEF AnswerTrue
<1> QED
  BY <1>1, TypeCorrect, AnsweredOk, CurrentRegister, PTL

-----------------------------------------------------------------------------
(* The link: one exchange at a time, an answer with all that was written *)

FrameTypes == {"hello", "ping", "pong", "bye", "dispatch", "ok", "failed", "error"} \cup Streams
Frames == [t : FrameTypes, seq : Nat, size : {"fits", "huge"}]
Chunks == [Streams -> Nat]
Jobs == [seq : Nat, left : Chunks, piped : [Streams -> 0 .. PipeCap], wrote : Chunks,
         exit : {"none", "ok", "failed", "error"}, open : BOOLEAN, timed : BOOLEAN]

\* The types of both ends, and which dispatch the loop is at.
LinkTyped ==
  /\ ctl \in {"none", "greet", "probe", "idle", "await", "answered", "over"}
  /\ answer \in {"none", "ok", "failed", "lost", "unopened"}
  /\ ctl = "answered" => answer # "none"
  /\ wire \in {"up", "lost"} /\ writer \in {"up", "gone"}
  /\ agent \in {"none", "hello", "read", "run", "drain", "exited"}
  /\ {up, down, chan} \subseteq Seq(Frames)
  /\ Len(up) <= WireCap /\ Len(down) <= WireCap /\ Len(chan) <= ChanCap
  /\ got \in Chunks /\ job \in Jobs
SeqTyped ==
  /\ seq \in Nat /\ attempt \in Nat /\ seq <= attempt + 1
  /\ (ctl \in {"none", "greet", "probe", "idle"} \/ answer = "unopened") => seq <= attempt
  /\ answer = "unopened" => ctl = "answered"

\* What is gone holds nothing.
Empty ==
  /\ wire = "lost" => up = <<>> /\ down = <<>>
  /\ writer = "gone" => chan = <<>>
  /\ agent = "exited" => chan = <<>>

\* Nothing is under way on a connection that stands, and the agent waits.
Silent ==
  /\ up = <<>> /\ down = <<>>
  /\ agent # "exited" => chan = <<>> /\ agent = "read" /\ writer = "up"

\* The opening: one frame at a time, and every one can be written.
Opening ==
  /\ agent \in {"hello", "read", "exited"}
  /\ agent # "exited" => writer = "up"
  /\ Len(up) + Len(chan) <= 1
  /\ \A i \in DOMAIN chan : chan[i].size = "fits"
  /\ agent = "hello" => up = <<>> /\ chan = <<>> /\ ctl = "greet"
  /\ ctl = "greet" \/ agent = "exited" => down = <<>>
  /\ down # <<>> => up = <<>> /\ chan = <<>> /\ Len(down) = 1 /\ Head(down).t = "ping"

\* Frames of this exchange, output first; and the frame that ends it.
Ordered(s, n) ==
  \A i \in DOMAIN s :
    /\ s[i].seq = n /\ s[i].t \in Streams \cup {"ok", "failed", "error"}
    /\ s[i].t \in Streams => s[i].size = "fits"
    /\ i < Len(s) => s[i].t \in Streams
Ends(s) == s # <<>> /\ s[Len(s)].t \notin Streams

\* The chunks of a stream among frames, and all that have left the pipes.
Count(s, k) == Cardinality({i \in DOMAIN s : s[i].t = k})
Sent(k) == got[k] + Count(up, k) + Count(chan, k)

\* An exchange: the dispatch is under way, or its command runs, or it is answered.
Exchange ==
  /\ agent \in {"read", "run", "exited"}
  /\ Ordered(up, seq) /\ Ordered(chan, seq) /\ (Ends(up) => chan = <<>>)
  /\ agent = "exited" => down = <<>>
  /\ down # <<>> => /\ Len(down) = 1 /\ Head(down).t = "dispatch" /\ Head(down).seq = seq
                    /\ agent = "read" /\ writer = "up" /\ up = <<>> /\ chan = <<>> /\ got = Nothing
  /\ agent = "run" => /\ writer = "up" /\ down = <<>> /\ job.seq = seq
                      /\ ~Ends(up) /\ ~Ends(chan)
                      /\ \A k \in Streams : Sent(k) + job.piped[k] = job.wrote[k]
  /\ Ends(up) \/ Ends(chan) => /\ agent # "exited" => writer = "up"
                               /\ \A k \in Streams : Sent(k) = job.wrote[k]

\* An answer that arrived is that of the job the agent has done.
Arrived ==
  (ctl = "answered" /\ answer \in {"ok", "failed"}) =>
    /\ got = job.wrote /\ down = <<>> /\ agent \in {"read", "drain", "exited"}

Phased ==
  /\ (wire = "up" /\ ctl \in {"greet", "probe"}) => Opening
  /\ (wire = "up" /\ ctl \in {"idle", "answered"}) => Silent
  /\ (wire = "up" /\ ctl = "await") => Exchange

LinkInv == LinkTyped /\ SeqTyped /\ Empty /\ Arrived /\ Phased

-----------------------------------------------------------------------------
(* Lemmas about rows of frames *)

\* A row of frames with one more behind it, and without the one in front.
LEMMA Queued ==
  ASSUME NEW s \in Seq(Frames), NEW f \in Frames
  PROVE  LET a == Append(s, f)
         IN  /\ a \in Seq(Frames) /\ a # <<>> /\ Len(s) \in Nat /\ Len(a) = Len(s) + 1
             /\ DOMAIN s = 1 .. Len(s) /\ DOMAIN a = 1 .. (Len(s) + 1)
             /\ \A i \in DOMAIN s : a[i] = s[i]
             /\ a[Len(s) + 1] = f
OBVIOUS

LEMMA Taken ==
  ASSUME NEW s \in Seq(Frames), s # <<>>
  PROVE  LET a == Tail(s)
         IN  /\ a \in Seq(Frames) /\ Len(s) \in Nat \ {0} /\ Len(a) = Len(s) - 1
             /\ DOMAIN s = 1 .. Len(s) /\ DOMAIN a = 1 .. (Len(s) - 1)
             /\ \A i \in DOMAIN a : a[i] = s[i + 1]
             /\ Head(s) = s[1] /\ Head(s) \in Frames
OBVIOUS

LEMMA Row ==
  ASSUME NEW s \in Seq(Frames)
  PROVE  /\ Len(s) \in Nat /\ DOMAIN s = 1 .. Len(s) /\ (s = <<>> <=> Len(s) = 0)
         /\ \A i \in DOMAIN s : s[i] \in Frames
OBVIOUS

\* No frames, no chunks.
LEMMA CountNone == ASSUME NEW k PROVE Count(<<>>, k) = 0
<1>1. {i \in DOMAIN <<>> : <<>>[i].t = k} = {}
  OBVIOUS
<1> QED
  BY <1>1, FS_EmptySet DEF Count

\* A finite number of them.
LEMMA CountNat ==
  ASSUME NEW s \in Seq(Frames), NEW k
  PROVE  IsFiniteSet({i \in DOMAIN s : s[i].t = k}) /\ Count(s, k) \in Nat
<1>1. Len(s) \in Nat /\ DOMAIN s = 1 .. Len(s)
  BY Row
<1>2. IsFiniteSet(1 .. Len(s))
  BY <1>1, FS_Interval
<1>3. {i \in DOMAIN s : s[i].t = k} \subseteq 1 .. Len(s)
  BY <1>1
<1>4. IsFiniteSet({i \in DOMAIN s : s[i].t = k})
  BY <1>2, <1>3, FS_Subset
<1> QED
  BY <1>4, FS_CardinalityType DEF Count

\* A frame behind the others counts if it is a chunk.
LEMMA CountQueued ==
  ASSUME NEW s \in Seq(Frames), NEW f \in Frames, NEW k
  PROVE  Count(Append(s, f), k) = Count(s, k) + (IF f.t = k THEN 1 ELSE 0)
<1> DEFINE a == Append(s, f)
           S == {i \in DOMAIN s : s[i].t = k}
           A == {i \in DOMAIN a : a[i].t = k}
           n == Len(s) + 1
<1>1. /\ Len(s) \in Nat /\ DOMAIN s = 1 .. Len(s) /\ DOMAIN a = 1 .. n
      /\ \A i \in DOMAIN s : a[i] = s[i]
      /\ a[n] = f
  BY Queued
<1>2. IsFiniteSet(S) /\ n \notin S
  <2>1. n \notin 1 .. Len(s)
    BY <1>1
  <2> QED
    BY <1>1, <2>1, CountNat
<1> HIDE DEF a
<1>3. CASE f.t = k
  <2>1. A = S \cup {n}
    BY <1>1, <1>3
  <2>2. Cardinality(A) = Cardinality(S) + 1
    BY <1>2, <2>1, FS_AddElement
  <2> QED
    BY <1>3, <2>2 DEF Count, a
<1>4. CASE f.t # k
  <2>1. A = S
    BY <1>1, <1>4
  <2>2. Count(s, k) \in Nat /\ Count(a, k) = Count(s, k)
    BY <2>1, CountNat DEF Count
  <2>3. \A m \in Nat : m = m + 0
    OBVIOUS
  <2>4. Count(s, k) = Count(s, k) + 0
    BY <2>2, <2>3
  <2> QED
    BY <1>4, <2>2, <2>4 DEF a
<1> QED
  BY <1>3, <1>4

\* The frame in front counts until it is taken.
LEMMA CountTaken ==
  ASSUME NEW s \in Seq(Frames), s # <<>>, NEW k
  PROVE  Count(s, k) = Count(Tail(s), k) + (IF Head(s).t = k THEN 1 ELSE 0)
<1> DEFINE a == Tail(s)
           S == {i \in DOMAIN s : s[i].t = k}
           A == {i \in DOMAIN a : a[i].t = k}
           B == {i \in S : i # 1}
<1>1. /\ a \in Seq(Frames) /\ Len(s) \in Nat \ {0} /\ DOMAIN s = 1 .. Len(s)
      /\ DOMAIN a = 1 .. (Len(s) - 1) /\ (\A i \in DOMAIN a : a[i] = s[i + 1]) /\ Head(s) = s[1]
  BY Taken
<1>2. IsFiniteSet(A) /\ IsFiniteSet(S)
  BY <1>1, CountNat
<1> HIDE DEF a
<1>3. IsFiniteSet(B)
  BY <1>2, FS_Subset
<1>4. Cardinality(A) = Cardinality(B)
  <2> DEFINE g == [i \in A |-> i + 1]
  <2>1. \A i \in A : i + 1 \in B
    BY <1>1
  <2>2. \A j \in B : j - 1 \in A /\ (j - 1) + 1 = j
    BY <1>1
  <2>3. g \in Bijection(A, B)
    <3>1. g \in [A -> B]
      BY <2>1
    <3>2. \A i, j \in A : g[i] = g[j] => i = j
      BY <1>1
    <3>3. \A j \in B : \E i \in A : g[i] = j
      BY <2>2
    <3> QED
      BY <3>1, <3>2, <3>3, Fun_IsBij
  <2> QED
    BY <1>2, <2>3, FS_Bijection DEF ExistsBijection
<1>5. CASE Head(s).t = k
  <2>1. S = B \cup {1} /\ 1 \notin B
    BY <1>1, <1>5
  <2>2. Cardinality(S) = Cardinality(B) + 1
    BY <1>3, <2>1, FS_AddElement
  <2> QED
    BY <1>4, <1>5, <2>2 DEF Count, a
<1>6. CASE Head(s).t # k
  <2>1. S = B
    BY <1>1, <1>6
  <2>2. Count(s, k) \in Nat /\ Count(a, k) = Count(s, k)
    BY <1>4, <2>1, CountNat DEF Count
  <2>3. \A m \in Nat : m = m + 0
    OBVIOUS
  <2>4. Count(a, k) = Count(a, k) + 0
    BY <2>2, <2>3
  <2> QED
    BY <1>6, <2>2, <2>4 DEF a
<1> QED
  BY <1>5, <1>6

-----------------------------------------------------------------------------
(* What a step does to the link *)

\* The attempt is over and the slot is free for the next one; or there is no agent.
Concludes ==
  /\ ctl = "answered" /\ answer # "unopened" /\ attempt' = attempt + 1
  /\ ctl' = "idle" /\ answer' = "none"
  /\ got' = Nothing /\ job' = IF agent = "run" THEN job ELSE NoJob
  /\ UNCHANGED <<seq, wire, down, up, agent, chan, writer>>
Returns ==
  /\ ctl = "answered" /\ answer = "unopened" /\ attempt' = attempt
  /\ ctl' = "none" /\ answer' = "none"
  /\ UNCHANGED <<seq, got, wire, down, up, agent, chan, writer, job>>

LinkMove ==
  \/ UNCHANGED linkVars /\ attempt' \in {attempt, attempt + 1}
  \/ Concludes \/ Returns
  \/ /\ attempt' = attempt
     /\ Connect \/ Dispatch \/ DispatchFails \/ Goodbye \/ ControllerReads \/ AgentSteps \/ Faults

LEMMA LinkMoves == [LinkedNext]_linkedVars => LinkMove
<1> SUFFICES ASSUME [LinkedNext]_linkedVars PROVE LinkMove
  OBVIOUS
<1>1. CASE UNCHANGED linkedVars
  BY <1>1 DEF linkedVars, vars, LinkMove
<1>2. ASSUME Next, UNCHANGED linkVars PROVE LinkMove
  BY <1>2 DEF Next, Body, Judge, Until, UntilErrors, Sleep, BadClause, LinkMove
<1>3. ASSUME Stepping PROVE LinkMove
  <2>1. CASE Resolve \/ AttemptGoes \/ Parting
    BY <2>1 DEF Resolve, AttemptGoes, Parting, vars, LinkMove
  <2>2. CASE Unresolved
    BY <2>2 DEF Unresolved, Returns, LinkMove
  <2>3. CASE AttemptEnds
    BY <2>3 DEF AttemptEnds, Body, Concludes, LinkMove
  <2>4. CASE Unrendered
    BY <2>4 DEF Unrendered, Body, LinkMove
  <2>5. CASE LoopSteps
    BY <2>5 DEF LoopSteps, Judge, Until, UntilErrors, Sleep, BadClause, LinkMove
  <2> QED
    BY <1>3, <2>1, <2>2, <2>3, <2>4, <2>5 DEF Stepping
<1>4. ASSUME LinkSteps \/ (Faults /\ UNCHANGED vars) PROVE LinkMove
  BY <1>4 DEF LinkSteps, vars, LinkMove
<1> QED
  BY <1>1, <1>2, <1>3, <1>4 DEF LinkedNext

\* A frame that is emitted, and one that is shipped.
LEMMA EmitIs ==
  ASSUME LinkTyped, NEW f \in Frames, Emit(f)
  PROVE  /\ chan' \in Seq(Frames) /\ Len(chan') <= ChanCap
         /\ writer = "up" => chan' = Append(chan, f)
         /\ writer = "gone" => chan' = chan
<1>1. chan \in Seq(Frames) /\ Len(chan) <= ChanCap /\ writer \in {"up", "gone"} /\ ChanCap \in Nat
  BY LinkAssumption DEF LinkTyped
<1>2. CASE writer = "gone"
  BY <1>1, <1>2 DEF Emit
<1>3. CASE writer = "up"
  <2>1. Len(chan) < ChanCap /\ chan' = Append(chan, f)
    BY <1>3 DEF Emit
  <2> QED
    BY <1>1, <1>3, <2>1, Queued
<1> QED
  BY <1>1, <1>2, <1>3

LEMMA ShipIs ==
  ASSUME LinkTyped, NEW f \in Frames, Ship(f)
  PROVE  /\ down' \in Seq(Frames) /\ Len(down') <= WireCap
         /\ (wire = "lost" \/ agent = "exited") => down' = down
         /\ ~(wire = "lost" \/ agent = "exited") => down' = Append(down, f)
<1>1. down \in Seq(Frames) /\ Len(down) <= WireCap /\ WireCap \in Nat
  BY LinkAssumption DEF LinkTyped
<1>2. CASE wire = "lost" \/ agent = "exited"
  BY <1>1, <1>2 DEF Ship
<1>3. CASE ~(wire = "lost" \/ agent = "exited")
  <2>1. Len(down) < WireCap /\ down' = Append(down, f)
    BY <1>3 DEF Ship
  <2> QED
    BY <1>1, <1>3, <2>1, Queued
<1> QED
  BY <1>2, <1>3

\* The frames and the jobs there are.
LEMMA FrameIs ==
  ASSUME NEW t \in FrameTypes, NEW n \in Nat
  PROVE  /\ Frame(t, n) \in Frames /\ Frame(t, n).t = t /\ Frame(t, n).seq = n
         /\ Frame(t, n).size = "fits"
BY DEF Frame, Frames

LEMMA JobIs == Nothing \in Chunks /\ NoJob \in Jobs /\ NoJob.wrote = Nothing /\ NoJob.piped = Nothing
<1>1. PipeCap \in Nat
  BY LinkAssumption
<1> QED
  BY <1>1 DEF Nothing, Chunks, NoJob, Jobs

-----------------------------------------------------------------------------
(* The types of the link *)

LEMMA LinkTypedStep == LinkTyped /\ SeqTyped /\ LinkMove => LinkTyped'
<1> SUFFICES ASSUME LinkTyped, SeqTyped, LinkMove PROVE LinkTyped'
  OBVIOUS
<1>0. {ChanCap, WireCap, PipeCap} \subseteq Nat \ {0} /\ Sizes \subseteq {"fits", "huge"}
      /\ Outputs \subseteq Chunks
  BY LinkAssumption DEF Chunks
<1>e. <<>> \in Seq(Frames) /\ Len(<<>>) = 0 /\ 0 <= WireCap /\ 0 <= ChanCap
  BY <1>0
<1>h. \A s \in Seq(Frames), n \in Nat :
        s # <<>> => /\ Tail(s) \in Seq(Frames) /\ Head(s) \in Frames
                    /\ Len(s) <= n => Len(Tail(s)) <= n
  BY Taken
<1>s. seq \in Nat
  BY DEF SeqTyped
<1>1. CASE UNCHANGED linkVars
  BY <1>1 DEF linkVars, LinkTyped
<1>2. CASE Concludes \/ Returns
  BY <1>2, JobIs DEF Concludes, Returns, LinkTyped
<1>3. CASE Connect
  BY <1>3, <1>e, JobIs DEF Connect, LinkTyped
<1>4. CASE Dispatch
  <2>1. Ship(Frame("dispatch", seq + 1)) /\ Frame("dispatch", seq + 1) \in Frames
    BY <1>4, <1>s, FrameIs DEF Dispatch, FrameTypes
  <2>2. down' \in Seq(Frames) /\ Len(down') <= WireCap
    BY <2>1, ShipIs
  <2> QED
    BY <1>4, <2>2, JobIs DEF Dispatch, LinkTyped
<1>5. CASE DispatchFails
  BY <1>5, JobIs DEF DispatchFails, EndsAs, LinkTyped
<1>6. CASE Goodbye
  <2>1. down' \in Seq(Frames) /\ Len(down') <= WireCap
    BY <1>6, FrameIs, ShipIs DEF Goodbye, FrameTypes, LinkTyped
  <2> QED
    BY <1>6, <2>1 DEF Goodbye, LinkTyped
<1>7. CASE NoHello \/ Interrupted
  BY <1>7 DEF NoHello, Interrupted, EndsAs, LinkTyped
<1>8. CASE ReadHello
  <2>1. down' \in Seq(Frames) /\ Len(down') <= WireCap
    BY <1>8, FrameIs, ShipIs DEF ReadHello, FrameTypes
  <2>2. up' \in Seq(Frames) /\ Len(up') <= WireCap
    BY <1>0, <1>8, <1>h DEF ReadHello, CanRead, LinkTyped
  <2> QED
    BY <1>8, <2>1, <2>2 DEF ReadHello, LinkTyped
<1>9. CASE ReadPong
  <2>2. up' \in Seq(Frames) /\ Len(up') <= WireCap
    BY <1>0, <1>9, <1>h DEF ReadPong, CanRead, LinkTyped
  <2> QED
    BY <1>9, <2>2 DEF ReadPong, LinkTyped
<1>10. CASE Receive
  <2>1. up' \in Seq(Frames) /\ Len(up') <= WireCap /\ Head(up) \in Frames
    BY <1>0, <1>10, <1>h DEF Receive, CanRead, LinkTyped
  <2>2. CASE ~Expected(Head(up)) \/ Head(up).t = "error"
    BY <1>10, <2>1, <2>2 DEF Receive, EndsAs, LinkTyped
  <2>3. CASE Expected(Head(up)) /\ Head(up).t \in Streams
    <3>1. ~(~Expected(Head(up)) \/ Head(up).t = "error")
      BY <2>3 DEF Streams
    <3>2. got' = [got EXCEPT ![Head(up).t] = @ + 1] /\ UNCHANGED <<ctl, answer>>
      BY <1>10, <2>3, <3>1 DEF Receive
    <3>3. got' \in Chunks
      BY <2>3, <3>2 DEF LinkTyped, Chunks
    <3> QED
      BY <1>10, <2>1, <3>2, <3>3 DEF Receive, LinkTyped
  <2>4. CASE Expected(Head(up)) /\ Head(up).t \in {"ok", "failed"}
    <3>1. Head(up).t \notin Streams /\ Head(up).t # "error"
      BY <2>4 DEF Streams
    <3> QED
      BY <1>10, <2>1, <2>4, <3>1 DEF Receive, EndsAs, LinkTyped
  <2> QED
    BY <2>2, <2>3, <2>4 DEF Expected
<1>11. CASE AgentHello
  <2>1. chan' \in Seq(Frames) /\ Len(chan') <= ChanCap
    BY <1>11, FrameIs, EmitIs DEF AgentHello, FrameTypes
  <2> QED
    BY <1>11, <2>1 DEF AgentHello, ctlVars, LinkTyped
<1>12. CASE AgentReads
  <2>1. down' \in Seq(Frames) /\ Len(down') <= WireCap /\ Head(down) \in Frames
    BY <1>0, <1>12, <1>h DEF AgentReads, LinkTyped
  <2>2. chan' \in Seq(Frames) /\ Len(chan') <= ChanCap
    BY <1>12, FrameIs, EmitIs DEF AgentReads, FrameTypes, LinkTyped
  <2>3. agent' \in {"read", "drain", "run"} /\ job' \in Jobs
    <3>1. \A o \in Outputs, t \in BOOLEAN :
            [NoJob EXCEPT !.seq = Head(down).seq, !.left = o, !.open = TRUE, !.timed = t] \in Jobs
      BY <1>0, <2>1, JobIs DEF Jobs, Frames
    <3> QED
      BY <1>12, <3>1 DEF AgentReads, LinkTyped
  <2> QED
    BY <1>12, <2>1, <2>2, <2>3 DEF AgentReads, ctlVars, LinkTyped
<1>13. CASE AgentEof \/ AgentExits
  BY <1>13 DEF AgentEof, AgentExits, ctlVars, LinkTyped
<1>14. CASE Answers
  <2>1. PICK t \in {"ok", "failed", "error"}, z \in Sizes :
          Emit([Frame(t, job.seq) EXCEPT !.size = z])
    BY <1>14 DEF Answers
  <2>2. [Frame(t, job.seq) EXCEPT !.size = z] \in Frames
    BY <1>0 DEF Frame, Frames, FrameTypes, LinkTyped, Jobs
  <2>3. chan' \in Seq(Frames) /\ Len(chan') <= ChanCap
    BY <2>1, <2>2, EmitIs
  <2>4. job' \in Jobs
    BY <1>14, JobIs DEF Answers, LinkTyped, Jobs
  <2> QED
    BY <1>14, <2>3, <2>4 DEF Answers, ctlVars, LinkTyped
<1>15. ASSUME NEW s \in Streams, Writes(s) PROVE LinkTyped'
  <2> DEFINE l == [job.left EXCEPT ![s] = @ - 1]
             q == [job.piped EXCEPT ![s] = @ + 1]
             o == [job.wrote EXCEPT ![s] = @ + 1]
  <2>0. job \in Jobs /\ job.left[s] > 0 /\ job.piped[s] < PipeCap /\ PipeCap \in Nat
    BY <1>0, <1>15 DEF Writes, LinkTyped
  <2>a. l \in Chunks /\ o \in Chunks
    BY <2>0 DEF Jobs, Chunks
  <2>b. q \in [Streams -> 0 .. PipeCap]
    BY <2>0 DEF Jobs
  <2>c. job' = [job EXCEPT !.left = l, !.piped = q, !.wrote = o]
    BY <1>15 DEF Writes
  <2> HIDE DEF l, q, o
  <2>1. job' \in Jobs
    BY <2>0, <2>a, <2>b, <2>c DEF Jobs
  <2> QED
    BY <1>15, <2>1 DEF Writes, ctlVars, LinkTyped
<1>16. CASE ChildEnds
  <2>1. job' \in Jobs
    BY <1>16 DEF ChildEnds, LinkTyped, Jobs
  <2> QED
    BY <1>16, <2>1 DEF ChildEnds, ctlVars, LinkTyped
<1>17. CASE PipesClose
  <2>1. job' \in Jobs
    BY <1>17 DEF PipesClose, LinkTyped, Jobs
  <2> QED
    BY <1>17, <2>1 DEF PipesClose, ctlVars, LinkTyped
<1>18. ASSUME NEW s \in Streams, Pump(s) PROVE LinkTyped'
  <2> DEFINE q == [job.piped EXCEPT ![s] = @ - 1]
  <2>0. job \in Jobs /\ job.piped[s] > 0 /\ PipeCap \in Nat
    BY <1>0, <1>18 DEF Pump, MayPump, LinkTyped
  <2>a. q \in [Streams -> 0 .. PipeCap]
    BY <2>0 DEF Jobs
  <2>b. job' = [job EXCEPT !.piped = q]
    BY <1>18 DEF Pump
  <2> HIDE DEF q
  <2>1. job' \in Jobs
    BY <2>0, <2>a, <2>b DEF Jobs
  <2>2. Frame(s, job.seq) \in Frames
    BY FrameIs DEF FrameTypes, LinkTyped, Jobs
  <2>3. chan' \in Seq(Frames) /\ Len(chan') <= ChanCap
    BY <1>18, <2>2, EmitIs DEF Pump
  <2> QED
    BY <1>18, <2>1, <2>3 DEF Pump, ctlVars, LinkTyped
<1>19. CASE Finishes
  <2>1. Frame(job.exit, job.seq) \in Frames
    BY <1>19, FrameIs DEF Finishes, Joined, FrameTypes, LinkTyped, Jobs
  <2>2. chan' \in Seq(Frames) /\ Len(chan') <= ChanCap
    BY <1>19, <2>1, EmitIs DEF Finishes
  <2> QED
    BY <1>19, <2>2 DEF Finishes, ctlVars, LinkTyped
<1>20. CASE WriterSends
  <2>1. CASE wire = "lost" \/ ctl = "over" \/ Head(chan).size = "huge"
    BY <1>20, <2>1, <1>e DEF WriterSends, ctlVars, LinkTyped
  <2>2. CASE ~(wire = "lost" \/ ctl = "over" \/ Head(chan).size = "huge")
    <3>1. up' = Append(up, Head(chan)) /\ chan' = Tail(chan) /\ Len(up) < WireCap
          /\ Head(chan) \in Frames /\ up \in Seq(Frames)
      BY <1>20, <2>2, <1>h, <1>0 DEF WriterSends, LinkTyped
    <3>2. up' \in Seq(Frames) /\ Len(up') <= WireCap
      BY <1>0, <3>1, Queued
    <3>3. chan' \in Seq(Frames) /\ Len(chan') <= ChanCap
      BY <1>0, <1>20, <3>1, <1>h DEF WriterSends, LinkTyped
    <3> QED
      BY <1>20, <2>2, <3>2, <3>3 DEF WriterSends, ctlVars, LinkTyped
  <2> QED
    BY <2>1, <2>2
<1>21. CASE Faults
  BY <1>21, <1>e DEF Faults, WireLost, AgentDies, ControllerDies, ctlVars, LinkTyped
<1> QED
  BY <1>1, <1>2, <1>3, <1>4, <1>5, <1>6, <1>7, <1>8, <1>9, <1>10, <1>11, <1>12, <1>13, <1>14,
     <1>15, <1>16, <1>17, <1>18, <1>19, <1>20, <1>21
     DEF LinkMove, ControllerReads, AgentSteps

-----------------------------------------------------------------------------
(* What the link holds apart from its phases *)

\* The agent, and what breaks, leave the controller where it is.
LEMMA AgentKeeps == AgentSteps \/ WireLost \/ AgentDies => UNCHANGED ctlVars
BY DEF AgentSteps, AgentHello, AgentReads, AgentEof, Answers, Writes, ChildEnds, PipesClose, Pump,
   Finishes, WriterSends, AgentExits, WireLost, AgentDies

LEMMA SeqTypedStep == LinkTyped /\ SeqTyped /\ LinkMove => SeqTyped'
<1> SUFFICES ASSUME LinkTyped, SeqTyped, LinkMove PROVE SeqTyped'
  OBVIOUS
<1>1. CASE UNCHANGED linkVars /\ attempt' \in {attempt, attempt + 1}
  <2>1. seq' = seq /\ ctl' = ctl /\ answer' = answer
    BY <1>1 DEF linkVars
  <2>2. seq \in Nat /\ attempt \in Nat /\ seq <= attempt + 1
    BY DEF SeqTyped
  <2>a. attempt' = attempt \/ attempt' = attempt + 1
    BY <1>1
  <2>3. attempt' \in Nat /\ seq' \in Nat /\ seq' <= attempt' + 1
    <3>1. CASE attempt' = attempt
      BY <2>1, <2>2, <3>1
    <3>2. CASE attempt' = attempt + 1
      BY <2>1, <2>2, <3>2
    <3> QED
      BY <2>a, <3>1, <3>2
  <2>4. ASSUME seq <= attempt PROVE seq' <= attempt'
    BY <2>a, <2>1, <2>2, <2>4
  <2> QED
    BY <2>1, <2>3, <2>4 DEF SeqTyped
<1>2. CASE Concludes \/ Returns
  BY <1>2 DEF Concludes, Returns, SeqTyped
<1>3. CASE attempt' = attempt /\ (AgentSteps \/ WireLost \/ AgentDies)
  BY <1>3, AgentKeeps DEF ctlVars, SeqTyped
<1>4. CASE attempt' = attempt /\ (Dispatch \/ DispatchFails)
  BY <1>4 DEF Dispatch, DispatchFails, EndsAs, SeqTyped
<1>5. CASE attempt' = attempt /\ (Connect \/ Goodbye \/ ControllerDies \/ ReadHello \/ ReadPong)
  BY <1>5 DEF Connect, Goodbye, ControllerDies, ReadHello, ReadPong, SeqTyped
<1>6. CASE attempt' = attempt /\ (NoHello \/ Interrupted)
  BY <1>6 DEF NoHello, Interrupted, EndsAs, SeqTyped
<1>7. CASE attempt' = attempt /\ Receive
  <2>1. Head(up).t # "unopened"
    BY <1>7, Taken DEF Receive, CanRead, LinkTyped, Frames, FrameTypes, Streams
  <2>2. ctl = "await" /\ ctl' \in {"await", "answered"} /\ seq' = seq
        /\ (answer' = "unopened" => answer = "unopened")
    BY <1>7, <2>1 DEF Receive, EndsAs
  <2> QED
    BY <1>7, <2>2 DEF SeqTyped
<1> QED
  BY <1>1, <1>2, <1>3, <1>4, <1>5, <1>6, <1>7 DEF LinkMove, ControllerReads, Faults

LEMMA EmptyStep == LinkTyped /\ Empty /\ LinkMove => Empty'
<1> SUFFICES ASSUME LinkTyped, Empty, LinkMove PROVE Empty'
  OBVIOUS
<1>1. CASE UNCHANGED linkVars \/ Concludes \/ Returns
  BY <1>1 DEF linkVars, Concludes, Returns, Empty
<1>2. CASE Connect
  BY <1>2 DEF Connect, Empty
<1>3. CASE Dispatch \/ DispatchFails \/ Goodbye
  BY <1>3 DEF Dispatch, DispatchFails, Goodbye, Ship, Empty
<1>4. CASE ControllerReads
  BY <1>4 DEF ControllerReads, NoHello, ReadHello, ReadPong, Receive, Interrupted, CanRead, Ship,
     Empty
<1>5. CASE AgentHello \/ AgentReads \/ Answers \/ Finishes
  BY <1>5 DEF AgentHello, AgentReads, Answers, Finishes, Emit, ctlVars, Empty
<1>6. ASSUME NEW s \in Streams, Writes(s) \/ Pump(s) PROVE Empty'
  BY <1>6 DEF Writes, Pump, Emit, ctlVars, Empty
<1>7. CASE AgentEof \/ ChildEnds \/ PipesClose \/ AgentExits
  BY <1>7 DEF AgentEof, ChildEnds, PipesClose, AgentExits, ctlVars, Empty
<1>8. CASE WriterSends
  BY <1>8 DEF WriterSends, ctlVars, Empty
<1>9. CASE Faults
  BY <1>9 DEF Faults, WireLost, AgentDies, ControllerDies, ctlVars, Empty
<1> QED
  BY <1>1, <1>2, <1>3, <1>4, <1>5, <1>6, <1>7, <1>8, <1>9 DEF LinkMove, AgentSteps

-----------------------------------------------------------------------------
(* The phases of an exchange *)

\* Output comes first, whatever is queued behind it or taken in front.
LEMMA OrderedQueued ==
  ASSUME NEW s \in Seq(Frames), NEW n, Ordered(s, n), ~Ends(s), NEW f \in Frames, f.seq = n,
         f.t \in Streams \cup {"ok", "failed", "error"}, f.t \in Streams => f.size = "fits"
  PROVE  Ordered(Append(s, f), n) /\ (Ends(Append(s, f)) <=> f.t \notin Streams)
<1> DEFINE a == Append(s, f)
<1>1. /\ a # <<>> /\ Len(s) \in Nat /\ Len(a) = Len(s) + 1
      /\ DOMAIN s = 1 .. Len(s) /\ DOMAIN a = 1 .. (Len(s) + 1)
      /\ \A i \in DOMAIN s : a[i] = s[i]
      /\ a[Len(s) + 1] = f
  BY Queued
<1> HIDE DEF a
<1>2. ASSUME NEW i \in DOMAIN s PROVE s[i].t \in Streams
  BY <1>1, <1>2, Row DEF Ordered, Ends
<1>3. ASSUME NEW i \in DOMAIN a
      PROVE  /\ a[i].seq = n /\ a[i].t \in Streams \cup {"ok", "failed", "error"}
             /\ a[i].t \in Streams => a[i].size = "fits"
             /\ i < Len(a) => a[i].t \in Streams
  <2>1. CASE i \in DOMAIN s
    BY <1>1, <1>2, <2>1 DEF Ordered
  <2>2. CASE i = Len(s) + 1
    BY <1>1, <2>2
  <2> QED
    BY <1>1, <2>1, <2>2
<1>4. Ordered(a, n)
  BY <1>3 DEF Ordered
<1>5. Ends(a) <=> f.t \notin Streams
  BY <1>1 DEF Ends
<1> QED
  BY <1>4, <1>5 DEF a

LEMMA OrderedTaken ==
  ASSUME NEW s \in Seq(Frames), s # <<>>, NEW n, Ordered(s, n)
  PROVE  /\ Ordered(Tail(s), n) /\ Head(s) \in Frames /\ Head(s).seq = n
         /\ Head(s).t \in Streams \cup {"ok", "failed", "error"}
         /\ Head(s).t \in Streams => Head(s).size = "fits" /\ (Ends(Tail(s)) <=> Ends(s))
         /\ Head(s).t \notin Streams => Ends(s) /\ Len(s) = 1 /\ Tail(s) = <<>>
<1> DEFINE a == Tail(s)
<1>1. /\ a \in Seq(Frames) /\ Len(s) \in Nat \ {0} /\ Len(a) = Len(s) - 1
      /\ DOMAIN s = 1 .. Len(s) /\ DOMAIN a = 1 .. (Len(s) - 1)
      /\ \A i \in DOMAIN a : a[i] = s[i + 1]
      /\ Head(s) = s[1] /\ Head(s) \in Frames
  BY Taken
<1>0. a = <<>> <=> Len(a) = 0
  BY <1>1, Row
<1> HIDE DEF a
<1>2. /\ Head(s).seq = n /\ Head(s).t \in Streams \cup {"ok", "failed", "error"}
      /\ Head(s).t \in Streams => Head(s).size = "fits"
      /\ 1 < Len(s) => Head(s).t \in Streams
  BY <1>1 DEF Ordered
<1>3. Ordered(a, n)
  <2>1. ASSUME NEW i \in DOMAIN a
        PROVE  i + 1 \in DOMAIN s /\ a[i] = s[i + 1] /\ (i < Len(a) => i + 1 < Len(s))
    BY <1>1
  <2> QED
    BY <2>1 DEF Ordered
<1>4. ASSUME Len(s) > 1 PROVE Ends(a) <=> Ends(s)
  <2>1. Len(a) \in DOMAIN a /\ Len(a) + 1 = Len(s) /\ a # <<>>
    BY <1>0, <1>1, <1>4
  <2> QED
    BY <1>1, <2>1 DEF Ends
<1>5. ASSUME Len(s) = 1 PROVE a = <<>> /\ ~Ends(a) /\ (Ends(s) <=> Head(s).t \notin Streams)
  BY <1>0, <1>1, <1>5 DEF Ends
<1>6. Len(s) = 1 \/ Len(s) > 1
  BY <1>1
<1> QED
  BY <1>1, <1>2, <1>3, <1>4, <1>5, <1>6 DEF a

\* Nothing under way is in order, and ends nothing.
LEMMA Nought == ASSUME NEW n PROVE Ordered(<<>>, n) /\ ~Ends(<<>>)
BY DEF Ordered, Ends

LEMMA SentNat ==
  ASSUME LinkTyped, NEW k \in Streams
  PROVE  /\ got[k] \in Nat /\ Count(up, k) \in Nat /\ Count(chan, k) \in Nat
         /\ job.piped[k] \in Nat /\ job.wrote[k] \in Nat
<1>1. got[k] \in Nat
  BY DEF LinkTyped, Chunks
<1>2. PipeCap \in Nat
  BY LinkAssumption
<1>3. job.piped[k] \in Nat /\ job.wrote[k] \in Nat
  BY <1>2 DEF LinkTyped, Jobs, Chunks
<1> QED
  BY <1>1, <1>3, CountNat DEF LinkTyped

\* The frame that ends an exchange is the last there is, and all the command
\* has written has come before it.
LEMMA LastFrame ==
  ASSUME LinkTyped, Exchange, up # <<>>, Head(up).t \notin Streams
  PROVE  /\ Tail(up) = <<>> /\ chan = <<>> /\ down = <<>> /\ got = job.wrote
         /\ agent \in {"read", "exited"} /\ (agent # "exited" => writer = "up")
<1>1. up \in Seq(Frames)
  BY DEF LinkTyped
<1>2. Ends(up) /\ Tail(up) = <<>>
  BY <1>1, OrderedTaken DEF Exchange
<1>3. /\ chan = <<>> /\ down = <<>> /\ agent \in {"read", "exited"}
      /\ (agent # "exited" => writer = "up")
      /\ \A k \in Streams : Sent(k) = job.wrote[k]
  BY <1>2 DEF Exchange
<1>4. ASSUME NEW k \in Streams PROVE got[k] = job.wrote[k]
  <2>1. Count(up, k) = Count(Tail(up), k) + (IF Head(up).t = k THEN 1 ELSE 0)
    BY <1>1, CountTaken
  <2>a. Head(up).t # k
    OBVIOUS
  <2>b. Count(Tail(up), k) = 0
    BY <1>2, CountNone
  <2>2. Count(up, k) = 0
    BY <2>1, <2>a, <2>b
  <2>3. Count(chan, k) = 0
    BY <1>3, CountNone
  <2> QED
    BY <1>3, <2>2, <2>3, SentNat DEF Sent
<1>5. got = job.wrote
  <2>1. got \in [Streams -> Nat] /\ job.wrote \in [Streams -> Nat]
    BY DEF LinkTyped, Jobs, Chunks
  <2> QED
    BY <1>4, <2>1
<1> QED
  BY <1>2, <1>3, <1>5

\* The phases before and after an exchange.
LEMMA Calm ==
  ASSUME LinkTyped, Empty, Arrived, Phased,
         \/ UNCHANGED linkVars \/ Concludes \/ Returns
         \/ Connect \/ DispatchFails \/ Goodbye \/ NoHello \/ Interrupted
         \/ WireLost \/ ControllerDies
  PROVE  Arrived' /\ Phased'
<1>1. CASE UNCHANGED linkVars
  BY <1>1 DEF linkVars, Arrived, Phased, Silent, Opening, Exchange, Sent, Count, Ends, Ordered
<1>2. CASE Concludes \/ DispatchFails
  BY <1>2 DEF Concludes, DispatchFails, EndsAs, Arrived, Phased, Silent
<1>3. CASE Returns \/ Goodbye \/ ControllerDies
  BY <1>3 DEF Returns, Goodbye, ControllerDies, Arrived, Phased
<1>4. CASE Connect
  <2>1. Opening'
    <3>1. up' = <<>> /\ chan' = <<>> /\ down' = <<>> /\ agent' = "hello" /\ writer' = "up" /\ ctl' = "greet"
      BY <1>4 DEF Connect
    <3>2. Len(up') + Len(chan') <= 1
      BY <3>1
    <3> QED
      BY <3>1, <3>2 DEF Opening
  <2> QED
    BY <1>4, <2>1 DEF Connect, Arrived, Phased
<1>5. CASE NoHello
  BY <1>5 DEF NoHello, AtEof, EndsAs, Arrived, Phased, Opening, Silent
<1>6. CASE Interrupted
  BY <1>6 DEF Interrupted, AtEof, EndsAs, Arrived, Phased, Exchange, Silent
<1>7. CASE WireLost
  BY <1>7 DEF WireLost, ctlVars, Arrived, Phased
<1> QED
  BY <1>1, <1>2, <1>3, <1>4, <1>5, <1>6, <1>7

\* The agent dies: what it had queued is gone, what it had sent is not.
LEMMA Dead ==
  ASSUME LinkTyped, Empty, Arrived, Phased, AgentDies
  PROVE  Arrived' /\ Phased'
<1>1. /\ agent \in {"hello", "read", "run"} /\ agent' = "exited" /\ chan' = <<>> /\ writer' = "gone"
      /\ down' = <<>> /\ UNCHANGED <<ctl, seq, got, answer, wire, up, job>>
  BY DEF AgentDies, ctlVars
<1>2. Arrived'
  BY <1>1 DEF Arrived
<1>3. ASSUME Silent PROVE Silent'
  BY <1>1, <1>3 DEF Silent
<1>4. ASSUME Opening PROVE Opening'
  <2>1. Len(up) \in Nat /\ Len(chan) \in Nat /\ up \in Seq(Frames)
    BY Row DEF LinkTyped
  <2>2. Len(up') + Len(chan') <= 1
    BY <1>1, <1>4, <2>1 DEF Opening
  <2> QED
    BY <1>1, <1>4, <2>2 DEF Opening
<1>5. ASSUME Exchange PROVE Exchange'
  <2>1. Ordered(up', seq') /\ Ordered(chan', seq') /\ ~Ends(chan') /\ (Ends(up') => Ends(up))
    BY <1>1, <1>5, Nought DEF Exchange
  <2>2. ASSUME Ends(up'), NEW k \in Streams PROVE Sent(k)' = job'.wrote[k]
    <3>1. Ends(up) /\ chan = <<>> /\ Sent(k) = job.wrote[k]
      BY <2>1, <2>2, <1>5 DEF Exchange
    <3> QED
      BY <1>1, <3>1 DEF Sent
  <2> QED
    BY <1>1, <2>1, <2>2 DEF Exchange
<1> QED
  BY <1>1, <1>2, <1>3, <1>4, <1>5 DEF Phased

\* What the agent does between exchanges: nothing on a connection that stands.
LEMMA SilentStep ==
  ASSUME LinkTyped, Empty, Silent, AgentSteps, wire = "up", ctl \in {"idle", "answered"}
  PROVE  FALSE
<1>1. up = <<>> /\ down = <<>> /\ chan = <<>> /\ agent \in {"read", "exited"}
  BY DEF Silent, Empty
<1> QED
  BY <1>1 DEF AgentSteps, AgentHello, AgentReads, AgentEof, Answers, Writes, ChildEnds, PipesClose,
     Pump, Finishes, WriterSends, AgentExits

\* Nor does it touch what it has answered.
LEMMA ArrivedStep ==
  ASSUME LinkTyped, Empty, Arrived, Phased, AgentSteps
  PROVE  Arrived'
<1>1. UNCHANGED ctlVars
  BY AgentKeeps
<1>2. CASE ~(ctl = "answered" /\ answer \in {"ok", "failed"})
  BY <1>1, <1>2 DEF ctlVars, Arrived
<1>3. CASE ctl = "answered" /\ answer \in {"ok", "failed"}
  <2>1. got = job.wrote /\ down = <<>> /\ agent \in {"read", "drain", "exited"} /\ wire \in {"up", "lost"}
    BY <1>3 DEF Arrived, LinkTyped
  <2>2. job' = job /\ down' = down /\ agent' \in {"read", "drain", "exited"}
    BY <2>1 DEF AgentSteps, AgentHello, AgentReads, AgentEof, Answers, Writes, ChildEnds,
       PipesClose, Pump, Finishes, WriterSends, AgentExits
  <2> QED
    BY <1>1, <2>1, <2>2 DEF ctlVars, Arrived
<1> QED
  BY <1>2, <1>3

\* One frame in a row is its first.
LEMMA Single ==
  ASSUME NEW f
  PROVE  LET a == Append(<<>>, f) IN
           a # <<>> /\ Len(a) = 1 /\ Head(a) = f /\ DOMAIN a = {1} /\ a[1] = f
OBVIOUS

\* The opening, at the agent's end.
LEMMA OpeningStep ==
  ASSUME LinkTyped, Empty, Opening, AgentSteps, wire = "up", ctl \in {"greet", "probe"}
  PROVE  Opening'
<1>1. /\ agent \in {"hello", "read", "exited"} /\ (agent # "exited" => writer = "up")
      /\ Len(up) + Len(chan) <= 1
      /\ \A i \in DOMAIN chan : chan[i].size = "fits"
      /\ agent = "hello" => up = <<>> /\ chan = <<>> /\ ctl = "greet"
      /\ ctl = "greet" \/ agent = "exited" => down = <<>>
      /\ down # <<>> => up = <<>> /\ chan = <<>> /\ Len(down) = 1 /\ Head(down).t = "ping"
      /\ agent = "exited" => chan = <<>>
  BY DEF Opening, Empty
<1>2. {up, down, chan} \subseteq Seq(Frames)
  BY DEF LinkTyped
<1>3. UNCHANGED ctlVars
  BY AgentKeeps
<1>f. Len(<<>>) = 0
  OBVIOUS
<1>4. CASE AgentHello
  <2> DEFINE f == Frame("hello", 0)
  <2>1. agent = "hello" /\ Emit(f) /\ agent' = "read" /\ UNCHANGED <<wire, down, up, writer, job>>
    BY <1>4 DEF AgentHello
  <2>2. f \in Frames /\ f.size = "fits"
    BY FrameIs DEF FrameTypes
  <2>3. chan' = Append(<<>>, f) /\ up' = <<>> /\ down' = <<>> /\ writer' = "up"
    BY <1>1, <2>1, <2>2, EmitIs
  <2> HIDE DEF f
  <2>4. Len(chan') = 1 /\ \A i \in DOMAIN chan' : chan'[i].size = "fits"
    BY <2>2, <2>3, Single
  <2>5. Len(up') + Len(chan') <= 1
    BY <1>f, <2>3, <2>4
  <2> QED
    BY <2>1, <2>3, <2>4, <2>5 DEF Opening
<1>5. CASE AgentReads
  <2> DEFINE f == Frame("pong", 0)
  <2>1. agent = "read" /\ down # <<>> /\ down' = Tail(down) /\ UNCHANGED <<wire, up, writer>>
    BY <1>5 DEF AgentReads
  <2>2. up = <<>> /\ chan = <<>> /\ Len(down) = 1 /\ Head(down).t = "ping" /\ writer = "up"
    BY <1>1, <2>1
  <2>3. Emit(f) /\ UNCHANGED <<agent, job>>
    BY <1>5, <2>2 DEF AgentReads
  <2>4. f \in Frames /\ f.size = "fits"
    BY FrameIs DEF FrameTypes
  <2>5. chan' = Append(<<>>, f)
    BY <2>2, <2>3, <2>4, EmitIs
  <2>6. down' = <<>>
    <3>1. Len(Tail(down)) = 0 /\ Tail(down) \in Seq(Frames)
      BY <1>2, <2>1, <2>2, Taken
    <3> QED
      BY <2>1, <3>1, Row
  <2> HIDE DEF f
  <2>7. Len(chan') = 1 /\ \A i \in DOMAIN chan' : chan'[i].size = "fits"
    BY <2>4, <2>5, Single
  <2>8. Len(up') + Len(chan') <= 1
    BY <1>f, <2>1, <2>2, <2>7
  <2> QED
    BY <2>1, <2>2, <2>3, <2>6, <2>7, <2>8 DEF Opening
<1>6. CASE WriterSends
  <2>1. writer = "up" /\ chan # <<>> /\ UNCHANGED <<wire, down, agent, job>>
    BY <1>6 DEF WriterSends
  <2>2. /\ Len(chan) \in Nat \ {0} /\ DOMAIN chan = 1 .. Len(chan) /\ Head(chan) = chan[1]
        /\ Head(chan) \in Frames /\ Tail(chan) \in Seq(Frames) /\ Len(Tail(chan)) = Len(chan) - 1
    BY <1>2, <2>1, Taken
  <2>3. Len(up) \in Nat /\ (up = <<>> <=> Len(up) = 0)
    BY <1>2, Row
  <2>4. Len(chan) = 1 /\ up = <<>>
    BY <1>1, <2>2, <2>3
  <2>5. Head(chan).size = "fits"
    BY <1>1, <2>2, <2>4
  <2>6. up' = Append(<<>>, Head(chan)) /\ chan' = Tail(chan) /\ UNCHANGED writer
    BY <1>6, <2>4, <2>5 DEF WriterSends
  <2>7. chan' = <<>> /\ Len(up') = 1
    BY <2>2, <2>4, <2>6, Row, Single
  <2>8. Len(up') + Len(chan') <= 1
    BY <1>f, <2>7
  <2>9. agent = "read" /\ down = <<>>
    BY <1>1, <2>1
  <2> QED
    BY <1>1, <2>1, <2>6, <2>7, <2>8, <2>9 DEF Opening
<1>7. AgentHello \/ AgentReads \/ WriterSends
  BY <1>1 DEF AgentSteps, AgentEof, Answers, Writes, ChildEnds, PipesClose, Pump, Finishes, AgentExits
<1> QED
  BY <1>4, <1>5, <1>6, <1>7

\* And at the controller's: the Hello, the ping, and whatever came of it.
LEMMA Opened ==
  ASSUME LinkTyped, Empty, Arrived, Phased, ReadHello \/ ReadPong
  PROVE  Arrived' /\ Phased'
<1>1. Arrived'
  BY DEF ReadHello, ReadPong, Arrived
<1>2. {up, down, chan} \subseteq Seq(Frames) /\ wire \in {"up", "lost"}
  BY DEF LinkTyped
<1>u. ASSUME Opening, up # <<>>
      PROVE  /\ Tail(up) = <<>> /\ chan = <<>> /\ down = <<>> /\ agent \in {"read", "exited"}
             /\ agent # "exited" => writer = "up"
  <2>1. Len(up) \in Nat \ {0} /\ Tail(up) \in Seq(Frames) /\ Len(Tail(up)) = Len(up) - 1
    BY <1>2, <1>u, Taken
  <2>2. Len(chan) \in Nat /\ (chan = <<>> <=> Len(chan) = 0) /\ Len(up) + Len(chan) <= 1
    BY <1>2, <1>u, Row DEF Opening
  <2>3. Len(Tail(up)) = 0 /\ chan = <<>>
    BY <2>1, <2>2
  <2> QED
    BY <1>u, <2>1, <2>3, Row DEF Opening
<1>3. CASE wire = "lost"
  BY <1>1, <1>3 DEF ReadHello, ReadPong, Phased
<1>4. CASE wire = "up" /\ ReadHello
  <2> DEFINE f == Frame("ping", 0)
  <2>1. /\ ctl = "greet" /\ up # <<>> /\ ctl' = "probe" /\ up' = Tail(up) /\ Ship(f)
        /\ UNCHANGED <<wire, agent, chan, writer>> /\ Opening
    BY <1>4 DEF ReadHello, CanRead, Phased
  <2>2. /\ up' = <<>> /\ chan = <<>> /\ down = <<>> /\ agent \in {"read", "exited"}
        /\ agent # "exited" => writer = "up"
    BY <1>u, <2>1
  <2>3. f \in Frames /\ f.t = "ping"
    BY FrameIs DEF FrameTypes
  <2>4. IF agent = "exited" THEN down' = <<>> ELSE down' = Append(<<>>, f)
    BY <1>4, <2>1, <2>2, <2>3, ShipIs
  <2> HIDE DEF f
  <2>5. down' # <<>> => Len(down') = 1 /\ Head(down').t = "ping" /\ agent # "exited"
    BY <2>3, <2>4, Single
  <2>6. Len(up') + Len(chan') <= 1 /\ \A i \in DOMAIN chan' : chan'[i].size = "fits"
    <3>1. up' = <<>> /\ chan' = <<>>
      BY <2>1, <2>2
    <3>2. Len(<<>>) = 0 /\ DOMAIN <<>> = {}
      OBVIOUS
    <3> QED
      BY <3>1, <3>2
  <2>7. Opening'
    BY <2>1, <2>2, <2>5, <2>6 DEF Opening
  <2> QED
    BY <1>1, <2>1, <2>7 DEF Phased
<1>5. CASE wire = "up" /\ ReadPong
  <2>1. /\ ctl = "probe" /\ ctl' = "idle" /\ UNCHANGED <<wire, down, agent, chan, writer>> /\ Opening
    BY <1>5 DEF ReadPong, Phased
  <2>2. CASE up # <<>>
    BY <1>5, <1>u, <2>1, <2>2 DEF ReadPong, CanRead, Silent, Phased, Arrived
  <2>3. CASE up = <<>>
    BY <1>5, <2>1, <2>3 DEF ReadPong, CanRead, AtEof, Opening, Silent, Phased, Arrived
  <2> QED
    BY <2>2, <2>3
<1> QED
  BY <1>2, <1>3, <1>4, <1>5

\* A new exchange begins in silence.
LEMMA Begun ==
  ASSUME LinkTyped, SeqTyped, Empty, Arrived, Phased, Dispatch
  PROVE  Arrived' /\ Phased'
<1> DEFINE f == Frame("dispatch", seq + 1)
<1>1. /\ ctl = "idle" /\ ctl' = "await" /\ seq' = seq + 1 /\ got' = Nothing /\ Ship(f)
      /\ UNCHANGED <<answer, wire, up, agent, chan, writer, job>>
  BY DEF Dispatch
<1>2. f \in Frames /\ f.t = "dispatch" /\ f.seq = seq'
  BY <1>1, FrameIs DEF FrameTypes, SeqTyped
<1>3. ASSUME wire = "up" PROVE Exchange'
  <2>1. Silent
    BY <1>1, <1>3 DEF Phased
  <2>2. up = <<>> /\ down = <<>> /\ chan = <<>> /\ agent \in {"read", "exited"}
        /\ (agent # "exited" => writer = "up")
    BY <2>1 DEF Silent, Empty
  <2>3. IF agent = "exited" THEN down' = <<>> ELSE down' = Append(<<>>, f)
    BY <1>1, <1>2, <1>3, <2>2, ShipIs
  <2> HIDE DEF f
  <2>4. down' # <<>> => Len(down') = 1 /\ Head(down') = f /\ agent # "exited"
    BY <2>3, Single
  <2>5. up' = <<>> /\ chan' = <<>> /\ Ordered(up', seq') /\ Ordered(chan', seq') /\ ~Ends(up') /\ ~Ends(chan')
    BY <1>1, <2>2, Nought
  <2> QED
    BY <1>1, <1>2, <2>2, <2>3, <2>4, <2>5 DEF Exchange
<1> QED
  BY <1>1, <1>3 DEF Arrived, Phased

\* What is read is of this exchange: a chunk leaves it open, an answer ends it.
LEMMA Received ==
  ASSUME LinkTyped, Empty, Arrived, Phased, Receive
  PROVE  Arrived' /\ Phased'
<1> DEFINE f == Head(up)
<1>1. /\ ctl = "await" /\ wire = "up" /\ up # <<>> /\ up' = Tail(up)
      /\ UNCHANGED <<seq, wire, down, agent, chan, writer, job>> /\ Exchange
  BY DEF Receive, CanRead, Phased
<1>2. up \in Seq(Frames)
  BY DEF LinkTyped
<1>3. /\ Ordered(Tail(up), seq) /\ f \in Frames /\ f.seq = seq
      /\ f.t \in Streams \cup {"ok", "failed", "error"}
      /\ f.t \in Streams => (Ends(Tail(up)) <=> Ends(up))
  BY <1>1, <1>2, OrderedTaken DEF Exchange
<1>4. CASE f.t \in Streams
  <2>1. got' = [got EXCEPT ![f.t] = @ + 1] /\ UNCHANGED <<ctl, answer>>
    BY <1>3, <1>4 DEF Receive, Expected, Streams
  <2>2. ASSUME NEW k \in Streams PROVE Sent(k)' = Sent(k)
    <3>1. Count(up, k) = Count(up', k) + (IF f.t = k THEN 1 ELSE 0)
      BY <1>1, <1>2, CountTaken
    <3>2. Count(chan', k) = Count(chan, k)
      BY <1>1
    <3>3. got[k] \in Nat /\ Count(chan, k) \in Nat /\ got \in Chunks
      BY SentNat DEF LinkTyped
    <3>4. Count(up', k) \in Nat
      BY <1>1, <1>2, Taken, CountNat
    <3>5. CASE f.t = k
      <4>1. Count(up, k) = Count(up', k) + 1
        BY <3>1, <3>5
      <4>2. got'[k] = got[k] + 1
        BY <2>1, <3>3, <3>5 DEF Chunks
      <4> QED
        BY <3>2, <3>3, <3>4, <4>1, <4>2 DEF Sent
    <3>6. CASE f.t # k
      <4>1. Count(up, k) = Count(up', k) + 0
        BY <3>1, <3>6
      <4>2. got'[k] = got[k]
        BY <1>4, <2>1, <3>3, <3>6 DEF Chunks
      <4> QED
        BY <3>2, <3>3, <3>4, <4>1, <4>2 DEF Sent
    <3> QED
      BY <3>5, <3>6
  <2>3. down = <<>> /\ down' = <<>>
    BY <1>1 DEF Exchange
  <2>4. /\ Ordered(up', seq') /\ Ordered(chan', seq')
        /\ (Ends(up') <=> Ends(up)) /\ (Ends(chan') <=> Ends(chan))
    BY <1>1, <1>3, <1>4 DEF Exchange
  <2>5. Exchange'
    BY <1>1, <2>2, <2>3, <2>4 DEF Exchange
  <2> QED
    BY <1>1, <2>1, <2>5 DEF Arrived, Phased
<1>5. CASE f.t \in {"ok", "failed", "error"}
  <2>1. f.t \notin Streams
    BY <1>5 DEF Streams
  <2>2. ctl' = "answered" /\ answer' \in {f.t, "lost"} /\ got' = got
    BY <1>3, <1>5, <2>1 DEF Receive, EndsAs
  <2>3. /\ Tail(up) = <<>> /\ chan = <<>> /\ down = <<>> /\ got = job.wrote
        /\ agent \in {"read", "exited"} /\ (agent # "exited" => writer = "up")
    BY <1>1, <2>1, LastFrame
  <2> QED
    BY <1>1, <2>2, <2>3 DEF Arrived, Silent, Phased
<1> QED
  BY <1>3, <1>4, <1>5

\* An answer is queued behind all its command has written.
LEMMA AnswerQueued ==
  ASSUME LinkTyped, Empty, Exchange, agent = "run", NEW f \in Frames, f.seq = seq,
         f.t \in {"ok", "failed", "error"}, \A k \in Streams : job.piped[k] = 0,
         Emit(f), agent' = "read", job'.wrote = job.wrote, UNCHANGED <<ctlVars, wire, down, up, writer>>
  PROVE  Exchange'
<1>1. chan \in Seq(Frames)
  BY DEF LinkTyped
<1>2. /\ Ordered(up, seq) /\ Ordered(chan, seq) /\ ~Ends(up) /\ ~Ends(chan)
      /\ writer = "up" /\ down = <<>>
      /\ \A k \in Streams : Sent(k) + job.piped[k] = job.wrote[k]
  BY DEF Exchange
<1>3. chan' = Append(chan, f)
  BY <1>2, EmitIs
<1>4. f.t \notin Streams
  BY DEF Streams
<1>5. Ordered(chan', seq') /\ Ends(chan') /\ Ordered(up', seq') /\ ~Ends(up')
  BY <1>1, <1>2, <1>3, <1>4, OrderedQueued DEF ctlVars
<1>6. ASSUME NEW k \in Streams PROVE Sent(k)' = job'.wrote[k]
  <2>1. Count(chan', k) = Count(chan, k) + (IF f.t = k THEN 1 ELSE 0)
    BY <1>1, <1>3, CountQueued
  <2>2. f.t # k
    BY <1>4
  <2>3. Count(chan', k) = Count(chan, k) + 0
    BY <2>1, <2>2
  <2>4. got'[k] = got[k] /\ Count(up', k) = Count(up, k)
    BY DEF ctlVars
  <2>5. Sent(k) + 0 = job.wrote[k]
    BY <1>2
  <2> QED
    BY <2>3, <2>4, <2>5, SentNat DEF Sent
<1> QED
  BY <1>2, <1>5, <1>6 DEF Exchange, ctlVars

\* A command that goes on: what it writes is in its pipes or sent.
LEMMA RunsOn ==
  ASSUME LinkTyped, Exchange, agent = "run", agent' = "run", job'.seq = job.seq,
         Ordered(chan', seq), ~Ends(chan'), UNCHANGED <<ctlVars, wire, down, up, writer>>,
         \A k \in Streams : Sent(k)' + job'.piped[k] = job'.wrote[k]
  PROVE  Exchange'
<1>1. /\ Ordered(up, seq) /\ ~Ends(up) /\ writer = "up" /\ down = <<>> /\ job.seq = seq
  BY DEF Exchange
<1>2. Ordered(up', seq') /\ Ordered(chan', seq') /\ ~Ends(up')
  BY <1>1 DEF ctlVars
<1> QED
  BY <1>1, <1>2 DEF Exchange, ctlVars

\* An exchange, at the agent's end.
LEMMA ExchangeStep ==
  ASSUME LinkTyped, SeqTyped, Empty, Exchange, AgentSteps, wire = "up", ctl = "await"
  PROVE  Exchange'
<1>1. {up, down, chan} \subseteq Seq(Frames) /\ job \in Jobs /\ PipeCap \in Nat
  BY LinkAssumption DEF LinkTyped
<1>2. UNCHANGED ctlVars
  BY AgentKeeps
<1>3. CASE AgentReads
  <2>1. /\ agent = "read" /\ down # <<>> /\ down' = Tail(down) /\ UNCHANGED <<wire, up, writer>>
        /\ Len(down) = 1 /\ Head(down).t = "dispatch" /\ Head(down).seq = seq
        /\ writer = "up" /\ up = <<>> /\ chan = <<>> /\ got = Nothing
    BY <1>3 DEF AgentReads, Exchange
  <2>2. /\ agent' = "run" /\ UNCHANGED chan
        /\ \E o \in Outputs, t \in BOOLEAN :
             job' = [NoJob EXCEPT !.seq = Head(down).seq, !.left = o, !.open = TRUE, !.timed = t]
    BY <1>3, <2>1 DEF AgentReads
  <2>3. job'.seq = seq /\ job'.piped = Nothing /\ job'.wrote = Nothing
    BY <2>1, <2>2 DEF NoJob
  <2>4. down' = <<>>
    <3>1. Len(Tail(down)) = 0 /\ Tail(down) \in Seq(Frames)
      BY <1>1, <2>1, Taken
    <3> QED
      BY <2>1, <3>1, Row
  <2>5. /\ Ordered(up', seq') /\ Ordered(chan', seq') /\ ~Ends(up') /\ ~Ends(chan')
        /\ up' = <<>> /\ chan' = <<>> /\ seq' = seq /\ got' = Nothing
    BY <1>2, <2>1, <2>2, Nought DEF ctlVars
  <2>6. ASSUME NEW k \in Streams PROVE Sent(k)' + job'.piped[k] = job'.wrote[k]
    <3>1. got'[k] = 0 /\ job'.piped[k] = 0 /\ job'.wrote[k] = 0
      BY <2>3, <2>5 DEF Nothing
    <3>2. Count(up', k) = 0 /\ Count(chan', k) = 0
      BY <2>5, CountNone
    <3> QED
      BY <3>1, <3>2 DEF Sent
  <2> QED
    BY <2>1, <2>2, <2>3, <2>4, <2>5, <2>6 DEF Exchange
<1>4. CASE Answers
  <2>1. agent = "run" /\ job.wrote = Nothing /\ agent' = "read" /\ job'.wrote = job.wrote
        /\ UNCHANGED <<ctlVars, wire, down, up, writer>>
    BY <1>1, <1>4 DEF Answers, Jobs
  <2>2. PICK t \in {"ok", "failed", "error"}, z \in Sizes :
          Emit([Frame(t, job.seq) EXCEPT !.size = z])
    BY <1>4 DEF Answers
  <2> DEFINE f == [Frame(t, job.seq) EXCEPT !.size = z]
  <2>3. f \in Frames /\ f.seq = job.seq /\ f.t = t
    BY <1>1, LinkAssumption DEF Frame, Frames, FrameTypes, Jobs
  <2>4. Emit(f)
    BY <2>2
  <2> HIDE DEF f
  <2>5. job.seq = seq
    BY <2>1 DEF Exchange
  <2>6. ASSUME NEW k \in Streams PROVE job.piped[k] = 0
    <3>1. Sent(k) + job.piped[k] = job.wrote[k] /\ job.wrote[k] = 0
      BY <2>1 DEF Exchange, Nothing
    <3> QED
      BY <3>1, SentNat DEF Sent
  <2> QED
    BY <2>1, <2>2, <2>3, <2>4, <2>5, <2>6, AnswerQueued
<1>5. ASSUME NEW s \in Streams, Writes(s) PROVE Exchange'
  <2>1. agent = "run" /\ UNCHANGED <<ctlVars, wire, down, up, agent, chan, writer>>
    BY <1>5 DEF Writes
  <2>2. /\ job'.seq = job.seq /\ job'.piped = [job.piped EXCEPT ![s] = @ + 1]
        /\ job'.wrote = [job.wrote EXCEPT ![s] = @ + 1]
    BY <1>1, <1>5 DEF Writes, Jobs
  <2>3. Ordered(chan', seq) /\ ~Ends(chan')
    BY <2>1 DEF Exchange
  <2>4. ASSUME NEW k \in Streams PROVE Sent(k)' + job'.piped[k] = job'.wrote[k]
    <3>1. Sent(k)' = Sent(k)
      BY <2>1 DEF Sent, ctlVars
    <3>2. Sent(k) + job.piped[k] = job.wrote[k]
      BY <2>1 DEF Exchange
    <3>3. job.piped \in [Streams -> Nat] /\ job.wrote \in [Streams -> Nat]
      BY <1>1 DEF Jobs, Chunks
    <3>4. Sent(k) \in Nat
      BY SentNat DEF Sent
    <3> QED
      BY <2>2, <3>1, <3>2, <3>3, <3>4
  <2> QED
    BY <2>1, <2>2, <2>3, <2>4, RunsOn
<1>6. CASE ChildEnds \/ PipesClose
  <2>1. agent = "run" /\ UNCHANGED <<ctlVars, wire, down, up, agent, chan, writer>>
    BY <1>6 DEF ChildEnds, PipesClose
  <2>2. job'.seq = job.seq /\ job'.piped = job.piped /\ job'.wrote = job.wrote
    BY <1>1, <1>6 DEF ChildEnds, PipesClose, Jobs
  <2>3. Ordered(chan', seq) /\ ~Ends(chan')
    BY <2>1 DEF Exchange
  <2>4. ASSUME NEW k \in Streams PROVE Sent(k)' + job'.piped[k] = job'.wrote[k]
    <3>1. Sent(k)' = Sent(k)
      BY <2>1 DEF Sent, ctlVars
    <3>2. Sent(k) + job.piped[k] = job.wrote[k]
      BY <2>1 DEF Exchange
    <3> QED
      BY <2>2, <3>1, <3>2
  <2> QED
    BY <2>1, <2>2, <2>3, <2>4, RunsOn
<1>7. ASSUME NEW s \in Streams, Pump(s) PROVE Exchange'
  <2> DEFINE f == Frame(s, job.seq)
  <2>1. agent = "run" /\ job.piped[s] > 0 /\ Emit(f) /\ UNCHANGED <<ctlVars, wire, down, up, agent, writer>>
    BY <1>7 DEF Pump, MayPump
  <2>2. /\ job'.seq = job.seq /\ job'.piped = [job.piped EXCEPT ![s] = @ - 1] /\ job'.wrote = job.wrote
    BY <1>1, <1>7 DEF Pump, Jobs
  <2>3. job.seq = seq /\ writer = "up" /\ Ordered(chan, seq) /\ ~Ends(chan)
    BY <2>1 DEF Exchange
  <2>4. f \in Frames /\ f.t = s /\ f.seq = seq /\ f.size = "fits"
    <3>1. s \in FrameTypes /\ job.seq \in Nat
      BY <1>1 DEF FrameTypes, Jobs
    <3> QED
      BY <2>3, <3>1, FrameIs
  <2>5. chan' = Append(chan, f)
    BY <2>1, <2>3, <2>4, EmitIs
  <2> HIDE DEF f
  <2>6. Ordered(chan', seq) /\ ~Ends(chan')
    BY <1>1, <2>3, <2>4, <2>5, OrderedQueued
  <2>7. ASSUME NEW k \in Streams PROVE Sent(k)' + job'.piped[k] = job'.wrote[k]
    <3>1. Sent(k) + job.piped[k] = job.wrote[k]
      BY <2>1 DEF Exchange
    <3>2. Count(chan', k) = Count(chan, k) + (IF f.t = k THEN 1 ELSE 0)
      BY <1>1, <2>4, <2>5, CountQueued
    <3>3. got'[k] = got[k] /\ Count(up', k) = Count(up, k)
      BY <2>1 DEF ctlVars
    <3>4. job.piped \in [Streams -> Nat]
      BY <1>1 DEF Jobs
    <3>5. CASE k = s
      <4>1. Count(chan', k) = Count(chan, k) + 1 /\ job'.piped[k] = job.piped[k] - 1
        BY <2>2, <2>4, <3>2, <3>4, <3>5
      <4> QED
        BY <2>2, <3>1, <3>3, <4>1, SentNat DEF Sent
    <3>6. CASE k # s
      <4>1. Count(chan', k) = Count(chan, k) + 0 /\ job'.piped[k] = job.piped[k]
        BY <2>2, <2>4, <3>2, <3>4, <3>6
      <4> QED
        BY <2>2, <3>1, <3>3, <4>1, SentNat DEF Sent
    <3> QED
      BY <3>5, <3>6
  <2> QED
    BY <2>1, <2>2, <2>6, <2>7, RunsOn
<1>8. CASE Finishes
  <2> DEFINE f == Frame(job.exit, job.seq)
  <2>1. /\ agent = "run" /\ job.exit # "none" /\ job.piped = Nothing /\ Emit(f) /\ agent' = "read"
        /\ UNCHANGED <<ctlVars, wire, down, up, writer, job>>
    BY <1>8 DEF Finishes, Joined
  <2>2. job.exit \in {"ok", "failed", "error"} /\ job.seq = seq
    BY <1>1, <2>1 DEF Jobs, Exchange
  <2>3. f \in Frames /\ f.t = job.exit /\ f.seq = seq
    BY <1>1, <2>2, FrameIs DEF FrameTypes, Jobs
  <2>4. \A k \in Streams : job.piped[k] = 0
    BY <2>1 DEF Nothing
  <2> QED
    BY <2>1, <2>2, <2>3, <2>4, AnswerQueued
<1>9. CASE WriterSends
  <2> DEFINE h == Head(chan)
  <2>1. writer = "up" /\ chan # <<>> /\ UNCHANGED <<ctlVars, wire, down, agent, job>>
    BY <1>9 DEF WriterSends
  <2>2. ~Ends(up) /\ down = <<>> /\ Ordered(up, seq) /\ Ordered(chan, seq)
    BY <2>1 DEF Exchange
  <2>3. /\ Ordered(Tail(chan), seq) /\ h \in Frames /\ h.seq = seq
        /\ h.t \in Streams \cup {"ok", "failed", "error"}
        /\ h.t \in Streams => h.size = "fits" /\ (Ends(Tail(chan)) <=> Ends(chan))
        /\ h.t \notin Streams => Ends(chan) /\ Tail(chan) = <<>>
    BY <1>1, <2>1, <2>2, OrderedTaken
  <2>4. CASE h.size = "huge"
    <3>1. writer' = "gone" /\ chan' = <<>> /\ up' = up
      BY <1>9, <2>4 DEF WriterSends
    <3>2. Ends(chan) /\ agent # "run"
      BY <2>3, <2>4, <2>1 DEF Exchange
    <3>3. Ordered(up', seq') /\ Ordered(chan', seq') /\ ~Ends(up') /\ ~Ends(chan')
      BY <2>1, <2>2, <3>1, Nought DEF ctlVars
    <3> QED
      BY <2>1, <2>2, <3>1, <3>2, <3>3 DEF Exchange
  <2>5. CASE h.size # "huge"
    <3>1. up' = Append(up, h) /\ chan' = Tail(chan) /\ writer' = writer
      BY <1>9, <2>5 DEF WriterSends
    <3>2. Ordered(up', seq') /\ (Ends(up') <=> h.t \notin Streams) /\ Ordered(chan', seq')
      <4>1. Ordered(Append(up, h), seq) /\ (Ends(Append(up, h)) <=> h.t \notin Streams)
        BY <1>1, <2>2, <2>3, <2>5, OrderedQueued
      <4> QED
        BY <2>1, <2>3, <3>1, <4>1 DEF ctlVars
    <3>3. ASSUME NEW k \in Streams PROVE Sent(k)' = Sent(k)
      <4>1. Count(up', k) = Count(up, k) + (IF h.t = k THEN 1 ELSE 0)
        BY <1>1, <2>3, <3>1, CountQueued
      <4>2. Count(chan, k) = Count(chan', k) + (IF h.t = k THEN 1 ELSE 0)
        BY <1>1, <2>1, <3>1, CountTaken
      <4>3. got' = got
        BY <2>1 DEF ctlVars
      <4>4. chan' \in Seq(Frames)
        BY <1>1, <2>1, <3>1, Taken
      <4>5. Count(chan', k) \in Nat
        BY <4>4, CountNat
      <4>6. CASE h.t = k
        <5>1. Count(up', k) = Count(up, k) + 1 /\ Count(chan, k) = Count(chan', k) + 1
          BY <4>1, <4>2, <4>6
        <5> QED
          BY <4>3, <4>5, <5>1, SentNat DEF Sent
      <4>7. CASE h.t # k
        <5>1. Count(up', k) = Count(up, k) + 0 /\ Count(chan, k) = Count(chan', k) + 0
          BY <4>1, <4>2, <4>7
        <5> QED
          BY <4>3, <4>5, <5>1, SentNat DEF Sent
      <4> QED
        BY <4>6, <4>7
    <3>4. CASE h.t \in Streams
      <4>1. ~Ends(up') /\ (Ends(chan') <=> Ends(chan))
        BY <2>3, <3>1, <3>2, <3>4
      <4> QED
        BY <2>1, <2>2, <3>1, <3>2, <3>3, <4>1 DEF Exchange, ctlVars
    <3>5. CASE h.t \notin Streams
      <4>1. Ends(up') /\ Ends(chan) /\ chan' = <<>> /\ ~Ends(chan')
        BY <2>3, <3>1, <3>2, <3>5, Nought
      <4>2. agent # "run" /\ \A k \in Streams : Sent(k) = job.wrote[k]
        BY <4>1 DEF Exchange
      <4> QED
        BY <2>1, <2>2, <3>1, <3>2, <3>3, <4>1, <4>2 DEF Exchange, ctlVars
    <3> QED
      BY <3>4, <3>5
  <2> QED
    BY <2>4, <2>5
<1>10. agent \in {"read", "run", "exited"}
  BY DEF Exchange
<1> QED
  BY <1>3, <1>4, <1>5, <1>6, <1>7, <1>8, <1>9, <1>10
     DEF AgentSteps, AgentHello, AgentEof, AgentExits

-----------------------------------------------------------------------------
(* The invariant of the link *)

LEMMA AgentPhases ==
  ASSUME LinkTyped, SeqTyped, Empty, Arrived, Phased, AgentSteps
  PROVE  Arrived' /\ Phased'
<1>1. UNCHANGED ctlVars /\ wire' = wire
  <2>1. wire' = wire
    BY DEF AgentSteps, AgentHello, AgentReads, AgentEof, Answers, Writes, ChildEnds, PipesClose,
       Pump, Finishes, WriterSends, AgentExits
  <2> QED
    BY <2>1, AgentKeeps
<1>2. ASSUME wire = "up", ctl \in {"greet", "probe"} PROVE Opening'
  BY <1>2, OpeningStep DEF Phased
<1>3. ASSUME wire = "up", ctl = "await" PROVE Exchange'
  BY <1>3, ExchangeStep DEF Phased
<1>4. ASSUME wire = "up", ctl \in {"idle", "answered"} PROVE FALSE
  BY <1>4, SilentStep DEF Phased
<1> QED
  BY <1>1, <1>2, <1>3, <1>4, ArrivedStep DEF ctlVars, Phased

LEMMA LinkInvInit == LinkedInit => LinkInv
<1> SUFFICES ASSUME LinkedInit PROVE LinkInv
  OBVIOUS
<1>1. /\ ctl = "none" /\ seq = 0 /\ got = Nothing /\ answer = "none" /\ attempt = 0
      /\ wire = "up" /\ down = <<>> /\ up = <<>>
      /\ agent = "none" /\ chan = <<>> /\ writer = "up" /\ job = NoJob
  BY DEF LinkedInit, LinkInit, Init
<1>2. {ChanCap, WireCap} \subseteq Nat \ {0} /\ <<>> \in Seq(Frames) /\ Len(<<>>) = 0
  BY LinkAssumption
<1>3. LinkTyped
  BY <1>1, <1>2, JobIs DEF LinkTyped
<1> QED
  BY <1>1, <1>3 DEF LinkInv, SeqTyped, Empty, Arrived, Phased

LEMMA LinkInvStep == LinkInv /\ [LinkedNext]_linkedVars => LinkInv'
<1> SUFFICES ASSUME LinkInv, [LinkedNext]_linkedVars PROVE LinkInv'
  OBVIOUS
<1>1. LinkTyped /\ SeqTyped /\ Empty /\ Arrived /\ Phased /\ LinkMove
  BY LinkMoves DEF LinkInv
<1>2. LinkTyped' /\ SeqTyped' /\ Empty'
  BY <1>1, LinkTypedStep, SeqTypedStep, EmptyStep
<1>3. CASE \/ UNCHANGED linkVars \/ Concludes \/ Returns \/ Connect \/ DispatchFails \/ Goodbye
           \/ NoHello \/ Interrupted \/ WireLost \/ ControllerDies
  BY <1>1, <1>2, <1>3, Calm DEF LinkInv
<1>4. CASE AgentDies
  BY <1>1, <1>2, <1>4, Dead DEF LinkInv
<1>5. CASE ReadHello \/ ReadPong
  BY <1>1, <1>2, <1>5, Opened DEF LinkInv
<1>6. CASE Dispatch
  BY <1>1, <1>2, <1>6, Begun DEF LinkInv
<1>7. CASE Receive
  BY <1>1, <1>2, <1>7, Received DEF LinkInv
<1>8. CASE AgentSteps
  BY <1>1, <1>2, <1>8, AgentPhases DEF LinkInv
<1> QED
  BY <1>1, <1>3, <1>4, <1>5, <1>6, <1>7, <1>8 DEF LinkMove, ControllerReads, Faults

LEMMA LinkInvSound == LinkInv => LinkSound
<1> SUFFICES ASSUME LinkInv PROVE LinkSound
  OBVIOUS
<1>1. LinkTyped /\ SeqTyped /\ Arrived /\ Phased /\ PipeCap \in Nat
  BY LinkAssumption DEF LinkInv
<1>2. seq \in 0 .. attempt + 1
  BY <1>1 DEF SeqTyped
<1>3. ASSUME NEW s \in Streams
      PROVE  got[s] \in Nat /\ job.left[s] \in Nat /\ job.piped[s] \in 0 .. PipeCap
  BY <1>1 DEF LinkTyped, Jobs, Chunks
<1>4. LinkTypeOK
  BY <1>1, <1>2, <1>3 DEF LinkTyped, LinkTypeOK
<1>5. StreamClean
  BY <1>1 DEF Phased, Silent, StreamClean
<1>6. AnswerWhole
  BY <1>1 DEF Arrived, AnswerWhole
<1> QED
  BY <1>4, <1>5, <1>6 DEF LinkSound

\* However an exchange with an agent ends - answered, cut off, or lost with
\* either process or the network - the next dispatch finds the stream silent,
\* an answer comes with all its command has written, and no queue outgrows its
\* bound: for every number of attempts, output, bound and answer size.
THEOREM LinkIsSound == LinkedSpec => []LinkSound
<1>1. LinkedInit => LinkInv
  BY LinkInvInit
<1>2. LinkInv /\ [LinkedNext]_linkedVars => LinkInv'
  BY LinkInvStep
<1>3. LinkInv => LinkSound
  BY LinkInvSound
<1> QED
  BY <1>1, <1>2, <1>3, PTL DEF LinkedSpec

-----------------------------------------------------------------------------
(* The loop over the link *)

\* A step of the loop over a link is one of the loop alone, or gives the task up
\* for want of an agent.
LEMMA LoopMoves == [LinkedNext]_linkedVars => [Next]_vars \/ GivenUp
<1> SUFFICES ASSUME [LinkedNext]_linkedVars PROVE [Next]_vars \/ GivenUp
  OBVIOUS
<1>1. CASE UNCHANGED linkedVars
  BY <1>1 DEF linkedVars
<1>2. CASE Stepping
  BY <1>2 DEF Stepping, Resolve, Unresolved, AttemptGoes, AttemptEnds, Unrendered, LoopSteps,
     Parting, Next, GivenUp
<1>3. CASE Next \/ LinkSteps \/ (Faults /\ UNCHANGED vars)
  BY <1>3 DEF LinkSteps
<1> QED
  BY <1>1, <1>2, <1>3 DEF LinkedNext

LEMMA LinkedInvariance == LinkedSpec => []IInv
<1>1. LinkedInit => IInv
  BY InitInv DEF LinkedInit
<1>2. IInv /\ [LinkedNext]_linkedVars => IInv'
  BY LoopMoves, StepInv, AbortStep
<1> QED
  BY <1>1, <1>2, PTL DEF LinkedSpec

\* The decision table, whatever the connection and the agent at its other end do
\* to an attempt.
THEOREM LinkedDecision == LinkedSpec => []DecisionTable
<1>1. IInv => DecisionTable
  BY DEF IInv
<1> QED
  BY <1>1, LinkedInvariance, PTL

\* And a task that is ok rests on the agent's answer to its last attempt.
THEOREM LinkedAnswer == LinkedSpec => []AnswerTrue
<1>1. IInv => AnswerTrue
  BY DEF IInv, TypeOK, Held, Answered, OkMeansAnswered, AnswerTrue
<1> QED
  BY <1>1, LinkedInvariance, PTL
=============================================================================
