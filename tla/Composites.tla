------------------------------ MODULE Composites ------------------------------
(***************************************************************************)
(* Bodies of more than one exchange: `openssl_privatekey`, `openssl_csr_    *)
(* pipe`, the `postgresql_*` composites, and `creates:` and `removes:`      *)
(* ahead of a command.  The controller probes the target, decides, and     *)
(* acts, with the slot unlocked in between: another walker that delegates   *)
(* to the same target may come first, or `kill_all`.  Each exchange goes    *)
(* through the slots of AgentPool.                                         *)
(***************************************************************************)
EXTENDS AgentPool, Sequences, FiniteSets

CONSTANTS
  Plans,  \* [work, machine]: the tasks of each walker, or <<>> for tasks of one
          \* exchange each, and the targets they find
  Unseen  \* no answer of a probe

NoKey == <<>>
Attributes == {"login", "password"}
IsSequence(s) == s \in Seq({s[i] : i \in DOMAIN s})

\* A task as the parser lets it through: a membership names at least one pair
\* (`take_string_or_list`), and "none" is no name for an owner.
IsTask(t) ==
  /\ t.on \in Hosts /\ t.check \in BOOLEAN
  /\ \/ t.kind = "marker" /\ t.present \in BOOLEAN
     \/ t.kind = "key" /\ t.probe \in BOOLEAN
     \/ t.kind = "csr"
     \/ /\ t.kind = "role" /\ {t.present, t.keepPassword, t.opaque} \subseteq BOOLEAN
        /\ DOMAIN t.asked \subseteq Attributes
     \/ /\ t.kind = "member" /\ {t.present, t.strict} \subseteq BOOLEAN
        /\ IsSequence(t.pairs) /\ t.pairs # <<>>
     \/ t.kind = "db" /\ t.present \in BOOLEAN /\ t.owner # "none"

IsMachine(m) ==
  /\ m = [marker |-> m.marker, key |-> m.key, roles |-> m.roles, attrs |-> m.attrs,
          members |-> m.members, db |-> m.db]
  /\ m.key = NoKey \/ Len(m.key) = 2
  /\ DOMAIN m.attrs = Attributes

ASSUME PlansAssumption ==
  \A plan \in Plans :
    /\ plan.work = [w \in Hosts |-> plan.work[w]]
    /\ \A w \in Hosts : IsSequence(plan.work[w]) /\ \A i \in DOMAIN plan.work[w] : IsTask(plan.work[w][i])
    /\ plan.machine = [p \in Hosts |-> plan.machine[p]]
    /\ \A p \in Hosts : IsMachine(plan.machine[p])

VARIABLES
  work,    \* walker -> its tasks
  machine, \* pool -> what the tasks are about: a marker file, the private key, the
           \* roles, the attributes of the role "r", memberships, a database's owner
  body,    \* walker -> the body it is in
  pem,     \* walker -> the key its host context holds (privkey_pem_cache)
  log      \* history: walker -> how its bodies ended

bodies == <<work, machine, body, pem, log>>

NoBody == [stage |-> "idle", left |-> <<>>, seen |-> Unseen, changed |-> FALSE,
           base |-> Unseen, alone |-> FALSE]

CompositeInit ==
  /\ Init
  /\ \E plan \in Plans : work = plan.work /\ machine = plan.machine
  /\ body = [w \in Hosts |-> NoBody]
  /\ pem = [w \in Hosts |-> NoKey]
  /\ log = [w \in Hosts |-> <<>>]

Plain == [kind |-> "plain"]
Task(w) == IF work[w] = <<>> THEN Plain ELSE work[w][ops[w]]
Machine(w) == machine[P(w)]
InBody(w) == body[w].stage \notin {"idle", "new"}

Ended(w, result, signed, m) ==
  /\ body' = [body EXCEPT ![w] = NoBody]
  /\ log' = [log EXCEPT ![w] = Append(@,
       [task |-> Task(w), result |-> result, changed |-> body[w].changed, signed |-> signed,
        base |-> body[w].base, left |-> m, alone |-> body[w].alone])]

-----------------------------------------------------------------------------
(* What a probe leads to *)

\* Mutant of Diverging: a role that has a password keeps it.
DivergingUnset(t, m) ==
  {a \in DOMAIN t.asked : m.attrs[a] # t.asked[a] /\ (a = "password" => m.attrs[a] = "none")}

\* What is asked of the role and is not there, or cannot be told from the stored
\* verifier (`decide_password_alter`).
Diverging(t, m) ==
  {a \in DOMAIN t.asked :
     IF a = "password" THEN ~t.keepPassword /\ (t.opaque \/ m.attrs[a] # t.asked[a])
     ELSE m.attrs[a] # t.asked[a]}

\* Mutant of Decision: a task acts whatever its probe found.
DecisionBlind(t, pair, m) ==
  IF t.kind = "csr" THEN IF m.key = NoKey THEN "fail" ELSE "leave" ELSE "act"

\* `creates:` and `removes:`.
MarkerNeeds(t, m) == m.marker # t.present

\* The role is missing or diverges, or is there to be dropped.
RoleNeeds(t, m) ==
  IF t.present THEN "r" \notin m.roles \/ Diverging(t, m) # {} ELSE "r" \in m.roles

\* A pair of which a role is missing fails the task, or is passed over.
MemberDecision(t, pair, m) ==
  IF {pair[1], pair[2]} \subseteq m.roles
    THEN IF (pair \in m.members) # t.present THEN "act" ELSE "leave"
    ELSE IF t.strict THEN "fail" ELSE "leave"

\* Of a database that is there only the owner is looked at.
DbNeeds(t, m) ==
  IF t.present THEN m.db = "none" \/ (t.owner # "" /\ m.db # t.owner) ELSE m.db # "none"

Decision(t, pair, m) ==
  LET act(needed) == IF needed THEN "act" ELSE "leave"
  IN  CASE t.kind = "marker" -> act(MarkerNeeds(t, m))
        [] t.kind = "key" -> act(m.key = NoKey)
        [] t.kind = "csr" -> IF m.key = NoKey THEN "fail" ELSE "leave"
        [] t.kind = "role" -> act(RoleNeeds(t, m))
        [] t.kind = "member" -> MemberDecision(t, pair, m)
        [] t.kind = "db" -> act(DbNeeds(t, m))

\* Whether the target can do it, by what it is now.
Possible(t, pair, seen, m) ==
  CASE t.kind = "role" -> ("r" \in m.roles) = ("r" \in seen.roles)
    [] t.kind = "member" -> {pair[1], pair[2]} \subseteq m.roles
    [] t.kind = "db" -> (m.db = "none") = (seen.db = "none")
    [] OTHER -> TRUE

\* A set of attributes laid over others.
Over(new, names, old) == [a \in DOMAIN old |-> IF a \in names THEN new[a] ELSE old[a]]

Defaults == [login |-> FALSE, password |-> "none"]

\* Mutant of Role: ALTER writes back the attributes the probe saw.
RoleWritesBack(t, seen, m) ==
  IF ~t.present
    THEN [m EXCEPT !.roles = @ \ {"r"}, !.attrs = Defaults,
                   !.members = {p \in @ : "r" \notin {p[1], p[2]}}]
  ELSE IF "r" \in seen.roles
    THEN [m EXCEPT !.attrs = Over(t.asked, Diverging(t, seen), seen.attrs)]
  ELSE [m EXCEPT !.roles = @ \cup {"r"}, !.attrs = Over(t.asked, DOMAIN t.asked, Defaults)]

\* CREATE, ALTER of what the probe saw diverge, or DROP.
Role(t, seen, m) ==
  IF ~t.present
    THEN [m EXCEPT !.roles = @ \ {"r"}, !.attrs = Defaults,
                   !.members = {p \in @ : "r" \notin {p[1], p[2]}}]
  ELSE IF "r" \in seen.roles
    THEN [m EXCEPT !.attrs = Over(t.asked, Diverging(t, seen), @)]
  ELSE [m EXCEPT !.roles = @ \cup {"r"}, !.attrs = Over(t.asked, DOMAIN t.asked, Defaults)]

Database(t, m) ==
  [m EXCEPT !.db = IF ~t.present THEN "none" ELSE IF t.owner = "" THEN "login" ELSE t.owner]

\* Mutant of KeyWritten: the write does not ask whether the file is there.
KeyWrittenAnyway(key, seen, m) == [m EXCEPT !.key = key]

\* `OpWriteFile`, which looks for the file itself when it was not probed for.
KeyWritten(key, seen, m) ==
  IF seen = Unseen /\ m.key # NoKey THEN m ELSE [m EXCEPT !.key = key]

\* GRANT or REVOKE.
Granted(t, pair, m) ==
  [m EXCEPT !.members = IF t.present THEN @ \cup {pair} ELSE @ \ {pair}]

Acted(w, m) ==
  LET t == Task(w)
      pair == IF t.kind = "member" THEN Head(body[w].left) ELSE <<>>
  IN  CASE t.kind = "marker" -> [m EXCEPT !.marker = IF t.check THEN @ ELSE t.present]
        [] t.kind = "key" -> KeyWritten(pem[w], body[w].seen, m)
        [] t.kind = "role" -> Role(t, body[w].seen, m)
        [] t.kind = "member" -> Granted(t, pair, m)
        [] t.kind = "db" -> Database(t, m)
        [] OTHER -> m

-----------------------------------------------------------------------------
(* Bodies *)

BeginTask(w) ==
  /\ Begin(w)
  /\ work[w] # <<>> =>
       /\ ops[w] < Len(work[w])
       /\ target'[w] = [pool |-> work[w][ops[w] + 1].on, key |-> Login]
  /\ body' = [body EXCEPT ![w] = [body[w] EXCEPT !.stage = "new"]]
  /\ UNCHANGED <<work, machine, pem, log>>

\* Mutant of Signs: a key of this play is never taken from the context.
SignsFresh(w) == IF pem[w] = NoKey THEN Machine(w).key ELSE <<w, ops[w]>>

\* The key a request is signed with: the one the context holds, or else the one read.
Signs(w) == IF pem[w] = NoKey THEN Machine(w).key ELSE pem[w]

Probes(t) == t.kind # "key" \/ t.probe \/ t.check

\* The handle is resolved and the body starts; a key is made first of all, and a
\* request is made without an exchange if the context holds a key.
Enter(w) ==
  /\ pc[w] = "lockSlot" /\ body[w].stage = "new"
  /\ LET t == Task(w)
         others == {v \in Hosts \ {w} : InBody(v)}
         starts == [stage |-> IF t.kind = "plain" THEN "plain"
                              ELSE IF Probes(t) THEN "probe" ELSE "act",
                    left |-> IF t.kind = "member" THEN t.pairs ELSE <<>>,
                    seen |-> Unseen, changed |-> FALSE, base |-> Machine(w),
                    alone |-> others = {}]
     IN  IF t.kind = "csr" /\ pem[w] # NoKey
           THEN /\ Goto(w, "idle")
                /\ body' = [body EXCEPT ![w] = NoBody]
                /\ log' = [log EXCEPT ![w] = Append(@,
                     [task |-> t, result |-> "ok", changed |-> FALSE, signed |-> Signs(w),
                      base |-> Machine(w), left |-> Machine(w), alone |-> others = {}])]
                /\ UNCHANGED pem
           ELSE /\ body' = [v \in Hosts |-> IF v = w THEN starts
                              ELSE IF v \in others THEN [body[v] EXCEPT !.alone = FALSE] ELSE body[v]]
                /\ pem' = IF t.kind = "key" THEN [pem EXCEPT ![w] = <<w, ops[w]>>] ELSE pem
                /\ UNCHANGED <<pc, log>>
  /\ UNCHANGED <<poolLock, slots, slotLock, target, toKill, ops, spawned, work, machine>>

\* Mutant of Released: the guard outlives the exchange.
ReleasedLate(w, label) ==
  /\ Goto(w, label)
  /\ UNCHANGED <<poolLock, slots, slotLock, target, toKill, ops, spawned>>

\* The exchange is over and the slot is free.
Released(w, label) ==
  /\ slotLock' = [slotLock EXCEPT ![P(w)][K(w)] = Nobody]
  /\ Goto(w, label)
  /\ UNCHANGED <<poolLock, slots, target, toKill, ops, spawned>>

\* What follows a probe or an act that settled its pair: the next pair, or the end.
Settled(w, changed, m) ==
  IF Len(body[w].left) > 1
    THEN /\ Released(w, "lockSlot")
         /\ body' = [body EXCEPT ![w] = [body[w] EXCEPT !.stage = "probe", !.changed = changed,
                                                       !.left = Tail(body[w].left)]]
         /\ UNCHANGED log
    ELSE /\ Released(w, "idle")
         /\ body' = [body EXCEPT ![w] = NoBody]
         /\ log' = [log EXCEPT ![w] = Append(@,
              [task |-> Task(w), result |-> "ok", changed |-> changed,
               signed |-> IF Task(w).kind = "csr" THEN Signs(w) ELSE NoKey,
               base |-> body[w].base, left |-> m, alone |-> body[w].alone])]

ProbeEnds(w) ==
  /\ pc[w] = "inOp" /\ body[w].stage = "probe"
  /\ LET t == Task(w)
         d == Decision(t, IF t.kind = "member" THEN Head(body[w].left) ELSE <<>>, Machine(w))
     IN  \/ /\ d = "leave" \/ (d = "act" /\ t.check /\ t.kind # "marker")
            /\ Settled(w, body[w].changed \/ d = "act", Machine(w))
            /\ pem' = IF t.kind = "csr" THEN [pem EXCEPT ![w] = Machine(w).key] ELSE pem
         \/ /\ d = "act" /\ (t.check => t.kind = "marker")
            /\ Released(w, "lockSlot")
            /\ body' = [body EXCEPT ![w] = [body[w] EXCEPT !.stage = "act", !.seen = Machine(w)]]
            /\ UNCHANGED <<pem, log>>
         \/ /\ d = "fail"
            /\ Released(w, "failed") /\ Ended(w, "failed", NoKey, Machine(w))
            /\ UNCHANGED pem
  /\ UNCHANGED <<work, machine>>

Pair(w) == IF Task(w).kind = "member" THEN Head(body[w].left) ELSE <<>>

\* The target does it and answers.
ActEnds(w) ==
  /\ pc[w] = "inOp" /\ body[w].stage = "act"
  /\ Possible(Task(w), Pair(w), body[w].seen, Machine(w))
  /\ LET m == Acted(w, Machine(w))
     IN  /\ machine' = [machine EXCEPT ![P(w)] = m]
         /\ Settled(w, body[w].changed \/ (IF Task(w).kind = "key" THEN m # Machine(w)
                                           ELSE ~Task(w).check), m)
  /\ UNCHANGED <<work, pem>>

\* It refuses or fails, a command perhaps with its marker made; the task ends
\* there, whatever it did before.
ExchangeFails(w) ==
  /\ pc[w] = "inOp" /\ body[w].stage \in {"probe", "act"}
  /\ Released(w, "failed")
  /\ \/ UNCHANGED machine
     \/ /\ body[w].stage = "act" /\ Task(w).kind = "marker"
        /\ machine' = [machine EXCEPT ![P(w)] = Acted(w, @)]
  /\ Ended(w, "failed", NoKey, machine'[P(w)])
  /\ UNCHANGED <<work, pem>>

\* The connection breaks, before or after the target did it.
ExchangeBreaks(w) ==
  /\ pc[w] = "inOp" /\ body[w].stage \in {"probe", "act"}
  /\ Released(w, IF P(w) = w THEN "broken" ELSE "failed")
  /\ \/ UNCHANGED machine
     \/ /\ body[w].stage = "act" /\ Possible(Task(w), Pair(w), body[w].seen, Machine(w))
        /\ machine' = [machine EXCEPT ![P(w)] = Acted(w, @)]
  /\ Ended(w, "failed", NoKey, machine'[P(w)])
  /\ UNCHANGED <<work, pem>>

\* A body that finds its slot dead, and a task that finds no agent, end there.
DeadEnds(w) ==
  /\ SeeDead(w)
  /\ Ended(w, "failed", NoKey, Machine(w))
  /\ UNCHANGED <<work, machine, pem>>

NoAgent(w) == SpawnFails(w) /\ body' = [body EXCEPT ![w] = NoBody]
              /\ UNCHANGED <<work, machine, pem, log>>

\* Mutant of PlainEnds: the walker goes on with the body of its last task.
PlainEndsOpen(w) == /\ body[w].stage = "plain" /\ OpEnds(w) /\ pc'[w] # "lockSlot"
                    /\ UNCHANGED bodies

PlainEnds(w) == /\ body[w].stage = "plain" /\ OpEnds(w) /\ pc'[w] # "lockSlot"
                /\ body' = [body EXCEPT ![w] = NoBody]
                /\ UNCHANGED <<work, machine, pem, log>>

PoolStep(w) ==
  /\ \/ LockPool(w) \/ LookUp(w) \/ SpawnSucceeds(w)
     \/ body[w].stage # "new" /\ LockSlot(w)
     \/ Dispatch(w) \/ GiveUp(w) \/ Shrug(w) \/ KillSlot(w) \/ Killed(w)
  /\ UNCHANGED bodies

BodyStep(w) ==
  \/ PoolStep(w) \/ Enter(w) \/ ProbeEnds(w) \/ ActEnds(w) \/ ExchangeFails(w)
  \/ ExchangeBreaks(w) \/ DeadEnds(w) \/ NoAgent(w) \/ PlainEnds(w)

CompositeNext == \E w \in Hosts : BeginTask(w) \/ BodyStep(w)

SafeCompositeSpec == CompositeInit /\ [][CompositeNext]_<<vars, bodies>>

\* Agents answer, and tokio mutexes queue their waiters first come first served: a
\* lock that is released again and again is acquired in the end.
CompositeSpec ==
  /\ SafeCompositeSpec
  /\ \A w \in Hosts : SF_<<vars, bodies>>(BodyStep(w))

-----------------------------------------------------------------------------
(* Properties *)

\* A body locks and releases its slot for every exchange as any other task does:
\* what AgentPool promises holds of bodies too.
PoolRespected == SafeSpec

Entries == UNION {{log[w][i] : i \in DOMAIN log[w]} : w \in Hosts}

\* What a task asks of its target.
Goal(t, m) ==
  CASE t.kind = "marker" -> m.marker = t.present
    [] t.kind = "key" -> m.key # NoKey
    [] t.kind = "csr" -> TRUE
    [] t.kind = "role" ->
         IF t.present
           THEN /\ "r" \in m.roles
                /\ \A a \in DOMAIN t.asked :
                     m.attrs[a] = t.asked[a] \/ (a = "password" /\ t.keepPassword)
           ELSE "r" \notin m.roles
    [] t.kind = "member" ->
         \A i \in DOMAIN t.pairs :
           \/ (t.pairs[i] \in m.members) = t.present
           \/ ~t.strict /\ ~({t.pairs[i][1], t.pairs[i][2]} \subseteq m.roles)
    [] t.kind = "db" -> IF t.present THEN m.db # "none" /\ (t.owner = "" \/ m.db = t.owner)
                        ELSE m.db = "none"

\* The bodies keep their shape, and only who is at a task is in one.
BodyTypeOK ==
  \A w \in Hosts :
    /\ body[w].stage \in {"idle", "new", "plain", "probe", "act"}
    /\ body[w].stage = "idle" <=> pc[w] \in {"idle", "failed", "broken", "killing", "gone"}
    /\ pc[w] \in {"guarded", "inOp"} => InBody(w)
    /\ body[w].changed \in BOOLEAN /\ Len(log[w]) <= ops[w]
    /\ pem[w] = NoKey \/ Len(pem[w]) = 2

\* A body that ends well without another one beside it leaves its target as asked.
GoalMet ==
  \A e \in Entries : (e.result = "ok" /\ e.alone /\ ~e.task.check) => Goal(e.task, e.left)

\* The tasks that are put to a target.
Asked(p) == {t \in UNION {{work[w][i] : i \in DOMAIN work[w]} : w \in Hosts} :
               t.on = p /\ t.kind # "csr"}

\* Two tasks that want nothing contradictory of the same thing.
Agree(s, t) ==
  /\ s.kind = t.kind
  /\ IF s.kind = "role" /\ s.present /\ t.present
       THEN \A a \in DOMAIN s.asked \cap DOMAIN t.asked : s.asked[a] = t.asked[a]
       ELSE s = t

\* Bodies that want nothing contradictory of one target, however they overlap,
\* fail and break, keep it as a task asked from the moment the task ends well:
\* no body takes back what it read before another one acted.
RacersAgree ==
  \A e \in Entries :
    (/\ e.result = "ok" /\ ~e.task.check
     /\ \A t \in Asked(e.task.on) : Agree(e.task, t))
      => Goal(e.task, machine[e.task.on])

\* A key that is in use is replaced only by a body whose probe found none, with
\* another body coming in between.
KeyKept ==
  [][\A p \in Hosts :
       (machine[p].key # NoKey /\ machine'[p].key # machine[p].key) =>
         \E w \in Hosts : /\ P(w) = p /\ body[w].stage = "act" /\ ~body[w].alone
                          /\ body[w].seen # Unseen /\ body[w].seen.key = NoKey]_<<vars, bodies>>

\* A request is signed with the key on its target if the play has just put it
\* there, or has not been at it before.
SignedByPlaced ==
  \A w \in Hosts : \A j \in DOMAIN log[w] :
    LET e == log[w][j]
        earlier == {i \in 1 .. (j - 1) : log[w][i].task.kind \in {"key", "csr"}}
    IN  (/\ e.task.kind = "csr" /\ e.result = "ok" /\ e.alone
         /\ \A i \in earlier : /\ i = j - 1 /\ log[w][i].task.kind = "key"
                               /\ log[w][i].result = "ok" /\ log[w][i].changed /\ ~log[w][i].task.check
                               /\ log[w][i].task.on = e.task.on /\ log[w][i].left = e.base)
        => e.signed = e.base.key

\* The answer says "changed" exactly if the target was changed, or under check
\* mode if it is not as asked (a password that cannot be verified is always set).
ChangedTrue ==
  \A e \in Entries :
    (e.result = "ok" /\ e.alone /\ ~(e.task.kind = "role" /\ e.task.opaque)) =>
      IF e.task.check
        THEN e.base = e.left /\ (e.changed <=> e.task.kind # "marker" /\ ~Goal(e.task, e.base))
        ELSE e.changed <=> e.base # e.left

\* What a body reports and leaves behind is what its task asked for.
BodiesTrue == BodyTypeOK /\ GoalMet /\ RacersAgree /\ SignedByPlaced /\ ChangedTrue
=============================================================================
