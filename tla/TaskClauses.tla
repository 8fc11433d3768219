---------------------------- MODULE TaskClauses ----------------------------
(***************************************************************************)
(* The Deserialize of a task (task_op/mod.rs): its clauses, the one body   *)
(* among them, and what the bodies that are not ops are read by.           *)
(*                                                                         *)
(* A task as written is a function from <<spelling, key>> to values, a     *)
(* spelling being "bare", "fqcn" (one of the known collection prefixes) or *)
(* "foreign" (any other).  A body that is a mapping is <<"body", b>>, b a  *)
(* function from keys to values.  A clause that is null counts as absent.  *)
(***************************************************************************)
EXTENDS NetOps

Tasks == Par("sequence", None)      \* of tasks, each read like this one
Cond == Par("condition", None)

Clauses ==
  [name |-> Opt, when |-> Cond, register |-> Opt, loop |-> Par("items", None), loop_control |-> Par("pass", None),
   tags |-> Par("tags", Nothing), delegate_to |-> Opt, delegate_facts |-> Flag(FALSE), become |-> OptFlag,
   become_user |-> Opt, ignore_errors |-> OptFlag, check_mode |-> OptFlag, async |-> Count, poll |-> Count,
   retries |-> Count, delay |-> Count, until |-> Par("until", None), changed_when |-> Cond, failed_when |-> Cond,
   no_log |-> OptFlag, run_once |-> Flag(FALSE), vars |-> Par("map", None), environment |-> Par("scalarmap", NoPairs),
   notify |-> Texts(Nothing), rescue |-> Tasks, always |-> Tasks]

-----------------------------------------------------------------------------
(* The bodies that are not ops.                                            *)

LoopControl == [loop_var |-> Opt, label |-> Opt]
AssertTask == [that |-> Texts(Must), fail_msg |-> Keyed(<<"fail_msg", "msg">>, Opt)]
FailTask == [msg |-> TextOr(24)]
DebugTask == [msg |-> Par("pass", None), var |-> [Filled EXCEPT !.default = None], verbosity |-> Ignored]
PauseTask == [seconds |-> Count, minutes |-> Count]
IncludeRole == [name |-> Needed, tasks_from |-> TextOr(24)]

BodyForms ==
  [assert |-> AssertTask, fail |-> FailTask, debug |-> DebugTask, pause |-> PauseTask,
   include_role |-> IncludeRole, import_role |-> IncludeRole]
RoleKeys == {"include_role", "import_role"}

\* The mapping behind a key that is no op, or Bad.
FormBody(form, fits(_), v) ==
  IF v[1] = "body" /\ Readable(form, v[2]) /\ fits(Parsed(form, v[2])) THEN <<"body", Parsed(form, v[2])>> ELSE Bad
DebugFits(p) == None \in {p.msg, p.var}
PauseFits(p) == (p.seconds = None) # (p.minutes = None)

PlainBody(key, v) ==
  CASE key \in RoleKeys \cup {"assert", "fail"} -> FormBody(BodyForms[key], LAMBDA p : TRUE, v)
    [] key = "debug" -> IF IsText(v) THEN <<"body", [msg |-> v, var |-> None, verbosity |-> None]>>
                        ELSE FormBody(DebugTask, DebugFits, v)
    [] key = "pause" -> FormBody(PauseTask, PauseFits, v)
    [] key = "set_fact" -> IF v[1] = "map" THEN v ELSE Bad
    [] key = "import_tasks" -> IF IsText(v) THEN v ELSE Bad
    [] key = "meta" -> IF v = Word("flush_handlers") THEN v ELSE Bad
    [] key = "block" -> IF v[1] = "list" /\ v # Nothing THEN v ELSE Bad

PlainBodies == DOMAIN BodyForms \cup {"set_fact", "import_tasks", "meta", "block"}
OpKeys ==
  {"shell", "exec", "command", "write_file", "template", "copy", "stat", "file", "wait_for", "lineinfile",
   "blockinfile", "systemd", "service", "apt", "pip", "package", "repository", "apt_repository", "user", "group",
   "authorized_key", "getent", "hostname", "timezone", "modprobe", "async_status", "iptables", "ufw", "uri",
   "openssl_privatekey", "openssl_csr_pipe", "x509_certificate_pipe", "postgresql_query", "postgresql_ext",
   "postgresql_user", "postgresql_db", "postgresql_membership", "get_url", "slurp", "unarchive", "tempfile"}
BodyKeys == OpKeys \cup PlainBodies

-----------------------------------------------------------------------------
(* The task.                                                               *)

\* The known prefixes are dropped; no key may then be there twice.
Bared(spelled) == IF spelled[1] = "foreign" THEN "foreign" ELSE spelled[2]
Collides(written) == \E e, f \in DOMAIN written : e # f /\ Bared(e) = Bared(f)
Keys(written) == {Bared(e) : e \in DOMAIN written}
Given(written, key) == written[CHOOSE e \in DOMAIN written : Bared(e) = key]

Clause(written, f) == IF f \in Keys(written) THEN Accept(Clauses[f], Given(written, f)) ELSE Clauses[f].default

\* What a clause asks of the others.
ClausesFit(c) ==
  /\ c.delegate_facts = Bit(FALSE)
  /\ c.poll # None => c.async # None
  /\ c.until # None => c.register # None
  /\ c.delay # None => c.retries # None
  /\ c.loop_control[1] = "body" => Readable(LoopControl, c.loop_control[2])

\* What a block does not take, and what only a block takes.
BlockFits(c) ==
  /\ \A f \in {"retries", "until", "delay", "register"} : c[f] = None
  /\ c.notify = Nothing
  /\ c.run_once = Bit(FALSE)
PlainFits(c) == c.rescue = None /\ c.always = None

\* A mutant: of several bodies one is taken.
BodyKeyOfAny(written) ==
  LET bodies == Keys(written) \cap BodyKeys
  IN IF Collides(written) \/ bodies = {} \/ ~(Keys(written) \subseteq DOMAIN Clauses \cup BodyKeys)
     THEN "none" ELSE CHOOSE k \in bodies : TRUE

\* The body key, where there is exactly one and nothing is unknown.
BodyKeyOf(written) ==
  LET bodies == Keys(written) \cap BodyKeys
  IN IF Collides(written) \/ Cardinality(bodies) # 1 \/ ~(Keys(written) \subseteq DOMAIN Clauses \cup BodyKeys)
     THEN "none" ELSE CHOOSE k \in bodies : TRUE

\* The task as the controller keeps it, or refused.  The bodies of the ops are read by
\* their own forms.  The variables of a task that includes a role are the role's.
TaskRead(key, c, body) ==
  IF \/ \E f \in DOMAIN c : c[f] = Bad
     \/ ~ClausesFit(c)
     \/ body = Bad
     \/ ~(IF key = "block" THEN BlockFits(c) ELSE PlainFits(c))
  THEN Refused
  ELSE [t |-> "task", key |-> key, body |-> body,
        role_vars |-> IF key \in RoleKeys THEN c.vars ELSE None,
        clauses |-> IF key \in RoleKeys THEN [c EXCEPT !.vars = None] ELSE c]

BodyFor(written, key) == IF key \in OpKeys THEN Given(written, key) ELSE PlainBody(key, Given(written, key))
TaskBy(written, key) ==
  IF key = "none" THEN Refused
  ELSE TaskRead(key, [f \in DOMAIN Clauses |-> Clause(written, f)], BodyFor(written, key))
TaskOf(written) == TaskBy(written, BodyKeyOf(written))
=============================================================================
