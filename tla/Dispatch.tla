------------------------------ MODULE Dispatch ------------------------------
(***************************************************************************)
(* A task on its way to the agent: read from YAML (task_op), rendered      *)
(* (render_op), turned into an op (to_wire_op), written as a frame, and    *)
(* read on the other side (framing.rs), over a stream that may break off   *)
(* anywhere.  The same stream carries an agent's messages back.            *)
(*                                                                         *)
(* What lies between rendering and to_wire_op for single modules (probes   *)
(* for creates:, composites, what check mode skips) is in RetryLoop,       *)
(* AsyncJob and Composites.                                                *)
(***************************************************************************)
EXTENDS TaskClauses

CONSTANT Jobs   \* [written, check, diff] or [messages], each with `cuts`: whether the stream may break
ASSUME JobsAssumption == \A j \in Jobs : j.cuts \in BOOLEAN

-----------------------------------------------------------------------------
(* The ops: which form reads a body, what it must satisfy, which fields    *)
(* are rendered, and what goes on the wire.                                *)

\* The manager a `package` body names, or the one its key stands for.
ManagerOf(key, body) ==
  IF key = "package" /\ "manager" \in DOMAIN body /\ body.manager[2] \in DOMAIN PackageManager THEN body.manager[2] ELSE key

Form(key, body) ==
  CASE key = "shell" -> ShellOp [] key = "exec" -> ExecOp [] key = "command" -> CommandOp
    [] key = "write_file" -> WriteFileOp [] key = "template" -> TemplateOp [] key = "copy" -> CopyOp
    [] key = "stat" -> StatOp [] key = "file" -> FileOp [] key = "wait_for" -> WaitForOp
    [] key = "lineinfile" -> LineInFileOp [] key = "blockinfile" -> BlockInFileOp
    [] key \in {"systemd", "service"} -> SystemdOp
    [] key \in {"apt", "pip", "package"} -> PackageOp(ManagerOf(key, body))
    [] key \in {"repository", "apt_repository"} -> RepositoryOp(key)
    [] key = "user" -> UserOp [] key = "group" -> GroupOp [] key = "authorized_key" -> AuthorizedKeyOp
    [] key = "getent" -> GetentOp [] key = "hostname" -> HostnameOp [] key = "timezone" -> TimezoneOp
    [] key = "modprobe" -> ModprobeOp [] key = "async_status" -> AsyncStatusOp
    [] key = "iptables" -> IptablesOp [] key = "ufw" -> UfwOp [] key = "uri" -> UriOp
    [] key = "openssl_privatekey" -> OpenSslPrivkeyOp [] key = "openssl_csr_pipe" -> OpenSslCsrPipeOp
    [] key = "x509_certificate_pipe" -> X509CertificatePipeOp
    [] key = "postgresql_query" -> PostgresqlQueryOp [] key = "postgresql_ext" -> PostgresqlExtOp
    [] key = "postgresql_user" -> PostgresqlUserOp [] key = "postgresql_db" -> PostgresqlDbOp
    [] key = "postgresql_membership" -> PostgresqlMembershipOp
    [] key = "get_url" -> GetUrlOp [] key = "slurp" -> SlurpOp [] key = "unarchive" -> UnarchiveOp
    [] key = "tempfile" -> TempfileOp

Fits(key, p) ==
  CASE key = "copy" -> CopyFits(p) [] key = "command" -> CommandFits(p) [] key = "wait_for" -> WaitForFits(p)
    [] key = "lineinfile" -> LineInFileFits(p) [] key = "blockinfile" -> BlockInFileFits(p)
    [] key = "unarchive" -> UnarchiveFits(p) [] key \in {"systemd", "service"} -> SystemdFits(p)
    [] key \in {"apt", "pip", "package"} -> PackageFits(p) [] key = "modprobe" -> ModprobeFits(p)
    [] key = "ufw" -> UfwFits(p) [] key = "uri" -> UriFits(p) [] key = "openssl_csr_pipe" -> OpenSslCsrPipeFits(p)
    [] key = "x509_certificate_pipe" -> X509CertificatePipeFits(p)
    [] key = "postgresql_membership" -> PostgresqlMembershipFits(p)
    [] OTHER -> TRUE

RenderedFields(key) ==
  CASE key = "shell" -> ShellRendered [] key = "exec" -> ExecRendered [] key = "command" -> CommandRendered
    [] key = "write_file" -> WriteFileRendered [] key = "template" -> TemplateRendered [] key = "copy" -> CopyRendered
    [] key = "stat" -> StatRendered [] key = "file" -> FileRendered [] key = "wait_for" -> WaitForRendered
    [] key = "lineinfile" -> LineInFileRendered [] key = "blockinfile" -> BlockInFileRendered
    [] key \in {"systemd", "service"} -> SystemdRendered [] key \in {"apt", "pip", "package"} -> PackageRendered
    [] key \in {"repository", "apt_repository"} -> RepositoryRendered
    [] key = "user" -> UserRendered [] key = "group" -> GroupRendered
    [] key = "authorized_key" -> AuthorizedKeyRendered [] key = "getent" -> GetentRendered
    [] key = "hostname" -> HostnameRendered [] key = "timezone" -> TimezoneRendered
    [] key = "modprobe" -> ModprobeRendered [] key = "async_status" -> AsyncStatusRendered
    [] key = "iptables" -> IptablesRendered [] key = "ufw" -> UfwRendered [] key = "uri" -> UriRendered
    [] key = "openssl_privatekey" -> OpenSslPrivkeyRendered [] key = "openssl_csr_pipe" -> OpenSslCsrPipeRendered
    [] key = "x509_certificate_pipe" -> X509CertificatePipeRendered
    [] key = "postgresql_query" -> PostgresqlQueryRendered [] key = "postgresql_ext" -> PostgresqlExtRendered
    [] key = "postgresql_user" -> PostgresqlUserRendered [] key = "postgresql_db" -> PostgresqlDbRendered
    [] key = "postgresql_membership" -> PostgresqlMembershipRendered
    [] key = "get_url" -> GetUrlRendered [] key = "slurp" -> SlurpRendered [] key = "unarchive" -> UnarchiveRendered
    [] key = "tempfile" -> TempfileRendered

\* The composites are carried out by the controller.
to_wire_op(key, p) ==
  CASE key = "shell" -> ShellWire(p) [] key = "exec" -> ExecWire(p) [] key = "command" -> CommandWire(p)
    [] key = "write_file" -> WriteFileWire(p) [] key = "template" -> TemplateWire(p) [] key = "copy" -> CopyWire(p)
    [] key = "stat" -> StatWire(p) [] key = "file" -> FileWire(p) [] key = "wait_for" -> WaitForWire(p)
    [] key = "lineinfile" -> LineInFileWire(p) [] key = "blockinfile" -> BlockInFileWire(p)
    [] key \in {"systemd", "service"} -> SystemdWire(p) [] key \in {"apt", "pip", "package"} -> PackageWire(p)
    [] key \in {"repository", "apt_repository"} -> RepositoryWire(p)
    [] key = "user" -> UserWire(p) [] key = "group" -> GroupWire(p) [] key = "authorized_key" -> AuthorizedKeyWire(p)
    [] key = "getent" -> GetentWire(p) [] key = "hostname" -> HostnameWire(p) [] key = "timezone" -> TimezoneWire(p)
    [] key = "modprobe" -> ModprobeWire(p) [] key = "async_status" -> AsyncStatusWire(p)
    [] key = "iptables" -> IptablesWire(p) [] key = "ufw" -> UfwWire(p) [] key = "uri" -> UriWire(p)
    [] key = "postgresql_query" -> PostgresqlQueryWire(p) [] key = "postgresql_ext" -> PostgresqlExtWire(p)
    [] key = "get_url" -> GetUrlWire(p) [] key = "slurp" -> SlurpWire(p) [] key = "unarchive" -> UnarchiveWire(p)
    [] key = "x509_certificate_pipe" -> HandedOver(X509CertificatePipeFields(p))
    [] OTHER -> HandedOver(p)

\* What a key stands for when its value is a text, a shell command only.  An unknown
\* key is refused, but not in the mapping of a shell task.
BodyOf(key, v) == IF v[1] = "body" THEN v[2] ELSE IF key = "shell" /\ IsText(v) THEN [command |-> v] ELSE [x |-> Bad]
KeysKnown(form, key, body) == key = "shell" \/ DOMAIN body \subseteq FormKeys(form)
ReadAs(form, key, body) == KeysKnown(form, key, body) /\ FieldsRead(form, body) /\ Fits(key, Parsed(form, body))
Reads(key, body) == ReadAs(Form(key, body), key, body)

-----------------------------------------------------------------------------
(* One task to one message: the composition of the steps below.            *)

\* A mode nobody rendered is refused where it is needed as a number.
Resolved(form, p) == \A f \in DOMAIN form : form[f].kind = "mode" => ~IsTemplate(p[f])
Wired(key, form, p) ==
  IF \/ \E f \in DOMAIN p : p[f] = Bad
     \/ key # "openssl_privatekey" /\ ~Resolved(form, p)
  THEN Refused ELSE to_wire_op(key, p)
DeliveredAs(form, key, body) ==
  IF ReadAs(form, key, body) THEN Wired(key, form, RenderedOp(form, Parsed(form, body), RenderedFields(key))) ELSE Refused
Delivered(key, body) == DeliveredAs(Form(key, body), key, body)

\* `async:` wraps the op, unless it comes out as zero.
Wrapped(c, op) ==
  LET n == Rendered(c.async) IN
  IF c.async = None THEN op
  ELSE IF ~IsNumeral(n) THEN Refused
  ELSE IF Numeral(n) = Num(0) THEN op ELSE op_async_start(SecondsMs(Numeral(n)), op)

\* `environment:` goes on top of what the body says, in the ops that carry one.
Overlaid(wire, k, v) ==
  IF k \in ToSet(wire.env_keys[2])
  THEN [wire EXCEPT !.env_values[2][SelectInSeq(wire.env_keys[2], LAMBDA x : x = k)] = v]
  ELSE [wire EXCEPT !.env_keys[2] = Append(@, k), !.env_values[2] = Append(@, v)]
Environed(wire, environment) ==
  IF wire.t \in {"OpExec", "OpShell"}
  THEN FoldLeft(LAMBDA w, e : Overlaid(w, e[1], Rendered(e[2])), wire, environment[2]) ELSE wire

-----------------------------------------------------------------------------
VARIABLES
  job,
  stage,    \* of the controller: written, read, rendered, sending; or why it stopped
  task,     \* the task, once read
  op,       \* the op, parsed and then rendered
  sent,     \* the messages of this exchange
  queue,    \* those not yet written
  half,     \* the body whose length is out
  pipe,     \* the octets on their way
  up,       \* nobody closed or lost the stream
  passed,   \* how many octets have been read
  reader,   \* first, rest, body; closed, broken, garbled
  head,     \* the octets of a length that are in
  got       \* the messages read

vars == <<job, stage, task, op, sent, queue, half, pipe, up, passed, reader, head, got>>
loading == <<job, stage, task, op>>
stream == <<sent, queue, half, pipe, up, passed, reader, head, got>>

NoTask == Refused
IsDispatch(j) == "written" \in DOMAIN j

Init ==
  /\ job \in Jobs
  /\ stage = IF IsDispatch(job) THEN "written" ELSE "sending"
  /\ task = NoTask /\ op = NoTask
  /\ sent = IF IsDispatch(job) THEN <<>> ELSE job.messages
  /\ queue = sent
  /\ half = <<>> /\ pipe = <<>> /\ up = TRUE
  /\ passed = 0 /\ reader = "first" /\ head = <<>> /\ got = <<>>

-----------------------------------------------------------------------------
(* The controller.                                                         *)

\* Only ops that are read go on; what the other bodies do is the walk's.
Load ==
  /\ stage = "written"
  /\ \E t \in {TaskOf(job.written)} :
       IF t = Refused THEN stage' = "refused" /\ UNCHANGED <<task, op>>
       ELSE IF t.key \notin OpKeys THEN stage' = "kept" /\ task' = t /\ UNCHANGED op
       ELSE \E body \in {BodyOf(t.key, t.body)} : \E form \in {Form(t.key, body)} :
              IF ~ReadAs(form, t.key, body) THEN stage' = "refused" /\ UNCHANGED <<task, op>>
              ELSE stage' = "read" /\ task' = t /\ op' = Parsed(form, body)
  /\ UNCHANGED <<job, stream>>

TheBody == BodyOf(task.key, task.body)
TheForm == Form(task.key, TheBody)

Render ==
  /\ stage = "read"
  /\ \E p \in {RenderedOp(TheForm, op, RenderedFields(task.key))} :
       IF \E f \in DOMAIN p : p[f] = Bad THEN stage' = "failed" /\ UNCHANGED op
       ELSE stage' = "rendered" /\ op' = p
  /\ UNCHANGED <<job, task, stream>>

CheckMode == IF task.clauses.check_mode = None THEN Bit(job.check) ELSE task.clauses.check_mode
ToWire ==
  /\ stage = "rendered"
  /\ \E wire \in {Wired(task.key, TheForm, op)} :
       \/ wire = Refused /\ stage' = "failed" /\ UNCHANGED <<op, sent, queue>>
       \/ wire.t = "composite" /\ stage' = "handed" /\ op' = wire.p /\ UNCHANGED <<sent, queue>>
       \/ /\ wire.t \notin {"refused", "composite"}
          /\ \E whole \in {Wrapped(task.clauses, Environed(wire, task.clauses.environment))} :
               IF whole = Refused THEN stage' = "failed" /\ UNCHANGED <<sent, queue>>
               ELSE /\ stage' = "sending"
                    /\ sent' = <<task_dispatch_with_diff(Num(job.seq), CheckMode, Bit(job.diff), whole)>>
                    /\ queue' = sent'
          /\ UNCHANGED op
  /\ UNCHANGED <<job, task, half, pipe, up, passed, reader, head, got>>

-----------------------------------------------------------------------------
(* The stream.  A frame goes out in two writes; a frame over MaxFrame is   *)
(* refused before its first octet, and the sender gives the stream up.     *)

WriteLength ==
  /\ up /\ half = <<>> /\ queue # <<>>
  /\ \E octets \in {MessageOctets(Head(queue))} :
       IF Len(octets) > MaxFrame
       THEN up' = FALSE /\ UNCHANGED <<half, pipe>>
       ELSE pipe' = pipe \o Number(Len(octets), "u32") /\ half' = octets /\ UNCHANGED up
  /\ UNCHANGED <<loading, sent, queue, passed, reader, head, got>>

WriteBody ==
  /\ up /\ half # <<>>
  /\ pipe' = pipe \o half
  /\ half' = <<>> /\ queue' = Tail(queue)
  /\ UNCHANGED <<loading, sent, up, passed, reader, head, got>>

HangUp ==
  /\ up /\ stage = "sending" /\ queue = <<>>
  /\ up' = FALSE
  /\ UNCHANGED <<loading, sent, queue, half, pipe, passed, reader, head, got>>

\* The connection is lost, and with it the end of what was on its way.
Lose ==
  /\ up /\ stage = "sending" /\ job.cuts
  /\ \E n \in 0..Len(pipe) : pipe' = SubSeq(pipe, 1, n)
  /\ up' = FALSE
  /\ UNCHANGED <<loading, sent, queue, half, passed, reader, head, got>>

-----------------------------------------------------------------------------
(* The reader: read_frame, again and again.                                *)

Took(n) == pipe' = SubSeq(pipe, n + 1, Len(pipe)) /\ passed' = passed + n
EndsWithin(n) == ~up /\ Len(pipe) < n

\* An end before the first octet is a clean one, inside a frame it is an error.
ReadFirst ==
  /\ reader = "first"
  /\ \/ pipe # <<>> /\ Took(1) /\ reader' = "rest" /\ head' = <<Head(pipe)>>
     \/ EndsWithin(1) /\ reader' = "closed" /\ UNCHANGED <<pipe, passed, head>>
  /\ UNCHANGED <<loading, sent, queue, half, up, got>>

LengthRest == Width["u32"] - 1
FrameLength(octets) == TakeNumber(octets, "u32").v[2]

\* A mutant: an end inside the length passes for a clean one.
ReadRestLenient ==
  /\ reader = "rest"
  /\ \/ /\ Len(pipe) >= LengthRest
        /\ Took(LengthRest)
        /\ head' = head \o SubSeq(pipe, 1, LengthRest)
        /\ reader' = IF FrameLength(head') > MaxFrame THEN "broken" ELSE "body"
     \/ EndsWithin(LengthRest) /\ reader' = "closed" /\ UNCHANGED <<pipe, passed, head>>
  /\ UNCHANGED <<loading, sent, queue, half, up, got>>

ReadRest ==
  /\ reader = "rest"
  /\ \/ /\ Len(pipe) >= LengthRest
        /\ Took(LengthRest)
        /\ head' = head \o SubSeq(pipe, 1, LengthRest)
        /\ reader' = IF FrameLength(head') > MaxFrame THEN "broken" ELSE "body"
     \/ EndsWithin(LengthRest) /\ reader' = "broken" /\ UNCHANGED <<pipe, passed, head>>
  /\ UNCHANGED <<loading, sent, queue, half, up, got>>

ReadBody ==
  /\ reader = "body"
  /\ \E n \in {FrameLength(head)} :
       \/ /\ Len(pipe) >= n
          /\ Took(n)
          /\ head' = <<>>
          /\ \E m \in {Decoded(SubSeq(pipe, 1, n))} :
               IF m.ok THEN reader' = "first" /\ got' = Append(got, m.v) ELSE reader' = "garbled" /\ UNCHANGED got
       \/ EndsWithin(n) /\ reader' = "broken" /\ UNCHANGED <<pipe, passed, head, got>>
  /\ UNCHANGED <<loading, sent, queue, half, up>>

Next ==
  \/ Load \/ Render \/ ToWire
  \/ WriteLength \/ WriteBody \/ HangUp \/ Lose
  \/ ReadFirst \/ ReadRest \/ ReadBody

Spec == Init /\ [][Next]_vars

-----------------------------------------------------------------------------
(* What an author wrote reaches the agent.                                 *)

Minus(f, k) == [x \in DOMAIN f \ {k} |-> f[x]]

\* The fields whose expressions nobody evaluates.
Unrendered(key) ==
  CASE key = "lineinfile" -> {"regexp", "insertbefore", "insertafter"}
    [] key = "blockinfile" -> {"marker", "marker_begin", "marker_end", "insertbefore", "insertafter"}
    [] key = "openssl_csr_pipe" -> {"digest"}
    [] key = "x509_certificate_pipe" -> {"selfsigned_digest", "ownca_digest"}
    [] key = "openssl_privatekey" -> {"mode", "owner", "group"}
    [] OTHER -> {}

\* Keys that are given and have no say: the second of two names where the code takes the
\* first, what another key of ufw overrides, what is asked before the op is sent, a
\* duration of the other provider, and whatever a shell task does not know.
Overruled(form, key, body) ==
  LET Behind(f) == LET ks == SelectSeq(KeysOf(form[f], f), LAMBDA k : k \in DOMAIN body)
                   IN IF form[f].spare = "dropped" /\ Len(ks) > 1 THEN ToSet(Tail(ks)) ELSE {}
  IN UNION {Behind(f) : f \in DOMAIN form}
     \cup (CASE key = "ufw" -> {"state", "rule", "default", "policy", "logging"}
             [] key = "command" -> {"creates", "removes"}
             [] key = "x509_certificate_pipe" -> {"selfsigned_not_after"}
             [] key = "shell" -> DOMAIN body \ FormKeys(form)
             [] OTHER -> {})

FieldOf(form, k) == CHOOSE f \in DOMAIN form : k \in ToSet(KeysOf(form[f], f))
\* The value says something: it is not the default, and does not come out empty.
Says(par, v) == par.kind # "ignored" /\ Accept(par, v) # par.default /\ Rendered(Accept(par, v)) # Empty

\* No key can be left out without the agent noticing.
NoneLost(form, key, body, whole) ==
  \A k \in DOMAIN body \ Overruled(form, key, body) :
    Says(form[FieldOf(form, k)], body[k]) => Delivered(key, Minus(body, k)) # whole

\* What an argument is called on the wire, where that is another name.
WireName(key, f) ==
  CASE f \in {"timeout", "delay", "sleep"} -> f \o "_ms"
    [] f \in {"client_cert", "client_key"} -> f \o "_pem"
    [] f = "ca_path" -> "ca_bundle_pem"
    [] f = "chdir" -> "cwd"
    [] f = "jid" -> "job_id"
    [] key \in {"template", "copy"} /\ f = "dest" -> "path"
    [] key = "slurp" /\ f = "src" -> "path"
    [] OTHER -> f
FileFields == {"client_cert", "client_key", "ca_path"}

\* Each argument arrives under its own name, its expressions evaluated.
Named(form, key, body, wire) ==
  LET meant == RenderedOp(form, Parsed(form, body), DOMAIN form \ Unrendered(key))
      Value(f) ==
        CASE f \in FileFields -> Pem(meant[f])
          [] f = "jid" -> Numeral(meant[f])
          [] key = "copy" /\ f = "content" /\ meant.src # None -> FileText(meant.src)
          [] OTHER -> meant[f]
      places == [f \in DOMAIN form |-> IF WireName(key, f) \in DOMAIN wire THEN WireName(key, f) ELSE f]
  IN \A f \in {x \in DOMAIN form : places[x] \in DOMAIN wire} :
       \/ key = "command" /\ f = "argv" /\ meant[f] = None
       \/ key = "ufw" /\ f = "rule" /\ wire.op # Num(UfwKind.rule)
       \/ key = "x509_certificate_pipe" /\ f = "valid_for_days"
       \/ wire[places[f]] \in IF Value(f) = None THEN {None, Num(0), Empty} ELSE {Value(f)}

\* Where the omit sentinel is not an absent key but an empty text that says something:
\* an entry of a list, a key with a default of its own, the shell and home of a user,
\* the directory of a tempfile, and what another key of ufw overrides.
EmptySays(par, key, k) ==
  \/ par.kind = "texts"
  \/ par.default # Empty /\ IsText(par.default)
  \/ <<key, k>> \in {<<"user", "shell">>, <<"user", "home">>, <<"tempfile", "path">>}

\* An expression counts for what it yields, and the omit sentinel for an absent key,
\* where the key may be left out.
Literal(v) == IF v[1] = "jinja" THEN <<"str", v[2]>> ELSE v
TemplatesTransparent(form, key, body, whole) ==
  \A k \in DOMAIN body \cap FormKeys(form) :
    FieldOf(form, k) \notin Unrendered(key) =>
      /\ body[k][1] = "jinja" => Delivered(key, [body EXCEPT ![k] = Literal(@)]) = whole
      /\ /\ body[k][1] = "omit" /\ Reads(key, Minus(body, k))
         /\ ~EmptySays(form[FieldOf(form, k)], key, k) /\ k \notin Overruled(form, key, body)
         => Delivered(key, Minus(body, k)) = whole

\* The op is ready, and nothing of it is written.
Ready == stage = "handed" \/ (stage = "sending" /\ queue = sent /\ half = <<>> /\ up)
Inner(wire) == IF wire.t = "OpAsyncStart" THEN wire.inner ELSE wire

\* The task's environment holds where the op carries one, each name once.
EnvironmentArrives(environment, wire) ==
  wire.t \in {"OpExec", "OpShell"} =>
    /\ IsInjective(wire.env_keys[2])
    /\ \A i \in DOMAIN environment[2] : \E n \in DOMAIN wire.env_keys[2] :
         wire.env_keys[2][n] = environment[2][i][1] /\ wire.env_values[2][n] = Rendered(environment[2][i][2])

\* What a task says is what the agent gets (or the controller's own arm, for a composite):
\* every argument under its name, none lost, an expression worth what it yields.
ArgsArrive ==
  (IsDispatch(job) /\ Ready) =>
    \E body \in {TheBody} : \E form \in {TheForm} : \E whole \in {DeliveredAs(form, task.key, body)} :
      /\ Named(form, task.key, body, IF stage = "handed" THEN op ELSE Inner(sent[1].op))
      /\ stage = "sending" => EnvironmentArrives(task.clauses.environment, Inner(sent[1].op))
      /\ NoneLost(form, task.key, body, whole)
      /\ TemplatesTransparent(form, task.key, body, whole)

-----------------------------------------------------------------------------
(* The frames say what was sent.                                           *)

\* Every length that is written in 16 bits fits them.
RECURSIVE OpFits16(_)
Short(type, v) ==
  CASE type = "str" -> Len(Raw(v)) < Limit("u16")
    [] type = "strs" -> Len(v[2]) < Limit("u16") /\ \A i \in DOMAIN v[2] : Len(Raw(v[2][i])) < Limit("u16")
    [] type = "op" -> OpFits16(v)
    [] OTHER -> TRUE
AllShort(fields, m) == \A i \in DOMAIN fields : Short(fields[i][2], m[fields[i][1]])
OpFits16(o) == AllShort(OpTypes[o.t].fields, o)
Fits16(m) == AllShort(MessageTypes[m.t].fields, m)

Delivery ==
  /\ Len(got) <= Len(sent)
  /\ \A i \in DOMAIN got : (\A k \in 1..i : Fits16(sent[k])) => Same(sent[i], got[i])

\* The octets of the frames the reader has taken.
Frames(ms) == FoldLeft(LAMBDA n, m : n + Width["u32"] + Len(MessageOctets(m)), 0, ms)
Boundary == reader \in {"first", "closed"} => passed = Frames(SubSeq(sent, 1, Len(got)))

\* The reader gets what was sent, in order, as far as it went; a stream that breaks off
\* is taken for closed only between two frames; and a message is unreadable only if
\* one of its lengths did not fit.
FramesTrue ==
  /\ Delivery
  /\ Boundary
  /\ reader = "garbled" => \E i \in DOMAIN sent : ~Fits16(sent[i])

-----------------------------------------------------------------------------
(* Tasks are read for what they say.                                       *)

\* A clause that says something cannot be left out without the task changing, and a known
\* collection prefix changes nothing.
SaysClause(e) ==
  LET key == Bared(e) IN
  key \in DOMAIN Clauses /\ Accept(Clauses[key], job.written[e]) # Clauses[key].default
ClausesTaken ==
  stage \in {"kept", "read"} =>
    /\ \A e \in DOMAIN job.written : SaysClause(e) \/ Bared(e) \in BodyKeys => TaskOf(Minus(job.written, e)) # task
    /\ \A e \in DOMAIN job.written : e[1] = "fqcn" =>
         TaskOf((<<"bare", e[2]>> :> job.written[e]) @@ Minus(job.written, e)) = task

\* A query that check mode lets through changes nothing on the server.
ReadOnlyTrue ==
  (IsDispatch(job) /\ Ready /\ task.key = "postgresql_query") =>
    LET query == Inner(sent[1].op)
    IN (query.read_only = Bit(TRUE) /\ ~Misleading(query.query[2])) => ~ServerMutates(query.query[2])

TasksRead == ClausesTaken /\ ReadOnlyTrue
=============================================================================
