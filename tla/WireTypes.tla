------------------------------ MODULE WireTypes ------------------------------
(***************************************************************************)
(* The frames of the agent protocol, octet by octet: the types of          *)
(* generated.rs, the numbers and length prefixes of the bit stream, and    *)
(* framing.rs.                                                             *)
(*                                                                         *)
(* Scaled down: an octet holds Base values, u8 and u16 take one octet, u32 *)
(* two and u64 three, so a 16-bit length wraps at Base and a 32-bit one at *)
(* Base * Base.  A text is a tagged sequence of characters; Wide stands    *)
(* for a character of two octets.                                          *)
(***************************************************************************)
EXTENDS Integers, SequencesExt

Base == 32
Braces == 28   \* what is left of an expression nobody rendered
Wide == 29     \* a character that takes two octets, Lead and Trail
Lead == 30
Trail == 31
MaxFrame == 130   \* MAX_FRAME_LEN

-----------------------------------------------------------------------------
(* The types: the kind octet, then the fields in this order.               *)

Type(kind, fields) == [kind |-> kind, fields |-> fields]
U8(f) == <<f, "u8">>
U16(f) == <<f, "u16">>
U32(f) == <<f, "u32">>
U64(f) == <<f, "u64">>
I32(f) == <<f, "i32">>
Str(f) == <<f, "str">>
Str32(f) == <<f, "str32">>
Strs(f) == <<f, "strs">>
Strs32(f) == <<f, "strs32">>
Bytes(f) == <<f, "bytes">>
U16s(f) == <<f, "u16s">>
Nested(f) == <<f, "op">>

OpExec == Type(0, <<Strs("argv"), Strs("env_keys"), Strs("env_values"), Str("cwd"),
  Bytes("stdin"), U32("timeout_ms")>>)
OpShell == Type(1, <<Str("command"), Strs("env_keys"), Strs("env_values"), U32("timeout_ms")>>)
OpWriteFile == Type(2, <<Str("path"), U32("mode"), U8("only_if_missing"), Bytes("content"),
  Str("validate"), Str("owner"), Str("group")>>)
OpGatherFacts == Type(3, <<>>)
OpStat == Type(4, <<Str("path"), U8("follow")>>)
OpWaitFor == Type(6, <<Str("host"), U32("port"), Str("path"), U8("state"), U32("timeout_ms"),
  U32("delay_ms"), U32("sleep_ms")>>)
OpFile == Type(5, <<Str("path"), U8("state"), U8("has_mode"), U32("mode"), Str("owner"),
  Str("group"), U8("recurse"), Str("src")>>)
OpLineInFile == Type(7, <<Str("path"), Str("regexp"), Str32("line"), U8("state"),
  U8("has_mode"), U32("mode"), U8("create"), Str("insertbefore"), Str("insertafter"),
  U8("backrefs"), Str("validate")>>)
OpBlockInFile == Type(8, <<Str("path"), Str32("block"), Str("marker"), Str("marker_begin"),
  Str("marker_end"), U8("state"), U8("has_mode"), U32("mode"), U8("create"),
  Str("insertbefore"), Str("insertafter"), Str("validate")>>)
OpPackage == Type(10, <<U8("manager"), Strs("names"), U8("state"), U8("update_cache"),
  U32("cache_valid_time"), U8("purge"), U8("autoremove"), Str("default_release"),
  U8("allow_unauthenticated"), Str("virtualenv"), Str("virtualenv_command")>>)
OpSystemd == Type(9, <<Str("name"), U8("state"), U8("has_enabled"), U8("enabled"),
  U8("has_masked"), U8("masked"), U8("daemon_reload"), U8("no_block")>>)
OpUfw == Type(11, <<U8("op"), Str("rule"), Str("direction"), Str("proto"), Str("from_ip"),
  Str("from_port"), Str("to_ip"), Str("to_port"), Str("interface"), Str("comment"),
  U8("delete"), U32("insert")>>)
OpIptables == Type(20, <<Str("table"), Str("chain"), Str("protocol"), Str("source"),
  Str("destination"), Str("source_port"), Str("destination_port"), Str("in_interface"),
  Str("out_interface"), Str("jump"), Str("ctstate"), Str("comment"), U8("ip_version"),
  U8("action"), U8("rule_state")>>)
OpRepository == Type(21, <<U8("manager"), Str("repo"), U8("state"), Str("filename"),
  U32("mode"), U8("update_cache")>>)
OpGroup == Type(23, <<Str("name"), U8("state"), U8("system")>>)
OpUser == Type(22, <<Str("name"), U8("state"), U8("system"), U8("has_shell"), Str("shell"),
  U8("has_home"), Str("home"), U8("create_home"), Str("primary_group"), Strs("groups"),
  U8("append")>>)
OpAuthorizedKey == Type(24, <<Str("user"), Str("key"), U8("state"), U8("exclusive")>>)
OpGetent == Type(25, <<Str("database"), Str("key"), U8("fail_key"), Str("split")>>)
OpHostname == Type(26, <<Str("name")>>)
OpTimezone == Type(27, <<Str("name")>>)
OpModprobe == Type(29, <<Str("name"), U8("state"), Str("params")>>)
OpUri == Type(12, <<U8("method"), Str("url"), Strs("header_keys"), Strs("header_values"),
  Bytes("body"), U8("body_format"), U16s("status_codes"), U32("timeout_ms"),
  U8("return_content"), U8("validate_certs"), U8("follow_redirects"),
  Bytes("client_cert_pem"), Bytes("client_key_pem"), Bytes("ca_bundle_pem")>>)
OpPostgresqlQuery == Type(13, <<Str32("query"), Str("db"), Str("login_user"),
  Str("login_password"), Str("login_unix_socket"), Str("login_host"), U16("login_port"),
  U8("autocommit"), Strs32("positional_args"), U8("read_only")>>)
OpPostgresqlExt == Type(14, <<Str("name"), U8("state"), Str("version"), Str("ext_schema"),
  U8("cascade"), Str("db"), Str("login_user"), Str("login_password"),
  Str("login_unix_socket"), Str("login_host"), U16("login_port")>>)
OpGetUrl == Type(15, <<Str("url"), Str("dest"), Str("checksum"), U32("mode"), Str("owner"),
  Str("group"), Strs("header_keys"), Strs("header_values"), U32("timeout_ms"), U8("force"),
  U8("validate_certs"), U8("follow_redirects"), Bytes("client_cert_pem"),
  Bytes("client_key_pem"), Bytes("ca_bundle_pem")>>)
OpAsyncStart == Type(16, <<U32("timeout_ms"), Nested("inner")>>)
OpAsyncStatus == Type(17, <<U32("job_id")>>)
OpReadFile == Type(18, <<Str("path"), U32("max_bytes")>>)
OpUnarchive == Type(19, <<Str("src"), Str("dest"), U8("format"), Str("creates"),
  U8("has_mode"), U32("mode"), Str("owner"), Str("group"), U8("keep_newer"),
  U8("list_files"), Strs("include"), Strs("exclude")>>)
OpCopyTarget == Type(28, <<Str("src"), Str("dest"), U8("has_mode"), U32("mode"),
  Str("owner"), Str("group"), Str("validate")>>)

OpTypes ==
  [OpExec |-> OpExec, OpShell |-> OpShell, OpWriteFile |-> OpWriteFile,
   OpGatherFacts |-> OpGatherFacts, OpStat |-> OpStat, OpWaitFor |-> OpWaitFor,
   OpFile |-> OpFile, OpLineInFile |-> OpLineInFile, OpBlockInFile |-> OpBlockInFile,
   OpPackage |-> OpPackage, OpSystemd |-> OpSystemd, OpUfw |-> OpUfw,
   OpIptables |-> OpIptables, OpRepository |-> OpRepository, OpGroup |-> OpGroup,
   OpUser |-> OpUser, OpAuthorizedKey |-> OpAuthorizedKey, OpGetent |-> OpGetent,
   OpHostname |-> OpHostname, OpTimezone |-> OpTimezone, OpModprobe |-> OpModprobe,
   OpUri |-> OpUri, OpPostgresqlQuery |-> OpPostgresqlQuery,
   OpPostgresqlExt |-> OpPostgresqlExt, OpGetUrl |-> OpGetUrl, OpAsyncStart |-> OpAsyncStart,
   OpAsyncStatus |-> OpAsyncStatus, OpReadFile |-> OpReadFile, OpUnarchive |-> OpUnarchive,
   OpCopyTarget |-> OpCopyTarget]

Hello == Type(0, <<U8("arch"), U8("os"), Str("kernel"), Str("hostname"), U32("uid"),
  U32("gid"), Str("agent_version")>>)
TaskDispatch == Type(1, <<U32("seq"), U8("check_mode"), U8("diff"), Nested("op")>>)
TaskProgress == Type(2, <<U32("seq"), U8("stream"), Bytes("chunk")>>)
TaskDone == Type(3, <<U32("seq"), I32("exit_code"), U8("changed"), U8("skipped"),
  U64("started_unix_ns"), U64("finished_unix_ns"), Str32("diff")>>)
TaskError == Type(4, <<U32("seq"), U8("code"), Str("message")>>)
Bye == Type(5, <<>>)
Ping == Type(6, <<>>)
Pong == Type(7, <<U64("agent_recv_unix_ns"), U64("agent_sent_unix_ns")>>)

MessageTypes ==
  [Hello |-> Hello, TaskDispatch |-> TaskDispatch, TaskProgress |-> TaskProgress,
   TaskDone |-> TaskDone, TaskError |-> TaskError, Bye |-> Bye, Ping |-> Ping, Pong |-> Pong]

-----------------------------------------------------------------------------
(* Encoding.  A value is <<"num", n>>, a text, <<"list", values>>, or the  *)
(* record of a nested op; a text that was never rendered keeps its braces. *)

Width == [u8 |-> 1, u16 |-> 1, u32 |-> 2, i32 |-> 2, u64 |-> 3]
Limit(type) == Base ^ Width[type]

\* A number in its octets, least significant first: what does not fit is cut off.
Number(n, type) == [i \in 1..Width[type] |-> (n \div Base ^ (i - 1)) % Base]

Utf8(text) == FlattenSeq([i \in DOMAIN text |-> IF text[i] = Wide THEN <<Lead, Trail>> ELSE <<text[i]>>])

\* The octets of a text.
Raw(v) ==
  CASE v[1] = "raw" -> v[2]
    [] v[1] = "str" -> Utf8(v[2])
    [] OTHER -> Utf8(<<Braces>> \o v[2])

Prefixed(octets, type) == Number(Len(octets), type) \o octets

\* A sequence of texts: the number of them, then each with its length.
Counted(vs, Item(_)) == Number(Len(vs), "u16") \o FlattenSeq([i \in DOMAIN vs |-> Item(vs[i])])

RECURSIVE OpOctets(_)
FieldOctets(v, type) ==
  CASE type = "str" -> Prefixed(Raw(v), "u16")
    [] type \in {"str32", "bytes"} -> Prefixed(Raw(v), "u32")
    [] type = "strs" -> Counted(v[2], LAMBDA s : Prefixed(Raw(s), "u16"))
    [] type = "strs32" -> Counted(v[2], LAMBDA s : Prefixed(Raw(s), "u32"))
    [] type = "u16s" -> Counted(v[2], LAMBDA n : Number(n[2], "u16"))
    [] type = "op" -> OpOctets(v)
    [] OTHER -> Number(v[2], type)

Octets(type, m) ==
  <<type.kind>> \o FlattenSeq([i \in DOMAIN type.fields |->
                                  FieldOctets(m[type.fields[i][1]], type.fields[i][2])])

OpOctets(op) == Octets(OpTypes[op.t], op)
MessageOctets(m) == Octets(MessageTypes[m.t], m)

-----------------------------------------------------------------------------
(* Decoding: reads from the front, leaves the rest, or fails.              *)

Read(v, rest) == [ok |-> TRUE, v |-> v, rest |-> rest]
Unreadable == [ok |-> FALSE, v |-> <<"none", <<>>>>, rest |-> <<>>]

\* What was read is handed on with the rest, a failure is kept.
Then(got, Rest(_, _)) == IF got.ok THEN Rest(got.v, got.rest) ELSE got

Take(os, n) ==
  IF Len(os) < n THEN Unreadable ELSE Read(<<"raw", SubSeq(os, 1, n)>>, SubSeq(os, n + 1, Len(os)))

NumberOf(os) == FoldRight(LAMBDA o, n : o + Base * n, os, 0)
Signed(n, type) == IF type = "i32" /\ 2 * n >= Limit(type) THEN n - Limit(type) ELSE n
TakeNumber(os, type) ==
  Then(Take(os, Width[type]), LAMBDA v, rest : Read(<<"num", Signed(NumberOf(v[2]), type)>>, rest))

\* from_utf8: every lead octet is followed by its trail, and no trail stands alone.
IsUtf8(os) ==
  /\ \A i \in DOMAIN os : os[i] = Lead => i < Len(os) /\ os[i + 1] = Trail
  /\ \A i \in DOMAIN os : os[i] = Trail => i > 1 /\ os[i - 1] = Lead

TakeBytes(os, type) == Then(TakeNumber(os, type), LAMBDA n, rest : Take(rest, n[2]))

TakeText(os, type) ==
  Then(TakeBytes(os, type), LAMBDA v, rest : IF IsUtf8(v[2]) THEN Read(v, rest) ELSE Unreadable)

TakeCounted(os, Item(_)) ==
  LET Add(vs, left) == Then(Item(left), LAMBDA v, more : Read(<<"list", Append(vs[2], v)>>, more))
  IN Then(TakeNumber(os, "u16"),
          LAMBDA n, rest : FoldLeft(LAMBDA done, i : Then(done, Add), Read(<<"list", <<>>>>, rest), [i \in 1..n[2] |-> i]))

RECURSIVE TakeOp(_)
TakeField(os, type) ==
  CASE type = "str" -> TakeText(os, "u16")
    [] type = "str32" -> TakeText(os, "u32")
    [] type = "bytes" -> TakeBytes(os, "u32")
    [] type = "strs" -> TakeCounted(os, LAMBDA r : TakeText(r, "u16"))
    [] type = "strs32" -> TakeCounted(os, LAMBDA r : TakeText(r, "u32"))
    [] type = "u16s" -> TakeCounted(os, LAMBDA r : TakeNumber(r, "u16"))
    [] type = "op" -> TakeOp(os)
    [] OTHER -> TakeNumber(os, type)

\* The kind octet picks the type; the fields follow in order.
TakeFields(start, fields) ==
  FoldLeft(LAMBDA done, f :
             Then(done, LAMBDA m, left : Then(TakeField(left, f[2]), LAMBDA v, more : Read((f[1] :> v) @@ m, more))),
           start, fields)
TakeKinded(os, types) ==
  IF os = <<>> \/ (\A t \in DOMAIN types : types[t].kind # Head(os)) THEN Unreadable
  ELSE LET t == CHOOSE x \in DOMAIN types : types[x].kind = Head(os)
       IN TakeFields(Read([t |-> t], Tail(os)), types[t].fields)

TakeOp(os) == TakeKinded(os, OpTypes)

\* Message::decode: what follows the message is not looked at.
Decoded(os) == TakeKinded(os, MessageTypes)

-----------------------------------------------------------------------------
(* Two messages that say the same, one as sent and one as read.            *)

RECURSIVE SameOp(_, _)
SameValue(type, sent, got) ==
  CASE type \in {"str", "str32", "bytes"} -> Raw(sent) = Raw(got)
    [] type \in {"strs", "strs32"} ->
         /\ Len(sent[2]) = Len(got[2])
         /\ \A i \in DOMAIN sent[2] : Raw(sent[2][i]) = Raw(got[2][i])
    [] type = "op" -> SameOp(sent, got)
    [] OTHER -> sent[2] = got[2]
SameFields(fields, sent, got) == \A i \in DOMAIN fields : SameValue(fields[i][2], sent[fields[i][1]], got[fields[i][1]])
SameOp(sent, got) == sent.t = got.t /\ SameFields(OpTypes[sent.t].fields, sent, got)
Same(sent, got) == sent.t = got.t /\ SameFields(MessageTypes[sent.t].fields, sent, got)
=============================================================================
