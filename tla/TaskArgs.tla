------------------------------ MODULE TaskArgs ------------------------------
(***************************************************************************)
(* How the body of a task is read: the helpers of task_op/shared.rs and    *)
(* what serde derives, as data.  A body is a function from the keys of its *)
(* mapping to YAML values; a form names the fields of an op and says how   *)
(* each is read; the op is a function from fields to values, or Bad.       *)
(*                                                                         *)
(* A text is <<"str", cs>>, one holding an expression that yields cs is    *)
(* <<"jinja", cs>>, and <<"omit", <<>>>> is an expression that yields the  *)
(* omit sentinel; a number below ten is written as the character of the    *)
(* same value.  A key that is null is not distinguished from an absent one.*)
(***************************************************************************)
EXTENDS WireMessages

Bad == <<"bad", <<>>>>
Must == <<"must", <<>>>>
Word(w) == <<"word", w>>
Bool(b) == <<"bool", b>>

ModeMax == 7      \* the low 12 bits of a mode
SecondMs == 2     \* milliseconds in a second
NoFile == 27      \* the name of a file that is not there

IsText(v) == v[1] \in {"str", "jinja", "omit"}
IsTemplate(v) == v[1] \in {"jinja", "omit"}

-----------------------------------------------------------------------------
(* One parameter: how its value is read, under which keys (its own name    *)
(* when none are listed), and what it is when absent.                      *)

Par(kind, default) ==
  [kind |-> kind, keys |-> <<>>, words |-> <<>>, default |-> default, spare |-> "refused"]
Keyed(keys, par) == [par EXCEPT !.keys = keys]
\* With `.or`, the keys after the first one that is there are dropped.
Either(keys, par) == [par EXCEPT !.keys = keys, !.spare = "dropped"]

Text == Par("text", Empty)
Opt == Par("text", None)
Needed == Par("text", Must)
Filled == Par("filled", Must)
Scalar(default) == Par("scalar", default)
Flag(b) == Par("flag", Bit(b))
OptFlag == Par("flag", None)
Mode(default) == Par("mode", default)
Small(type, default) == Par(type, default)      \* a number checked against the width of its field
Seconds(s) == Par("seconds", Num(SecondMs * s))
Words(table, default) == [Par("word", default) EXCEPT !.words = table]
Texts(default) == Par("texts", default)         \* a list of texts, or one
Listed == Par("list", List(<<>>))
NoPairs == <<"map", <<>>>>
Headers == Par("map", NoPairs)
Port == Par("port", None)
Count == Par("scalar", None)                    \* a number or a template, kept as a text
Ignored == Par("ignored", None)

ParseMode(cs) == IF Len(cs) = 1 /\ cs[1] <= ModeMax THEN Num(cs[1]) ELSE Bad

ValueToMode(v) ==
  CASE v[1] = "num" -> LET n == v[2] % Limit("u32") IN IF n <= ModeMax THEN Num(n) ELSE Bad
    [] v[1] = "str" -> ParseMode(v[2])
    [] IsTemplate(v) -> v
    [] OTHER -> Bad

Least(a, b) == IF a < b THEN a ELSE b

\* A number written in a text.
IsNumeral(v) == v[1] = "str" /\ Len(v[2]) = 1 /\ v[2][1] < 10
Numeral(v) == Num(v[2][1])

\* A number is cut to 32 bits; a template waits for its text.
PortOf(v) ==
  CASE v[1] = "num" -> Num(v[2] % Limit("u32"))
    [] IsTemplate(v) -> v
    [] IsNumeral(v) -> Numeral(v)
    [] OTHER -> Bad

\* A port of a PostgreSQL login: a number that fits, or a text of one; no text is no port.
LoginPort(v) ==
  CASE v[1] = "num" /\ v[2] < Limit("u16") -> v
    [] v = Empty -> Num(0)
    [] IsNumeral(v) -> Numeral(v)
    [] OTHER -> Bad

\* A number cut to 32 bits, one refused when it does not fit, and one that waits for its text.
Cut(n) == Num(n % Limit("u32"))
Millis(n) == IF SecondMs * n < Limit("u32") THEN Num(SecondMs * n) ELSE Bad
DaysOf(v) ==
  CASE IsTemplate(v) -> v
    [] IsNumeral(v) /\ Numeral(v) # Num(0) -> Numeral(v)
    [] OTHER -> Bad

\* A float is cut to the largest u32 when it does not fit.
SecondsMs(v) == IF v[1] = "num" THEN Num(Least(SecondMs * v[2], Limit("u32") - 1)) ELSE Bad

Scalars(v) == IF v[1] = "num" THEN <<"str", <<v[2]>>>> ELSE IF IsText(v) THEN v ELSE Bad

StringList(v) ==
  CASE v[1] = "list" /\ (\A i \in DOMAIN v[2] : IsText(v[2][i])) -> v
    [] IsText(v) -> List(<<v>>)
    [] OTHER -> Bad

\* One status code or several, each between 100 and 599 (10 and 30 here).
StatusCodes(v) ==
  LET codes == IF v[1] = "num" THEN List(<<v>>) ELSE v IN
  IF codes[1] = "list" /\ codes # List(<<>>) /\ (\A i \in DOMAIN codes[2] : codes[2][i][1] = "num" /\ codes[2][i][2] \in 10..30)
  THEN codes ELSE Bad

\* Conditions are kept as the list of their conjuncts; no conjunct is no condition.
IsCondition(v) == IsText(v) \/ v[1] = "bool"
Condition(v) ==
  LET parts == IF IsCondition(v) THEN List(<<v>>) ELSE v IN
  IF parts[1] # "list" \/ (\E i \in DOMAIN parts[2] : ~IsCondition(parts[2][i])) THEN Bad
  ELSE IF parts = List(<<>>) THEN None ELSE parts

\* A mapping whose values are scalars, kept as texts.
ScalarMap(v) ==
  IF v[1] # "map" THEN Bad
  ELSE LET Kept(x) == IF x[1] = "bool" THEN <<"str", <<Bit(x[2])[2]>>>> ELSE Scalars(x)
           kept == [i \in DOMAIN v[2] |-> <<v[2][i][1], Kept(v[2][i][2])>>]
       IN IF \E i \in DOMAIN kept : kept[i][2] = Bad THEN Bad ELSE <<"map", kept>>

\* A value given for a parameter.
Accept(par, v) ==
  CASE par.kind = "text" -> IF IsText(v) THEN v ELSE Bad
    [] par.kind = "filled" -> IF IsText(v) /\ v # Empty THEN v ELSE Bad
    [] par.kind = "scalar" -> Scalars(v)
    [] par.kind = "flag" -> IF v[1] = "bool" THEN Bit(v[2]) ELSE Bad
    [] par.kind = "mode" -> ValueToMode(v)
    [] par.kind = "port" -> PortOf(v)
    [] par.kind = "loginport" -> LoginPort(v)
    [] par.kind = "cut" -> IF v[1] = "num" THEN Cut(v[2]) ELSE Bad
    [] par.kind = "millis" -> IF v[1] = "num" THEN Millis(v[2]) ELSE Bad
    [] par.kind = "cutmillis" -> IF v[1] = "num" THEN Cut(SecondMs * v[2]) ELSE Bad
    [] par.kind = "days" -> DaysOf(v)
    [] par.kind = "seconds" -> SecondsMs(v)
    [] par.kind = "word" -> IF v[1] = "word" /\ v[2] \in DOMAIN par.words THEN Num(par.words[v[2]]) ELSE Bad
    [] par.kind = "texts" -> StringList(v)
    [] par.kind = "list" -> IF v[1] = "list" THEN StringList(v) ELSE Bad
    [] par.kind = "scalars" ->
         IF v[1] # "list" THEN Bad ELSE StringList(List([i \in DOMAIN v[2] |-> Scalars(v[2][i])]))
    [] par.kind = "codes" -> StatusCodes(v)
    [] par.kind = "map" -> IF v[1] = "map" THEN v ELSE Bad
    [] par.kind = "scalarmap" -> ScalarMap(v)
    [] par.kind = "condition" -> Condition(v)
    [] par.kind = "until" -> IF v[1] = "bool" \/ v = List(<<>>) THEN Bad ELSE Condition(StringList(v))
    [] par.kind = "tags" -> IF Empty \in ToSet(StringList(v)[2]) THEN Bad ELSE StringList(v)
    [] par.kind = "items" -> IF IsText(v) \/ v[1] = "list" THEN v ELSE Bad
    [] par.kind = "sequence" -> IF v[1] = "list" THEN v ELSE Bad
    [] par.kind = "ignored" -> None
    [] par.kind = "pass" -> v
    [] OTHER -> IF v[1] = "num" /\ v[2] < Limit(par.kind) THEN v ELSE Bad

KeysOf(par, field) == IF par.keys = <<>> THEN <<field>> ELSE par.keys

\* One of its keys is taken: the first, where several may be given.
Taken(par, field, body) ==
  LET given == SelectSeq(KeysOf(par, field), LAMBDA k : k \in DOMAIN body)
  IN IF Len(given) > 1 /\ par.spare = "refused" THEN Bad
     ELSE IF given # <<>> THEN Accept(par, body[Head(given)])
     ELSE IF par.default = Must THEN Bad ELSE par.default

FormKeys(form) == UNION {ToSet(KeysOf(form[f], f)) : f \in DOMAIN form}

\* Every field is read and every key is known, or the playbook is refused.
Parsed(form, body) == [f \in DOMAIN form |-> Taken(form[f], f, body)]
FieldsRead(form, body) == \A f \in DOMAIN form : Taken(form[f], f, body) # Bad
Readable(form, body) == DOMAIN body \subseteq FormKeys(form) /\ FieldsRead(form, body)

-----------------------------------------------------------------------------
(* Rendering.                                                              *)

RECURSIVE Rendered(_)
Rendered(v) ==
  CASE v[1] = "jinja" -> <<"str", v[2]>>
    [] v[1] = "omit" -> Empty
    [] v[1] = "list" -> <<"list", [i \in DOMAIN v[2] |-> Rendered(v[2][i])]>>
    [] v[1] = "map" -> <<"map", [i \in DOMAIN v[2] |-> <<v[2][i][1], Rendered(v[2][i][2])>>]>>
    [] OTHER -> v

\* resolve_mode: what a template yields is parsed like a literal.
ResolvedMode(v) == IF IsTemplate(v) THEN ParseMode(Rendered(v)[2]) ELSE v

\* wait_for parses the port a template yields; zero is no port.
ResolvedPort(v) ==
  IF ~IsTemplate(v) THEN v
  ELSE IF IsNumeral(Rendered(v)) /\ Numeral(Rendered(v)) # Num(0) THEN Numeral(Rendered(v)) ELSE Bad

\* A duration a template yields is parsed like a literal.
ResolvedDays(v) == IF IsTemplate(v) THEN DaysOf(Rendered(v)) ELSE v

\* The op with the listed fields rendered, its mode and port resolved; the others keep their braces.
RenderedOp(form, op, fields) ==
  [f \in DOMAIN op |->
     CASE f \notin fields -> op[f]
       [] form[f].kind = "mode" -> ResolvedMode(op[f])
       [] form[f].kind = "port" -> ResolvedPort(op[f])
       [] form[f].kind = "days" -> ResolvedDays(op[f])
       [] OTHER -> Rendered(op[f])]

-----------------------------------------------------------------------------
(* What the ops' to_wire_op arms share.                                    *)

Refused == [t |-> "refused"]
\* An op the controller carries out itself: its fields, for the composites.
HandedOver(p) == [t |-> "composite", p |-> p]
Checked(ok, op) == IF ok THEN op ELSE Refused

\* The headers (or the environment) of an op, as two lists.
MapKeys(v) == List([i \in DOMAIN v[2] |-> v[2][i][1]])
MapValues(v) == List([i \in DOMAIN v[2] |-> v[2][i][2]])

\* A file on the controller holds an expression that yields its own name.
IsFile(path) == NoFile \notin ToSet(path[2])
FileText(path) == <<"jinja", path[2]>>

\* read_pem_if_set
Pem(path) == IF path = Empty THEN Empty ELSE FileText(path)
=============================================================================
