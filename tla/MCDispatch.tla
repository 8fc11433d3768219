---------------------------- MODULE MCDispatch ----------------------------
(***************************************************************************)
(* The jobs of the run.  Per op: what it must have, with up to two more of *)
(* its keys, every key with a text of its own; one argument as a template, *)
(* an omitted one, an unknown key, a missing one.  SQL texts; clauses      *)
(* around a short body; long and wide texts; an agent's messages.          *)
(***************************************************************************)
EXTENDS Dispatch

Lit(cs) == <<"str", cs>>
Jinja(cs) == <<"jinja", cs>>
Omit == <<"omit", <<>>>>
Mapping(b) == <<"body", b>>

\* A text for the i-th key of a form, with no digit and no character that means something.
TextFor(i) == IF i <= 14 THEN <<9 + i>> ELSE <<i - 5, 10>>

ValuesOf(par, c) ==
  CASE par.kind \in {"text", "filled"} -> IF par.default = Lit(<<Mark>>) THEN {Lit(<<Mark>> \o c)} ELSE {Lit(c)}
    [] par.kind = "scalar" -> {Lit(c), Num(3)}
    [] par.kind = "flag" -> {Bool(TRUE), Bool(FALSE)}
    [] par.kind = "mode" -> {Lit(<<5>>), Num(9)}
    [] par.kind = "word" -> {Word(w) : w \in DOMAIN par.words} \cup {Word("unheard_of")}
    [] par.kind \in {"texts", "list", "scalars"} -> {List(<<Lit(c), Lit(<<4>>)>>)}
    [] par.kind = "loginport" -> {Num(3), Num(Limit("u16")), Lit(<<4>>), Lit(c), Empty}
    [] par.kind = "codes" -> {Num(21), List(<<Num(12), Num(13)>>), Num(3)}
    [] par.kind = "days" -> {Lit(<<3>>)}
    [] par.kind = "map" -> {<<"map", <<<<Lit(c), Lit(<<4>>)>>>>>>}
    [] par.kind = "scalarmap" -> {<<"map", <<<<Lit(c), Num(4)>>>>>>}
    [] par.kind = "ignored" -> {Lit(c)}
    [] OTHER -> {Num(3)}

\* The same as an expression that yields it, where that can be said.
Templated(par, v) ==
  CASE v[1] = "str" -> Jinja(v[2])
    [] v[1] = "num" /\ par.kind \in {"mode", "port", "days"} -> Jinja(<<v[2]>>)
    [] v[1] = "list" /\ v[2][1][1] = "str" -> List([i \in DOMAIN v[2] |-> Jinja(v[2][i][2])])
    [] par.kind = "map" -> <<"map", <<<<v[2][1][1], Jinja(v[2][1][2][2])>>>>>>
    [] OTHER -> v

-----------------------------------------------------------------------------
(* Bodies of the ops.                                                      *)

\* What a body must have beside its required fields.
Seeds(key) ==
  CASE key = "copy" -> {{"src"}, {"content"}, {"src", "remote_src"}}
    [] key = "command" -> {{"cmd"}, {"argv"}}
    [] key \in {"systemd", "service"} -> {{"name", "state"}, {"daemon_reload"}}
    [] key \in {"apt", "pip", "package"} -> {{"name"}}
    [] key = "lineinfile" -> {{"line"}}
    [] key = "unarchive" -> {{"remote_src"}}
    [] key = "ufw" -> {{"rule"}, {"state"}, {"policy"}, {"logging"}}
    [] key = "x509_certificate_pipe" -> {{"privatekey_content"}, {"provider", "ownca_content", "ownca_privatekey_path"}}
    [] OTHER -> {{}}

\* A form's keys in some order, and what may be given for each.
Table(form) ==
  LET keys == FoldSet(LAMBDA k, ks : Append(ks, k), <<>>, FormKeys(form))
      par == [k \in FormKeys(form) |-> form[FieldOf(form, k)]]
      values == [k \in FormKeys(form) |-> ValuesOf(par[k], TextFor(CHOOSE i \in DOMAIN keys : keys[i] = k))]
      Telling(k) == {v \in values[k] : Accept(par[k], v) \notin {Bad, par[k].default}}
  IN [k \in FormKeys(form) |->
        [values |-> values[k],
         good |-> IF Telling(k) = {} THEN CHOOSE v \in values[k] : TRUE ELSE CHOOSE v \in Telling(k) : TRUE,
         more |-> {Templated(par[k], v) : v \in values[k]} \cup {Omit}]]

BodiesOf(key, form) ==
  LET table == Table(form)
      must == {Head(KeysOf(form[f], f)) : f \in {x \in DOMAIN form : form[x].default = Must}}
      Good(ks) == [k \in ks |-> table[k].good]
      bases == {must \cup b : b \in Seeds(key)}
      \* one key with every value, and two more keys with one each
      one == UNION {UNION {{(k :> v) @@ Good(b) : v \in table[k].values \cup table[k].more} : k \in DOMAIN table} : b \in bases}
      two == UNION {{Good(b \cup {k, l}) : k \in DOMAIN table, l \in DOMAIN table} : b \in bases}
      fewer == UNION {{Good(b \ {k}) : k \in b} : b \in bases}
      odd == {("unheard_of" :> Lit(<<10>>)) @@ Good(b) : b \in bases}
      evaluated == {[k \in b |-> CHOOSE v \in table[k].more : v # Omit] : b \in bases}
  IN one \cup two \cup fewer \cup odd \cup evaluated

Task(written) == [written |-> written, seq |-> 3, check |-> FALSE, diff |-> TRUE, cuts |-> FALSE]
Bare(key, v) == (<<"bare", key>> :> v)
OpJobs ==
  UNION {{Task(Bare(key, Mapping(b))) : b \in BodiesOf(key, Form(key, <<>>))} : key \in OpKeys}
  \cup {Task(Bare("package", Mapping(b))) : b \in {x \in BodiesOf("apt", PackageOp("apt")) : "manager" \in DOMAIN x}}
  \cup {Task(Bare("shell", v)) : v \in {Lit(<<10>>), Jinja(<<11>>), List(<<>>)}}

\* An environment over that of the body.
Env(k, v) == <<"map", <<<<Lit(<<k>>), v>>, <<Lit(<<12>>), Lit(<<13>>)>>>>>>
EnvJobs ==
  {Task((<<"bare", "environment">> :> e) @@ b) :
     e \in {Env(10, Jinja(<<14>>)), Env(11, Num(3)), Env(18, Lit(<<15>>))},
     b \in {Bare("exec", Mapping([argv |-> List(<<Lit(<<16>>)>>), env |-> Env(k, Lit(<<17>>))])) : k \in {10, 11}}
           \cup {Bare("shell", Lit(<<10>>)), Bare("command", Lit(<<10>>)), Bare("hostname", Mapping([name |-> Lit(<<12>>)]))}}

\* Lengths around what 16 bits and a frame hold; a wide character across the end.
Long(n) == Lit([i \in 1..n |-> 10])
WideText(n) == Lit([i \in 1..n |-> IF i = 1 THEN 10 ELSE Wide])
LongJobs ==
  {Task(Bare("hostname", Mapping([name |-> v]))) : v \in {Long(n) : n \in {31, 32, 33, 64}} \cup {WideText(16), WideText(17)}}
  \cup {Task(Bare("write_file", Mapping([path |-> p, mode |-> Lit(<<5>>), content |-> c]))) :
          p \in {Lit(<<10>>), Long(40)}, c \in {Long(n) : n \in {31, 40, 100, 130}} \cup {WideText(20)}}
  \cup {Task(Bare("shell", Mapping([command |-> Long(n), timeout_ms |-> Num(Base ^ 2 - m)]))) : n \in {33, 120}, m \in {0, 1}}
  \cup {Task(Bare("exec", Mapping([argv |-> List([i \in 1..n |-> Lit(<<>>)])]))) : n \in {31, 32, 34}}

-----------------------------------------------------------------------------
(* SQL texts.                                                              *)

Heads == {<<ReadWord>>, <<Mut>>, <<With, Name>>, <<Explain>>, <<Explain, Analyze>>, <<Explain, LParen, Analyze>>,
          <<LParen, ReadWord>>}
Tails == {<<>>, <<Mut>>, <<RParen, Mut>>, <<Semi, Mut>>, <<Dollar, Semi, Mut>>}
\* Options in odd forms: a quoted name, a value right behind the name, off and on again.
Blocks == {<<DQuote, Analyze, DQuote>>, <<Analyze, DQuote, Name, DQuote>>, <<Analyze, Off>>, <<Analyze, Off, Comma, Verbose>>,
           <<Analyze, Off, Comma, Analyze>>, <<Analyze, Comma, Analyze, Off>>, <<Verbose, Off, Comma, Analyze>>}
SqlTexts ==
  {x \in {h \o <<a, b>> \o t : h \in Heads, a \in Elements, b \in Elements, t \in Tails} :
     \A i \in 2..Len(x) : {x[i - 1], x[i]} # {Close}}
  \cup {<<Explain, LParen>> \o o \o <<RParen>> \o t : o \in Blocks, t \in {<<Mut>>, <<ReadWord>>, <<With, Name, Mut>>}}
  \cup {<<With, Name, Newline, q, e, q, Mut>> : q \in {Quote, DQuote, Dollar}, e \in Elements}
SqlJobs == {Task(Bare("postgresql_query", Mapping([query |-> Lit(x)]))) : x \in SqlTexts}

-----------------------------------------------------------------------------
(* Clauses.                                                                *)

ClauseValues(f) ==
  CASE Clauses[f].kind = "condition" -> {Lit(<<10>>), Bool(TRUE), List(<<Lit(<<10>>), Bool(FALSE)>>), List(<<>>), Num(3)}
    [] Clauses[f].kind = "until" -> {Lit(<<10>>), List(<<Lit(<<10>>), Lit(<<11>>)>>), List(<<>>), Bool(TRUE)}
    [] Clauses[f].kind \in {"texts", "tags"} -> {Lit(<<10>>), List(<<Lit(<<10>>), Lit(<<11>>)>>), List(<<>>), Lit(<<>>)}
    [] Clauses[f].kind = "items" -> {Jinja(<<10>>), List(<<Num(1), Num(2)>>), Bool(TRUE)}
    [] Clauses[f].kind = "sequence" -> {List(<<Word("task")>>), List(<<>>), Lit(<<10>>)}
    [] Clauses[f].kind = "pass" -> {Mapping([loop_var |-> Lit(<<10>>)]), Mapping([label |-> Lit(<<10>>), pause |-> Num(1)]), Num(3)}
    [] Clauses[f].kind = "scalar" -> {Num(3), Num(0), Jinja(<<4>>), Jinja(<<10>>), Bool(TRUE)}
    [] OTHER -> ValuesOf(Clauses[f], <<10>>)
Sound(f) == CHOOSE v \in ClauseValues(f) : Accept(Clauses[f], v) \notin {Bad, Clauses[f].default}
\* delegate_facts has no value that is taken and says something.
GoodClause(f) == IF f = "delegate_facts" THEN Bool(FALSE) ELSE Sound(f)

ShortBodies ==
  {Bare("hostname", Mapping([name |-> Lit(<<12>>)])), Bare("block", List(<<Word("task")>>)),
   Bare("include_role", Mapping([name |-> Lit(<<12>>)]))}
Partner == [until |-> {"register"}, poll |-> {"async"}, delay |-> {"retries"}]
WithClauses(fs) ==
  LET all == fs \cup UNION {IF f \in DOMAIN Partner THEN Partner[f] ELSE {} : f \in fs}
  IN [e \in {<<"bare", f>> : f \in all} |-> GoodClause(e[2])]
ClauseJobs ==
  {Task(b @@ WithClauses({f, g})) : b \in ShortBodies, f \in DOMAIN Clauses, g \in DOMAIN Clauses}
  \cup UNION {{Task(b @@ Bare(f, v)) : b \in ShortBodies, v \in ClauseValues(f)} : f \in DOMAIN Clauses}
  \cup UNION {{Task((<<s, f>> :> GoodClause(f)) @@ b) : s \in {"fqcn", "foreign"}, b \in ShortBodies} : f \in DOMAIN Clauses}
  \cup {[Task(b @@ WithClauses({"check_mode", "async"})) EXCEPT !.check = c, !.cuts = TRUE] : b \in ShortBodies, c \in BOOLEAN}

PlainValues(key) ==
  IF key \in DOMAIN BodyForms
  THEN {Mapping(b) : b \in BodiesOf(key, [f \in DOMAIN BodyForms[key] |->
          IF BodyForms[key][f].kind = "pass" THEN [BodyForms[key][f] EXCEPT !.kind = "scalar"] ELSE BodyForms[key][f]])}
       \cup {Lit(<<10>>), List(<<>>)}
  ELSE {Lit(<<10>>), List(<<>>), List(<<Word("task"), Word("task")>>), <<"map", <<>>>>, Word("flush_handlers"), Word("end_play")}
BodyJobs ==
  UNION {{Task(Bare(key, v)) : v \in PlainValues(key)} : key \in PlainBodies}
  \cup {Task(b @@ c) : b \in ShortBodies, c \in ShortBodies}
  \cup {Task((<<"fqcn", e[2]>> :> v) @@ b) : b \in ShortBodies, e \in {<<"bare", "hostname">>, <<"bare", "block">>},
                                             v \in {Mapping([name |-> Lit(<<12>>)]), List(<<Word("task")>>)}}
  \cup {Task(Bare("name", Lit(<<10>>)))}

-----------------------------------------------------------------------------
(* What an agent says.                                                     *)

Talk(messages) == [messages |-> messages, cuts |-> TRUE]
Said ==
  {hello(Num(1), Num(0), Lit(<<10>>), Lit(<<11, Wide>>), Num(40), Num(0), Lit(<<12>>)), bye, ping, pong(Num(33), Num(Base ^ 3 - 1)),
   task_progress(Num(3), Num(1), Lit(<<10, 11>>)),
   task_done_with_diff(Num(3), Num(-1), Bit(TRUE), Bit(FALSE), Num(70), Num(1100), Lit(<<13>>)),
   task_error(Num(3), Num(2), Lit(<<14>>))}
MessageJobs == {Talk(<<m, n>>) : m \in Said, n \in Said} \cup {Talk(<<m>>) : m \in Said} \cup {Talk(<<>>)}

AllJobs == OpJobs \cup EnvJobs \cup LongJobs \cup SqlJobs \cup ClauseJobs \cup BodyJobs \cup MessageJobs
=============================================================================
