------------------------------ MODULE MCRunLoop ------------------------------
(* Jobs for RunLoop: two that are followed to the end of the run, and        *)
(* families of jobs that vary one side of loading and selection each.        *)
EXTENDS RunLoop

Names == <<"h1", "h2", "localhost">>
Groups == <<"all", "g1", "g2">>

Term(op, names) == [op |-> op, names |-> names, glob |-> FALSE, index |-> <<>>]
Everyone == <<Term("or", {"all"})>>
Only(h) == <<Term("or", {h})>>

Task(name, kind, arg) ==
  [name |-> name, kind |-> kind, arg |-> arg, from |-> "main", vars |-> FALSE, when |-> {},
   tags |-> {}, become |-> "unset", notify |-> {}, kids |-> <<>>, fault |-> "none",
   role |-> NoRole, body |-> <<>>]
Op(name) == Task(name, "op", "")
Block(name, kids) == [Task(name, "block", "") EXCEPT !.kids = kids]

\* A task that leaves its mark on what it brings in.
Marked(t) == [t EXCEPT !.when = {t.name}, !.tags = {t.name}]
Imports(name, file) == Marked(Task(name, "import", file))
Includes(name, role, from) == Marked([Task(name, "include", role) EXCEPT !.from = from])

PlayOf(hosts, tasks) ==
  [hosts |-> hosts, strategy |-> "per_task", policy |-> "stop", gather |-> FALSE,
   local |-> FALSE, become |-> "no", roles |-> <<>>, tasks |-> tasks, handlers |-> <<>>,
   files |-> <<>>, vars |-> NoVars]

Group(members, inline) == [members |-> members, vars |-> NoVars, inline |-> inline]
At(h) == "addr" :> h
Yaml == [vars |-> NoVars, stray |-> {},
         groups |-> "g1" :> Group({"h1", "h2"}, "h1" :> At("a1") @@ "h2" :> At("a2"))
                    @@ "g2" :> Group({"h2"}, NoVars)]

Default ==
  [cmd |-> "run", followed |-> FALSE, raw |-> Yaml, disk |-> NoVars, password |-> "none",
   tree |-> NoVars, roles |-> {}, defaults |-> NoVars, assets |-> {}, varFiles |-> NoVars,
   plays |-> <<PlayOf(Everyone, <<Op("a")>>)>>, limit |-> <<>>, include |-> {}, skip |-> {}]

-----------------------------------------------------------------------------
\* Followed: each strategy once as the first play and once as the second, and
\* each policy; tags and --limit leave out a task and a host.
Run(hosts, tasks, strategy, policy, gather) ==
  [PlayOf(hosts, tasks) EXCEPT !.strategy = strategy, !.policy = policy, !.gather = gather]
FlushThenOp == <<Task("flush", "meta", ""), Op("a")>>
SomeTagged == <<Task("flush", "meta", ""), [Op("b") EXCEPT !.tags = {"y"}],
                [Op("a") EXCEPT !.tags = {"x", "z"}]>>

FollowedJobs ==
  {[Default EXCEPT !.followed = TRUE,
      !.plays = <<Run(Everyone, FlushThenOp, "per_play", "mark_host_failed", TRUE),
                  Run(Everyone, FlushThenOp, "per_task", "stop", FALSE)>>],
   [Default EXCEPT !.followed = TRUE, !.include = {"x"}, !.limit = Only("g1"),
      !.plays = <<Run(Everyone, SomeTagged, "per_task", "continue", FALSE),
                  Run(Only("g2"), SomeTagged, "per_play", "continue", TRUE)>>]}

-----------------------------------------------------------------------------
\* Patterns of up to three terms, indices, and limits.
Glob(op) == [Term(op, {"h1", "localhost"}) EXCEPT !.glob = TRUE]
Later == UNION {{Term(op, {"g2"}), Term(op, {"h1"}), Glob(op)} : op \in {"or", "and", "not"}}
Indices == {<<0>>, <<-1>>, <<2>>, <<0, Open>>, <<1, Open>>, <<0, -1>>, <<-1, 0>>}
Patterns ==
  {Everyone, <<Term("not", {"h1"})>>, Only("nobody")}
  \cup {<<s, t>> : s \in Later, t \in Later} \cup {<<Everyone[1], s, t>> : s \in Later, t \in Later}
  \cup {<<[t EXCEPT !.index = i], Term("or", {"h1"})>> : t \in {Everyone[1], Term("or", {"g2"})}, i \in Indices}
Limits == {<<>>, Only("h2"), Only("nobody"), <<Term("not", {"h1"})>>}
PatternJobs ==
  {[Default EXCEPT !.limit = l, !.plays = <<PlayOf(p, <<Op("a")>>)>>] : p \in Patterns, l \in Limits}

\* Two plays over ssh or local, and a host pinned to local by its variables.
Local(p, local) == [p EXCEPT !.local = local]
Pins == {Yaml, [Yaml EXCEPT !.groups["g2"].inline = "h2" :> ("conn" :> "local")]}
TransportJobs ==
  {[Default EXCEPT !.raw = y, !.limit = l,
      !.plays = <<Local(PlayOf(p, <<Op("a")>>), pl), Local(PlayOf(q, <<Op("a")>>), ql)>>] :
     y \in Pins, l \in {<<>>, Only("h2")}, p \in {Everyone, Only("h1"), Only("localhost")},
     q \in {Everyone, Only("h2")}, pl \in BOOLEAN, ql \in BOOLEAN}

\* One variable, set or not in every place that may set it.
File(value) == [vaulted |-> FALSE, map |-> "k" :> value]
Vault(value) == [vaulted |-> TRUE, map |-> "k" :> value]
If(c, value) == IF c THEN "k" :> value ELSE NoVars
VarJobs ==
  {[Default EXCEPT
      !.password = password,
      !.raw = [vars |-> If("all" \in set, "inAll"), stray |-> {},
               groups |-> "g1" :> [Group({"h1", "h2"}, "h1" :> At("a1") @@ "h2" :> (At("a2") @@ If("host" \in set, "inline")))
                                     EXCEPT !.vars = If("g1" \in set, "inG1")]
                          @@ "g2" :> [Group({"h2"}, NoVars) EXCEPT !.vars = If("g2" \in set, "inG2")]],
      !.disk = [f \in files |->
                  CASE f = "g1" -> <<Vault("fileG1"), [vaulted |-> FALSE, map |-> "l" :> "plainG1"]>>
                    [] f = "g2" -> <<File("fileG2")>>
                    [] f = "h2" -> <<File("plainH2"), Vault("fileH2")>>]] :
     set \in SUBSET {"all", "g1", "g2", "host"}, files \in SUBSET {"g1", "g2", "h2"},
     password \in {"none", "right", "wrong"}}
BadInventories ==
  {[Default EXCEPT !.raw.stray = {"h1"}],
   [Default EXCEPT !.raw.groups = Yaml.groups @@ "all" :> Group({}, NoVars)],
   [Default EXCEPT !.raw.groups["g1"].inline = "h1" :> At("a1")]}

-----------------------------------------------------------------------------
\* Task files and roles that read one another, or do not.
XFiles == {<<Op("x")>>, <<Imports("xy", "y")>>, <<Imports("xy1", "y"), Imports("xy2", "y")>>,
           <<Imports("xx", "x")>>, <<Includes("xr", "r", "main")>>}
YFiles == {<<Op("y")>>, <<Imports("yx", "x")>>, <<Includes("ys", "s", "main")>>}
RMains == {<<Op("r")>>, <<Imports("ro", "other")>>, <<Includes("ro", "r", "other"), Op("r")>>,
           <<Includes("rr", "r", "main")>>}
ROthers == {<<Op("o")>>, <<[Includes("os", "s", "main") EXCEPT !.vars = TRUE]>>}
SMains == {<<Op("s")>>, <<Includes("so", "r", "other")>>, <<Task("st", "template", "f")>>}
Openings == {<<Imports("px", "x"), Imports("py", "y")>>,
             <<Includes("pr", "r", "main"), Imports("py", "y")>>, <<Includes("pr", "r", "main")>>, <<Imports("pz", "z")>>}
TreeOf(x, y, r, o, s) ==
  <<Book, "", "x">> :> x @@ <<Book, "", "y">> :> y @@ <<"r", "tasks", "main">> :> r
  @@ <<"r", "tasks", "other">> :> o @@ <<"s", "tasks", "main">> :> s
  @@ <<"r", "handlers", "main">> :> <<Op("h")>>
TreeJobs ==
  {[Default EXCEPT !.tree = TreeOf(x, y, r, o, s), !.roles = {"r", "s"},
      !.assets = {<<"r", "templates", "f">>, <<Book, "", "f">>},
      !.plays = <<PlayOf(Everyone, p)>>] :
     x \in XFiles, y \in YFiles, r \in RMains, o \in ROthers, s \in SMains, p \in Openings}
RoleJobs ==
  {[Default EXCEPT !.tree = TreeOf(<<Op("x")>>, <<Op("y")>>, r, o, s), !.roles = roles,
      !.plays = <<[PlayOf(Everyone, <<Op("a")>>) EXCEPT
                     !.roles = <<[role |-> "r", tags |-> {"t"}], [role |-> "s", tags |-> {}]>>,
                     !.files = files]>>,
      !.varFiles = "v" :> ("k" :> "v")] :
     r \in RMains, o \in ROthers, s \in SMains, roles \in {{"r", "s"}, {"r"}}, files \in {<<>>, <<"v">>, <<"w">>}}

\* Blocks in blocks, in an imported file, each level with a become of its own.
Becomes == {"unset", "yes", "no"}
BlockJobs ==
  {[Default EXCEPT
      !.tree = <<Book, "", "x">> :>
        <<[Marked(Block("outer", <<[Marked(Block("inner", <<[Marked(Op("leaf")) EXCEPT !.become = c], Op("plain")>>))
                                      EXCEPT !.become = b]>>)) EXCEPT !.become = a]>>,
      !.plays = <<[PlayOf(Everyone, <<Imports("px", "x")>>) EXCEPT !.become = d]>>] :
     a \in Becomes, b \in Becomes, c \in Becomes, d \in {"yes", "no"}}

\* Sources in any of the places, asked for by a play, a role or a block.
Places == {<<"r", "templates", "f">>, <<"s", "templates", "f">>, <<Book, "templates", "f">>, <<Book, "", "f">>,
           <<"r", "files", "f">>}
SourceJobs ==
  {[Default EXCEPT
      !.tree = <<"r", "tasks", "main">> :> <<t>>, !.roles = {"r"}, !.assets = assets,
      !.plays = <<PlayOf(Everyone, p)>>] :
     assets \in SUBSET Places, t \in {Task("t", "template", "f"), Task("t", "copy", "f")},
     p \in {<<Includes("pr", "r", "main")>>, <<Task("t", "template", "f")>>,
            <<Block("b", <<Task("t", "template", "f")>>)>>}}

\* Handlers of the play and of a role, and notifications inside and outside of
\* a block.
HandlerJobs ==
  {[Default EXCEPT
      !.tree = <<"r", "tasks", "main">> :> <<Op("r")>>
               @@ <<"r", "handlers", "main">> :> <<[Op("a") EXCEPT !.notify = deep], Op("b")>>,
      !.roles = {"r"},
      !.plays = <<[PlayOf(Everyone, <<[Op("p") EXCEPT !.notify = outside],
                                     Block("q", <<[Op("k") EXCEPT !.notify = inside]>>)>> \o more) EXCEPT
                     !.handlers = handlers]>>] :
     outside \in {{}, {"a"}}, inside \in {{}, {"a"}, {"b"}, {"c"}}, deep \in {{}, {"b"}},
     more \in {<<>>, <<Includes("pr", "r", "main")>>},
     handlers \in {<<>>, <<Op("a")>>, <<Op("a"), Op("a")>>, <<Op("c")>>}}

\* What is refused, or only validated.
Flaws == {[Op("f") EXCEPT !.fault = "parse"], [Op("f") EXCEPT !.fault = "check"],
          Block("b", <<Imports("bx", "x")>>), Block("b", <<[Op("f") EXCEPT !.fault = "check"]>>)}
FlawJobs ==
  {[Default EXCEPT !.plays = <<PlayOf(Everyone, <<t>>)>>] : t \in Flaws}
  \cup {[Default EXCEPT !.plays = <<>>], [Default EXCEPT !.cmd = "validate"],
        [Default EXCEPT !.plays = <<PlayOf(Everyone, <<>>)>>]}

AllJobs == FollowedJobs \cup PatternJobs \cup TransportJobs \cup VarJobs \cup BadInventories
           \cup TreeJobs \cup RoleJobs \cup BlockJobs \cup SourceJobs \cup HandlerJobs \cup FlawJobs
=============================================================================
