--------------------------- MODULE MCAgentModules ---------------------------
(***************************************************************************)
(* The modules of the agent on small machines.  A scene is one machine     *)
(* with the ops that may be sent to it; TLC tries them in every order, as  *)
(* checks and for real, and lets one command fail or one run be lost.      *)
(***************************************************************************)
EXTENDS AgentModules

Machine(text) == [dest |-> text, child |-> Absent, sshdir |-> Absent, times |-> "then", cache |-> "stale"]
File(s) == Node("file", Join(s), "0640", 5)
NoEol(s) == Node("file", [lines |-> s, eol |-> FALSE], "0640", 5)
Dir == Node("dir", NoText, "0700", 5)

Plain ==
    [kind |-> "", state |-> "present", text |-> Join(<<"new">>), mode |-> NoMode, owner |-> NoUid,
     missing |-> FALSE, create |-> TRUE, validate |-> {}, force |-> FALSE, served |-> {},
     recurse |-> FALSE, update |-> TRUE, line |-> "", regexp |-> {}, before |-> {}, after |-> {},
     backrefs |-> FALSE, subst |-> [l \in {"x", "y"} |-> "x"], begin |-> "B", end |-> "E",
     block |-> <<"b">>, exclusive |-> FALSE]

\* One actor, the ops it may be sent, two or three of them, one fault.
Solo(machines, ops, runs) ==
    {[host |-> m, ops |-> [a \in Actors |-> IF a = "root" THEN ops ELSE {}],
      uids |-> [a \in Actors |-> 9], runs |-> runs, faults |-> 1] : m \in machines}

Each(machines, ops, runs) == UNION {Solo(machines, {op}, runs) : op \in ops}

\* Two actors, an op each, at the same time, each sent `runs` times.
Pair(machine, op, other, runs) ==
    {[host |-> machine, ops |-> [a \in Actors |-> IF a = "root" THEN {op} ELSE {other}],
      uids |-> [a \in Actors |-> IF a = "root" THEN 9 ELSE 8], runs |-> runs, faults |-> 1]}

-----------------------------------------------------------------------------
WriteOps ==
    {[Plain EXCEPT !.kind = k, !.mode = m, !.owner = u, !.validate = v] :
        k \in WriteKinds, m \in {"0644", "4755"}, u \in {NoUid, 7}, v \in {{}, {Join(<<"new">>)}, {Join(<<"old">>)}}}
    \cup {[Plain EXCEPT !.kind = "write_file", !.mode = "0644", !.missing = TRUE],
          [Plain EXCEPT !.kind = "copy_target"]}

WriteScenes ==
    Each({Machine(n) : n \in {Absent, File(<<"old">>), Node("file", Join(<<"new">>), "0644", 5), Dir}}, WriteOps, 3)

LineOps ==
    {[Plain EXCEPT !.kind = "lineinfile", !.line = "x", !.regexp = r, !.before = b, !.after = f] :
        r \in {{}, {"x", "y"}, {"y"}}, b \in {{}, {"a"}}, f \in {{}, {"a"}}}
Line == [Plain EXCEPT !.kind = "lineinfile", !.line = "x"]
MoreLineOps ==
    {[Line EXCEPT !.backrefs = TRUE, !.regexp = {"x", "y"}],
     [Line EXCEPT !.backrefs = TRUE, !.regexp = {"z"}],
     [Line EXCEPT !.state = "absent"],
     [Line EXCEPT !.state = "absent", !.regexp = {"x", "a"}],
     [Line EXCEPT !.create = FALSE],
     [Line EXCEPT !.mode = "0600"],
     [Line EXCEPT !.validate = {Join(<<"x">>), Join(<<"a">>)}]}
EditMachines == {Machine(n) : n \in {Absent, File(<<"y", "a", "x">>), NoEol(<<"a">>), File(<<"a", "y">>)}}
LineScenes ==
    Each(EditMachines, {op \in LineOps : op.before = {} \/ op.after = {}} \cup MoreLineOps, 3)
    \cup Solo(EditMachines, {Line, [Line EXCEPT !.line = "z", !.regexp = {"z", "w"}]}, 4)

Block == [Plain EXCEPT !.kind = "blockinfile"]
BlockOps ==
    {Block, [Block EXCEPT !.before = {"a"}], [Block EXCEPT !.after = {"a"}], [Block EXCEPT !.state = "absent"],
     [Block EXCEPT !.validate = {Join(<<"a">>)}]}
BlockMachines ==
    {Machine(n) : n \in {Absent, NoEol(<<"a", "c">>), File(<<"a", "B", "old", "E", "c", "E">>), File(<<"E", "a">>)}}
BlockScenes ==
    Each(BlockMachines, BlockOps, 3)
    \cup Solo({Machine(File(<<"a">>))}, {Block, [Block EXCEPT !.begin = "C", !.end = "F"]}, 4)

Key(line) == [Plain EXCEPT !.kind = "authorized_key", !.line = line, !.regexp = {line, line \o "'"}, !.owner = 7]
KeyMachines == {Machine(n) : n \in {Absent, File(<<"k'", "j", "k">>), NoEol(<<"j">>)}}
KeyScenes ==
    Each(KeyMachines, {Key("k"), [Key("k") EXCEPT !.state = "absent"], [Key("k") EXCEPT !.exclusive = TRUE],
                       [Key("k") EXCEPT !.exclusive = TRUE, !.state = "absent"]}, 3)
    \cup Solo({Machine(File(<<"k'", "l">>))}, {Key("k"), Key("j")}, 4)

OtherFileOps ==
    {[Plain EXCEPT !.kind = "repository", !.mode = "0644", !.state = s, !.update = u] :
        s \in {"present", "absent"}, u \in BOOLEAN}
    \cup {[Plain EXCEPT !.kind = "get_url", !.mode = "0644", !.owner = 7, !.force = f, !.validate = v,
                        !.served = {Join(<<"new">>), Join(<<"old">>)}] :
              f \in BOOLEAN, v \in {{}, {Join(<<"new">>)}}}
    \cup {[Plain EXCEPT !.kind = "file", !.state = s, !.mode = "0644", !.owner = 7] :
              s \in {"absent", "touch", "file", "link"}}
    \cup {[Plain EXCEPT !.kind = "file", !.state = "directory", !.mode = "0644", !.owner = 7, !.recurse = r] :
              r \in BOOLEAN}
OtherMachines ==
    {Machine(n) : n \in {Absent, File(<<"old">>), Node("link", Join(<<"old">>), NoMode, 5)}}
    \cup {[Machine(Dir) EXCEPT !.child = File(<<"a">>)]}
OtherScenes ==
    Each({m \in OtherMachines : m.dest.type # "link"}, {op \in OtherFileOps : op.kind = "repository"}, 3)
    \cup Each({m \in OtherMachines : m.dest.type \in {"none", "file"}}, {op \in OtherFileOps : op.kind = "get_url"}, 3)
    \cup Each(OtherMachines, {op \in OtherFileOps : op.kind = "file"}, 3)

-----------------------------------------------------------------------------
User == [there |-> TRUE, group |-> "own", home |-> "/home", shell |-> "sh", groups |-> {"adm"}]
UserOp == [kind |-> "user", state |-> "present", group |-> "", home |-> "", shell |-> "", groups |-> {}, append |-> FALSE]
UserScenes ==
    Each({[user |-> u] : u \in {NoUser, User}},
         {[UserOp EXCEPT !.groups = g, !.append = p, !.shell = s, !.group = q] :
              g \in {{}, {"www"}, {"adm", "own"}}, p \in BOOLEAN, s \in {"", "bash"}, q \in {"", "adm"}}
         \cup {[UserOp EXCEPT !.state = "absent"]}, 3)
    \cup Each({[group |-> g] : g \in BOOLEAN}, {[kind |-> "group", state |-> s] : s \in {"present", "absent"}}, 3)

NameScenes ==
    Each({[systemd |-> s] @@ ("/etc/hostname" :> e) @@ ("hostname" :> "h") : s \in BOOLEAN, e \in {"", "h"}},
         {[kind |-> "hostname", name |-> "n"]}, 3)
    \cup Each({[systemd |-> s] @@ ("/etc/localtime" :> l) @@ ("/etc/timezone" :> "UTC") : s \in BOOLEAN, l \in {"", "UTC"}},
         {[kind |-> "timezone", name |-> "Oslo", known |-> k] : k \in BOOLEAN}, 3)
    \cup Each({[module |-> m] : m \in {"none", "loaded", "builtin"}},
              {[kind |-> "modprobe", state |-> s] : s \in {"present", "absent"}}, 3)

UnitOp == [kind |-> "systemd", reload |-> TRUE, masked |-> "", enabled |-> "", state |-> "", no_block |-> FALSE]
UnitScenes ==
    Each({[units |-> "stale", unit |-> [masked |-> m, enabled |-> e, active |-> s]] :
              m \in BOOLEAN, e \in {"enabled", "disabled", "static"}, s \in {"active", "inactive"}},
         {[UnitOp EXCEPT !.masked = m, !.enabled = e, !.state = s] :
              m \in {"", "no"}, e \in {"", "yes"}, s \in {"started", "reloaded"}}
         \cup {[UnitOp EXCEPT !.masked = "yes", !.enabled = "no", !.state = "stopped"],
               [UnitOp EXCEPT !.state = "restarted", !.no_block = TRUE]}, 3)
    \cup Solo({[units |-> "stale", unit |-> [masked |-> FALSE, enabled |-> "enabled", active |-> "inactive"]]},
              {[UnitOp EXCEPT !.state = "started", !.no_block = TRUE], [UnitOp EXCEPT !.state = "stopped"],
               [UnitOp EXCEPT !.state = "stopped", !.no_block = TRUE]}, 3)

FwOp == [kind |-> "ufw", verb |-> "rule", rule |-> "22", like |-> {"22"}, delete |-> FALSE]
FwScenes ==
    Each({[fw |-> [active |-> a, rules |-> r, policy |-> "deny", logging |-> "off"]] :
              a \in BOOLEAN, r \in {{}, {"22"}, {"2222"}}},
         {[FwOp EXCEPT !.delete = d, !.like = l] : d \in BOOLEAN, l \in {{"22"}, {"22", "2222"}}}
         \cup {[FwOp EXCEPT !.verb = v, !.rule = "allow"] : v \in {"enable", "disable", "reset", "default", "logging", "reload"}}, 3)
    \cup Each({[chain |-> c] : c \in {<<>>, <<"r", "q", "r">>, <<"q">>}},
              {[kind |-> "iptables", state |-> s, rule |-> "r", insert |-> i] : s \in {"present", "absent"}, i \in BOOLEAN}, 3)

\* "v" is a virtual name that "q" provides.
Provides == [n \in {"p", "q", "v"} |-> IF n = "q" THEN {"v"} ELSE {}]
AptOp == [kind |-> "apt", state |-> "present", names |-> {"p", "v"}, update |-> FALSE, valid |-> FALSE,
          autoremove |-> FALSE, provides |-> Provides]
PipOp == [kind |-> "pip", state |-> "present", names |-> {"p", "q"}, venv |-> FALSE,
          pins |-> [n \in {"p", "q"} |-> ""]]
PackageScenes ==
    Each({[cache |-> "stale", orphans |-> TRUE, pkgs |-> [n \in {"p", "q", "v"} |-> IF n \in i THEN "1" ELSE ""]] :
              i \in {{}, {"p"}, {"p", "q"}}},
         {[AptOp EXCEPT !.state = s, !.update = u, !.autoremove = r] :
              s \in {"present", "absent", "latest"}, u \in BOOLEAN, r \in BOOLEAN}, 3)
    \cup Each({[venv |-> v, pkgs |-> [n \in {"p", "q"} |-> IF n \in i THEN "1" ELSE ""]] :
                   v \in BOOLEAN, i \in {{}, {"p"}}},
         {[PipOp EXCEPT !.state = s, !.venv = e, !.pins = p] :
              s \in {"present", "absent", "latest"}, e \in BOOLEAN,
              p \in {[n \in {"p", "q"} |-> ""], [n \in {"p", "q"} |-> IF n = "p" THEN "3" ELSE ""]}}, 3)

-----------------------------------------------------------------------------
Entry(path, text) == [path |-> path, text |-> Join(<<text>>), time |-> 2, safe |-> TRUE]
Archive ==
    [kind |-> "unarchive", entries |-> <<Entry("a", "new"), Entry("b", "new")>>, creates |-> "",
     include |-> {}, exclude |-> {}, keep_newer |-> FALSE, mode |-> NoMode, owner |-> NoUid]
Unpacks(dir, a) == [dir |-> dir, a |-> a, b |-> Gone]
ArchiveScenes ==
    Each({Unpacks(TRUE, Gone), Unpacks(FALSE, Gone), Unpacks(TRUE, Timed(File(<<"old">>), 1)), Unpacks(TRUE, Timed(File(<<"own">>), 3))},
         {[Archive EXCEPT !.keep_newer = k, !.creates = c, !.mode = m, !.owner = u] :
              k \in BOOLEAN, c \in {"", "b"}, m \in {NoMode, "0755"}, u \in {NoUid, 7}}
         \cup {[Archive EXCEPT !.exclude = {"a"}], [Archive EXCEPT !.include = {"a"}, !.keep_newer = TRUE],
               [Archive EXCEPT !.entries[2].safe = FALSE]}, 3)

UriOp == [kind |-> "uri", mutating |-> TRUE, status_codes |-> {200}]
ExtOp == [kind |-> "pg_ext", state |-> "present", version |-> "", known |-> {"1", "2"}]
WaitOp == [kind |-> "wait_for", mode |-> "tcp", state |-> "present"]
ServiceScenes ==
    Each({[server |-> [accepts |-> n, status |-> s, done |-> 0], sent |-> TRUE] : n \in {0, 1}, s \in {200, 202}},
         {[UriOp EXCEPT !.mutating = m] : m \in BOOLEAN}
         \cup {[kind |-> "pg_query", read_only |-> r] : r \in BOOLEAN}, 3)
    \cup Each({[extension |-> e, default_version |-> "2"] : e \in {"", "1", "2"}},
              {[ExtOp EXCEPT !.version = v] : v \in {"", "1", "3"}} \cup {[ExtOp EXCEPT !.state = "absent"]}, 3)
    \cup Each({[port |-> p] : p \in {"opening", "closed"}}, {WaitOp, [WaitOp EXCEPT !.mode = "sleep"]}, 3)
    \cup Each({[port |-> p] : p \in {"closing", "open"}}, {[WaitOp EXCEPT !.state = "absent"]}, 3)
    \cup Each({[path |-> n] : n \in {Absent, Dir, File(<<"a">>)}},
              {[kind |-> "read_file", max_bytes |-> n] : n \in {0, 9}} \cup {[kind |-> "getent", fail_key |-> f] : f \in BOOLEAN}
              \cup {[kind |-> k] : k \in {"stat", "gather_facts"}} \cup {[WaitOp EXCEPT !.mode = "path"]}, 3)

-----------------------------------------------------------------------------
PairScenes ==
    LET write == [Plain EXCEPT !.kind = "write_file", !.mode = "0644", !.owner = 7]
        valid == [write EXCEPT !.text = Join(<<"bad">>), !.validate = {Join(<<"new">>)}]
        other == [write EXCEPT !.text = Join(<<"other">>), !.missing = TRUE]
        line  == [Line EXCEPT !.validate = {Join(<<"a", "x">>), Join(<<"new">>)}]
    IN  Pair(Machine(File(<<"a">>)), write, [other EXCEPT !.missing = FALSE], 1)
        \cup Pair(Machine(Absent), write, other, 2)
        \cup Pair(Machine(File(<<"a">>)), valid, line, 1)
        \cup Pair(Machine(File(<<"a">>)), Line, [Line EXCEPT !.line = "z"], 1)
        \cup Pair(Machine(File(<<"a">>)), Line, Block, 1)
        \cup Pair(Machine(File(<<"a">>)), Key("k"), Key("j"), 1)
        \cup Pair(Machine(File(<<"a">>)), [Plain EXCEPT !.kind = "file", !.state = "file", !.mode = "0644"],
                  [Plain EXCEPT !.kind = "file", !.state = "absent"], 1)

MCScenes ==
    WriteScenes \cup LineScenes \cup BlockScenes \cup KeyScenes \cup OtherScenes
    \cup UserScenes \cup NameScenes \cup UnitScenes \cup FwScenes \cup PackageScenes \cup PairScenes
    \cup ArchiveScenes \cup ServiceScenes

\* A block whose end marker was lost.
MCMalformed == Each({Machine(File(<<"B", "a", "c">>))}, {Block}, 3)
=============================================================================
