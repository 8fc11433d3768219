---------------------------- MODULE AgentModules ----------------------------
(***************************************************************************)
(* The agent's modules on one machine: ops are dispatched to them one      *)
(* after another, and side by side when actors differ.  A module promises  *)
(* what a playbook relies on: its answer tells the truth about the         *)
(* machine, a check predicts the run, a rerun is quiet, a failure harms    *)
(* nothing.                                                                *)
(***************************************************************************)
EXTENDS ServiceModules

ModuleSteps(op) ==
    CASE op.kind \in FileKinds    -> FileSteps(op)
      [] op.kind \in ServiceKinds -> ServiceSteps(op)
      [] OTHER                    -> SystemSteps(op)

Todo(r, step, uid) ==
    CASE r.op.kind \in FileKinds    -> FileTodo(r, step, host, uid)
      [] r.op.kind \in ServiceKinds -> ServiceTodo(r, step, host, uid)
      [] OTHER                      -> SystemTodo(r, step, host)

Begin(a) ==
    /\ Len(log[a]) < scene.runs
    /\ \E op \in scene.ops[a], check \in BOOLEAN : Starts(a, op, ModuleSteps(op), check)

ProbeSteps == {"mkdir", "link", "isfile", "create", "times", "remove", "attrs", "walk", "mode",
               "sshdir", "update"} \cup SystemProbes \cup ServiceProbes

Probe(a) ==
    /\ At(a, ProbeSteps)
    /\ Goes(a, [Onward(run[a]) EXCEPT !.todo = Todo(run[a], Head(run[a].steps), scene.uids[a])])
    /\ UNCHANGED <<tmps, faults>>

Init ==
    /\ scene \in Scenes
    /\ host = scene.host
    /\ tmps = [name \in {} |-> <<>>]
    /\ run = [a \in Actors |-> Idle]
    /\ log = [a \in Actors |-> <<>>]
    /\ faults = 0

Step(a) ==
    \/ Begin(a) \/ Probe(a) \/ FileStep(a) \/ ServiceStep(a)
    \/ Issue(a) \/ CommandFails(a) \/ Answer(a) \/ Dropped(a)

Next == (\E a \in Actors : Step(a)) \/ Settle \/ PortTurns

Spec == Init /\ [][Next]_vars

-----------------------------------------------------------------------------
(* What an op is for.                                                      *)
Result == {"ok", "failed", "lost"}

\* The type invariant: the variables of every module run keep their shape.
TypeOK ==
    /\ DOMAIN host = DOMAIN scene.host
    /\ \A name \in DOMAIN tmps :
          tmps[name].by \in Actors /\ DOMAIN tmps[name].node = {"type", "text", "mode", "uid"}
    /\ \A a \in Actors :
          /\ run[a] # Idle => run[a].check \in BOOLEAN /\ run[a].changed \in BOOLEAN
          /\ Len(log[a]) <= scene.runs
          /\ \A i \in DOMAIN log[a] : log[a][i].result \in Result
    /\ faults \in 0..scene.faults

\* The entries a claim about one op can rest on.
Entries(check, result) ==
    {e \in UNION {{log[a][i] : i \in DOMAIN log[a]} : a \in Actors} :
        e.alone /\ e.check = check /\ e.result = result}

Attributed(op, node) ==
    /\ op.mode = NoMode \/ node.mode = (IF op.mode = "4755" /\ op.owner # NoUid THEN "0755" ELSE op.mode)
    /\ op.owner = NoUid \/ node.uid = op.owner

Count(s, pattern) == Cardinality(Hits(s, pattern))

FileGoal(op, h) ==
    LET node == h["dest"]
        s    == node.text.lines
    IN  CASE op.kind \in WriteKinds /\ ~op.missing -> node.text = op.text /\ Attributed(op, node)
          [] op.kind \in WriteKinds /\ op.missing -> node.type # "none"
          [] op.kind = "lineinfile" /\ op.state = "present" ->
                (op.backrefs \/ Count(s, {op.line}) > 0) /\ Attributed(op, node)
          [] op.kind = "lineinfile" /\ op.state = "absent" -> Count(s, Wanted(op)) = 0
          [] op.kind = "blockinfile" /\ op.state = "present" ->
                /\ BlockAt(s, op) # <<>>
                /\ SubSeq(s, BlockAt(s, op)[1] + 1, BlockAt(s, op)[2] - 1) = op.block
          [] op.kind = "blockinfile" /\ op.state = "absent" -> BlockAt(s, op) = <<>>
          [] op.kind = "authorized_key" /\ op.state = "present" ->
                /\ Count(s, {op.line}) = 1 /\ Count(s, op.regexp) = 1
                /\ op.exclusive => Len(s) = 1
          [] op.kind = "authorized_key" /\ op.state = "absent" -> Count(s, op.regexp) = 0
          [] op.kind = "repository" /\ op.state = "present" -> node.text = op.text /\ Attributed(op, node)
          [] op.kind = "get_url" -> Attributed(op, node) /\ (op.validate = {} \/ node.text \in op.validate)
          [] op.kind = "file" /\ op.state = "directory" ->
                node.type = "dir" /\ \A p \in {"dest"} \cup (IF op.recurse THEN {"child"} ELSE {}) :
                                        h[p].type = "none" \/ Attributed(op, h[p])
          [] op.kind = "file" /\ op.state = "link" -> node.type = "link" /\ node.text = op.text
          [] op.kind = "file" /\ op.state = "touch" -> node.type # "none" /\ h["times"] = "now"
          [] op.kind = "file" /\ op.state = "file" -> node.type = "file"
          [] OTHER -> node.type = "none" /\ h["child"].type = "none"

UserGoal(op, user) ==
    /\ user.there = (op.state = "present")
    /\ user.there =>
          /\ Given(op.shell, user.shell) = user.shell
          /\ Given(op.home, user.home) = user.home
          /\ Given(op.group, user.group) = user.group
          /\ op.groups \subseteq user.groups \cup {user.group}
          /\ op.groups # {} /\ ~op.append => Supplementary(user) \subseteq op.groups

\* A unit on its way up is not "active", so that stopping it does nothing.
UnitGoal(op, was, unit) ==
    /\ op.masked # "" => unit.masked = (op.masked = "yes")
    /\ op.enabled = "yes" => IsEnabled(unit) \in {"enabled", "static"}
    /\ op.enabled = "no" => IsEnabled(unit) # "enabled"
    /\ op.state \in {"started", "restarted", "reloaded"} => unit.active \in {"active", "activating"}
    /\ op.state = "stopped" => unit.active \in {"inactive", "deactivating"} \/ was.active = "activating"

UfwGoal(op, was, fw) ==
    CASE op.verb = "rule" /\ ~op.delete -> fw.rules \cap (op.like \cup {op.rule}) # {}
      [] op.verb = "rule" /\ op.delete -> op.rule \notin fw.rules \/ ~was.active
      [] op.verb = "enable"  -> fw.active
      [] op.verb = "disable" -> ~fw.active
      [] op.verb = "reset"   -> ~fw.active /\ fw.rules = {}
      [] op.verb = "default" -> fw.policy = op.rule
      [] op.verb = "logging" -> fw.logging = op.rule
      [] OTHER -> fw = was

AptGoal(op, h) ==
    CASE op.state = "present" -> op.names \subseteq Installed(h["pkgs"], op.names) \cup Provided(op, h["pkgs"])
      [] op.state = "absent"  -> Installed(h["pkgs"], op.names) = {}
      [] op.state = "latest"  -> \A n \in Bought(op, op.names) : h["pkgs"][n] = Candidate(h)

PipGoal(op, h) ==
    /\ op.venv => h["venv"]
    /\ CASE op.state = "present" -> PipUnmet(op, h["pkgs"]) = {}
         [] op.state = "absent"  -> Installed(h["pkgs"], op.names) = {}
         [] op.state = "latest"  -> Installed(h["pkgs"], op.names) = op.names

\* Where hostname and timezone are kept in two places, an answer "changed" is
\* about both and an answer "unchanged" about the one that was looked at.
SystemGoal(op, e) ==
    LET h == e.left
    IN  CASE op.kind = "user"     -> UserGoal(op, h["user"])
          [] op.kind = "group"    -> h["group"] = (op.state = "present")
          [] op.kind = "hostname" -> CurrentHostname(h) = op.name /\ (e.changed => h["hostname"] = op.name)
          [] op.kind = "timezone" -> CurrentTimezone(h) = op.name /\ (e.changed => h["/etc/timezone"] = op.name)
          [] op.kind = "modprobe" -> Loaded(h) = (op.state = "present")
          [] op.kind = "systemd"  -> UnitGoal(op, e.base["unit"], h["unit"])
          [] op.kind = "ufw"      -> UfwGoal(op, e.base["fw"], h["fw"])
          [] op.kind = "iptables" /\ op.state = "present" -> Contains(h["chain"], op.rule)
          [] op.kind = "iptables" /\ op.state = "absent" ->
                Count(h["chain"], {op.rule}) = Max({0, Count(e.base["chain"], {op.rule}) - 1})
          [] op.kind = "apt"      -> AptGoal(op, h)
          [] op.kind = "pip"      -> PipGoal(op, h)

\* With its marker there unarchive promises nothing; keep_newer keeps even
\* what an extraction that broke off has left.
UnarchiveGoal(op, e) ==
    \/ op.creates # "" /\ ~Missing(e.base[op.creates])
    \/ \A i \in DOMAIN op.entries :
          LET entry == op.entries[i]
              node  == e.left[entry.path]
          IN  Passes(op, entry) =>
                /\ node.text = entry.text
                    \/ (Keeps(op, entry, e.base[entry.path]) /\ node.text = e.base[entry.path].text)
                /\ Attributed(op, node)

\* A request that is answered as expected was sent once, not more.
ServiceGoal(op, e) ==
    LET h == e.left
    IN  CASE op.kind = "unarchive" -> UnarchiveGoal(op, e)
          [] op.kind = "uri" -> h["server"].done = e.base["server"].done + (IF op.mutating THEN h["server"].accepts ELSE 0)
          [] op.kind = "pg_query" -> h["server"].done = e.base["server"].done + (IF op.read_only THEN 0 ELSE 1)
          [] op.kind = "pg_ext" -> (h["extension"] # "") = (op.state = "present")
                                   /\ (op.state = "present" => Given(op.version, h["extension"]) = h["extension"])
          [] op.kind = "wait_for" -> op.mode = "tcp" => h["port"] = (IF op.state = "present" THEN "open" ELSE "closed")
          [] op.kind = "read_file" -> h["path"].type = "file"
          [] op.kind = "getent" -> op.fail_key => ~Missing(h["path"])
          [] OTHER -> h = e.base

Goal(op, e) ==
    CASE op.kind \in FileKinds    -> FileGoal(op, e.left)
      [] op.kind \in ServiceKinds -> ServiceGoal(op, e)
      [] OTHER                    -> SystemGoal(op, e)

\* apt's latest compares the versions of the names it is given, and a
\* virtual name has none: a run never counts it, a check always does.
LatestVirtual(op) ==
    op.kind = "apt" /\ op.state = "latest" /\ Bought(op, op.names) # op.names

SystemRepeats(op, h) ==
    \/ LatestVirtual(op)
    \/ op.kind = "user" /\ Given(op.group, IF h["user"].there THEN h["user"].group ELSE "own") \in op.groups
    \/ op.kind = "systemd" /\ (op.state \in {"restarted", "reloaded"} \/ op.no_block \/ Turning(h))
    \/ op.kind = "ufw" /\ (op.verb \in {"reset", "reload"} \/ ~h["fw"].active
                            \/ (op.delete /\ op.like # {op.rule}))
    \/ op.kind = "iptables" /\ op.state = "absent" /\ Count(h["chain"], {op.rule}) > 1
    \/ op.kind = "pip" /\ op.state = "latest"

\* A check of unarchive opens no archive.
Announced(op) == op.kind = "unarchive" /\ op.creates = ""

\* Without a marker that it makes itself, or keep_newer, unarchive extracts
\* again every time.
ServiceRepeats(op) ==
    \/ op.kind = "unarchive" /\ ~op.keep_newer
         /\ \A i \in DOMAIN op.entries : op.entries[i].path # op.creates \/ ~Passes(op, op.entries[i])
    \/ op.kind = "uri" /\ op.mutating
    \/ op.kind = "pg_query" /\ ~op.read_only

\* What a check cannot foresee, or does not look at: it takes an archive for
\* news, and a request or a query for none.
Unforeseen(op, h) ==
    \/ op.kind = "unarchive" /\ (op.keep_newer \/ op.include # {} \/ op.exclude # {})
    \/ op.kind \in {"uri", "pg_query"}
    \/ op.kind = "get_url"
    \/ op.kind = "apt" /\ (op.state = "latest" \/ op.autoremove)
    \/ op.kind = "pip" /\ op.state = "latest"
    \/ Turning(h)

\* What a module changes without counting it.
Unreported(op, h) ==
    (IF op.kind = "systemd" THEN {"units"} ELSE {})
    \cup (IF op.kind = "apt" THEN {"cache"} ELSE {})
    \cup (IF LatestVirtual(op) THEN {"pkgs"} ELSE {})
    \cup (IF Turning(h) THEN {"unit"} ELSE {})
    \cup (IF op.kind = "unarchive" /\ op.keep_newer /\ (op.mode # NoMode \/ op.owner # NoUid)
            THEN {op.entries[i].path : i \in DOMAIN op.entries} ELSE {})
    \cup (IF "port" \in DOMAIN h THEN {"port"} ELSE {})

\* Ops the code reports as changed every time, or makes change every time.
Repeats(op, h) ==
    CASE op.kind \in ServiceKinds -> ServiceRepeats(op)
      [] op.kind \notin FileKinds \cup ServiceKinds -> SystemRepeats(op, h)
      [] op.kind \in FileKinds ->
         \/ op.kind = "file" /\ op.state = "touch"
         \/ op.kind = "get_url" /\ op.force
         \/ op.mode = "4755" /\ op.owner # NoUid
         \/ /\ op.kind = "lineinfile" /\ op.state = "present"
            /\ op.backrefs \/ (op.regexp # {} /\ op.line \notin op.regexp)

-----------------------------------------------------------------------------
(* Properties.                                                             *)

\* Ops that touch different lines of the same file.
Independent(o, p) ==
    /\ o.kind = p.kind /\ o.kind \in EditKinds \cup {"authorized_key"}
    /\ ~o.exclusive /\ ~p.exclusive
    /\ (Wanted(o) \cup {o.line}) \cap (Wanted(p) \cup {p.line}) = {}
    /\ o.kind = "blockinfile" => {o.begin, o.end} \cap {p.begin, p.end} = {}

\* An op that was answered ok reports no change when it comes again, also
\* after ops about other lines of the same file: one loop over keys, lines
\* or blocks, run twice, is quiet the second time.
RerunQuiet ==
    \A a \in Actors : \A j \in DOMAIN log[a] : \A i \in 1..(j - 1) :
        LET s == log[a]
            e == s[j]
        IN  (/\ e.op = s[i].op /\ ~Repeats(e.op, s[i].base) /\ ~(e.check /\ Announced(e.op))
             /\ e.result = "ok" /\ ~s[i].check /\ ~e.blind
             /\ \A k \in i..j : s[k].alone /\ s[k].result = "ok"
             /\ \A k \in i..(j - 1) : s[k].left = s[k + 1].base
             /\ \A k \in (i + 1)..(j - 1) : Independent(s[k].op, e.op) \/ s[k].check)
            => ~e.changed

\* An answer ok means the machine is what the op asks for, whatever an
\* earlier op left behind.
OkMeansDone == \A e \in Entries(FALSE, "ok") : Goal(e.op, e)

\* An answer "unchanged" means nothing was changed (a rewrite with the same
\* content may hand the file to the agent's user when no owner is named).
UnchangedMeansSame ==
    \A e \in Entries(FALSE, "ok") :
        LET keeps(h) == IF e.op.kind \in WriteKinds /\ e.op.owner = NoUid
                        THEN [h EXCEPT !["dest"].uid = NoUid] ELSE h
            IN  ~e.changed => \A r \in DOMAIN host \ Unreported(e.op, e.base) : keeps(e.base)[r] = keeps(e.left)[r]

\* Check mode changes neither the machine nor a staged file, whatever runs
\* before it left there.
CheckPure ==
    [][(\A a \in Actors : Busy(a) => run[a].check) => (UNCHANGED <<tmps, host>> \/ Settle \/ PortTurns)]_vars

\* A run right after its own check reports the change the check announced.
CheckPredicts ==
    \A a \in Actors : \A i \in DOMAIN log[a] : \A j \in {i + 1} \cap DOMAIN log[a] :
        LET c == log[a][i]
            e == log[a][j]
        IN  (/\ c.op = e.op /\ c.check /\ ~e.check /\ c.alone /\ e.alone /\ c.blind = e.blind
             /\ c.result = "ok" /\ e.result = "ok" /\ c.base = e.base /\ c.left = e.base
             /\ ~Unforeseen(e.op, e.base))
            => c.changed = e.changed

\* A staged write that fails leaves its destination as it was.
FailureHarmless ==
    \A e \in Entries(FALSE, "failed") :
        e.op.kind \in WriteKinds \cup EditKinds \cup {"authorized_key"}
            => e.left["dest"] = e.base["dest"]

FileScene == "dest" \in DOMAIN scene.host
SceneOps == UNION {scene.ops[a] : a \in Actors}

\* Writers at the same time, and writers dropped half-way, leave the
\* destination as it was or as one of them wanted it, in text, mode and owner
\* alike, where the staged file's name is the run's own.
DestWhole ==
    (FileScene /\ \A op \in SceneOps : op.kind \in WriteKinds \cup EditKinds) =>
        LET dest == host["dest"]
        IN  \/ dest.text # Torn /\ (\E op \in SceneOps : op.kind \in EditKinds)
            \/ dest = scene.host["dest"]
            \/ \E op \in SceneOps : dest.type = "file" /\ dest.text = op.text /\ Attributed(op, dest)

\* Only what a validator accepted gets to the destination.
VettedOnly ==
    FileScene /\ (\A op \in SceneOps : op.validate # {})
        => host["dest"].text \in {scene.host["dest"].text} \cup UNION {op.validate : op \in SceneOps}

\* A staged file outlives its run only when the run was lost, or in the
\* modules whose error paths do not remove it.
NoLitter ==
    \A name \in DOMAIN tmps :
        \/ name[1] \in FixedTmp
        \/ \E a \in Actors : Busy(a) /\ run[a].tmp = name
        \/ LET e == log[name[1]][name[2] + 1]
           IN  e.result = "lost" \/ (e.op.kind \in EditKinds /\ e.result = "failed")

\* A line of the file that no op of the scene is about is never removed.
LinesKept ==
    (FileScene /\ \A op \in SceneOps : op.kind \in EditKinds) =>
        LET s       == scene.host["dest"].text.lines
            markers == UNION {{op.begin, op.end} : op \in SceneOps}
            blocks  == UNION {IF BlockAt(s, op) = <<>> THEN {} ELSE BlockAt(s, op)[1]..BlockAt(s, op)[2]
                                : op \in SceneOps}
            named   == UNION {Wanted(op) : op \in SceneOps} \cup markers
        IN  \A i \in DOMAIN s \ blocks :
                s[i] \in named \/ s[i] \in {host["dest"].text.lines[j] : j \in DOMAIN host["dest"].text.lines}

\* An answer is true: ok that the machine is as asked, unchanged that it is as it
\* was, and under check mode what the run will say.
AnswersTrue == TypeOK /\ OkMeansDone /\ UnchangedMeansSame /\ CheckPredicts

\* A file that is edited or replaced is at no time torn, unvetted, mixed up with
\* another writer's or short of somebody else's line, and nothing is left beside it.
DestSafe == FailureHarmless /\ DestWhole /\ VettedOnly /\ NoLitter /\ LinesKept
=============================================================================
