------------------------------ MODULE LoadPhase ------------------------------
(***************************************************************************)
(* What happens before the first connection: main.rs `cmd_validate` and     *)
(* `cmd_run` up to `orchestrator::run`, and the head of `run` itself.  A job  *)
(* is everything a command reads: the playbook, its files and roles, the     *)
(* inventory and its var files, and the flags.  Loading it is one step; what *)
(* it comes to is held against what it is meant to be.                       *)
(***************************************************************************)
EXTENDS Loading

CONSTANTS
  Jobs,    \* the commands considered
  NoJob    \* the job is no longer looked at

VARIABLES
  job,     \* what the command was given
  phase    \* "load" | "open" | "plan" | "connect" | ..., see RunLoop.tla

\* The command is a run whose playbook and inventory were accepted.
Loaded == phase = "open"

-----------------------------------------------------------------------------
(* What a job comes to *)

Inv == View(job.raw)
SeenVars == World(job.raw, job.disk, job.password)
Secrets == Learned(job.raw, job.disk, job.password)
Read(i) == LoadPlay(job, job.plays[i])

\* A play as `run` takes it up: the hosts left by --limit, and the tasks left
\* by --tags and --skip-tags, which the flushes are not asked for.
Kept(i) == SelectSeq(Read(i).tasks,
                     LAMBDA t : t.kind = "meta" \/ ShouldRun(t.tags, job.include, job.skip))

Planned(i) ==
  LET p == job.plays[i]
      kept == Kept(i)
  IN [hosts |-> Range(Targeted(p.hosts, job.limit, Inv)),
      strategy |-> p.strategy, policy |-> p.policy,
      gather |-> p.gather /\ ShouldRun({"always"}, job.include, job.skip),
      tasks |-> Len(kept),
      flushes |-> {k \in DOMAIN kept : kept[k].kind = "meta"}]

PlannedPlays == [i \in DOMAIN job.plays |-> Planned(i)]

JobTargets == UNION {Range(Targeted(p.hosts, job.limit, Inv)) : p \in Range(job.plays)}

JobTransports ==
  Transports([i \in DOMAIN job.plays |-> [local |-> job.plays[i].local,
                                          targets |-> Resolve(job.plays[i].hosts, Inv)]],
             SeenVars, JobTargets)

\* `run` gives up before it connects to anyone.
LimitMisses == job.limit # <<>> /\ (~WellFormed(job.limit) \/ Resolve(job.limit, Inv) = <<>>)

RunRefused == LimitMisses \/ JobTransports.mixed

-----------------------------------------------------------------------------
(* What a job is meant to come to *)

\* The files a file reads: those it imports, and those of the roles it
\* includes.
ReadsOf(path, tasks) ==
  {<<path[1], path[2], t.arg>> : t \in {u \in Range(tasks) : u.kind = "import"}} \cup
  UNION {{<<t.arg, "tasks", t.from>>, <<t.arg, "handlers", "main">>} :
           t \in {u \in Range(tasks) : u.kind = "include"}}

ReadBy(f) == IF f \in DOMAIN job.tree THEN ReadsOf(f, job.tree[f]) ELSE {}

\* `files` and all that is read from them on.
RECURSIVE Closed(_)
Closed(files) ==
  LET more == files \cup UNION {ReadBy(f) : f \in files}
  IN IF more = files THEN files ELSE Closed(more)

Roots ==
  UNION {ReadsOf(<<Book, "", "play">>, p.tasks \o p.handlers) \cup
         {<<r.role, dir, "main">> : r \in Range(p.roles), dir \in {"tasks", "handlers"}} : p \in Range(job.plays)}

Reached == Closed(Roots)

\* No file is read from itself.
Acyclic == \A f \in Reached : f \notin Closed(ReadBy(f))

\* The condition and tags a task stands under, and who it runs as, from the
\* outside in; `role` and `body` as far as the passes look.
RECURSIVE Meant(_, _, _, _)
Meant(path, tasks, under, role) ==
  FoldLeft(LAMBDA leaves, t :
    LET within == [when |-> under.when \cup t.when, tags |-> under.tags \cup t.tags,
                   become |-> IF t.become = "unset" THEN under.become ELSE t.become]
        guards == [within EXCEPT !.become = under.become]
        leaf == [name |-> t.name, role |-> role] @@ within
    IN leaves \o
       CASE t.kind = "import" -> Meant(path, job.tree[Append(path, t.arg)], guards, role)
         [] t.kind = "include" ->
              (IF t.vars THEN <<[leaf EXCEPT !.become = "no", !.role = t.arg]>> ELSE <<>>)
              \o Meant(<<t.arg, "tasks">>, job.tree[<<t.arg, "tasks", t.from>>], guards, t.arg)
         [] t.kind = "block" -> <<leaf>> \o Meant(path, t.kids, within, NoRole)
         [] OTHER -> <<leaf>>,
    <<>>, tasks)

MeantTasks(p) ==
  LET under == [when |-> {}, tags |-> {}, become |-> p.become] IN
  FoldLeft(LAMBDA leaves, r : leaves \o
             Meant(<<r.role, "tasks">>, Lookup(job.tree, <<r.role, "tasks", "main">>),
                   [under EXCEPT !.tags = r.tags], r.role),
           <<>>, p.roles)
  \o Meant(<<Book, "">>, p.tasks, under, NoRole)

RECURSIVE LeafTasks(_)
LeafTasks(tasks) == FoldLeft(LAMBDA ls, t : ls \o <<t>> \o LeafTasks(t.kids), <<>>, tasks)

-----------------------------------------------------------------------------
(* Properties of the load phase *)

\* Import and include name only files and roles that are there.
Complete ==
  /\ \A f \in Reached : f \in DOMAIN job.tree \/ (f[2] = "handlers" /\ f[3] = "main")
  /\ \A f \in Reached : f[1] \in job.roles \cup {Book}
  /\ \A p \in Range(job.plays) : Range(p.files) \subseteq DOMAIN job.varFiles

\* No task takes its content from a file.
Bodiless ==
  /\ \A f \in Reached \cap DOMAIN job.tree : \A t \in Range(job.tree[f]) : ~FromFile(t)
  /\ \A p \in Range(job.plays) : \A t \in Range(p.tasks \o p.handlers) : ~FromFile(t)

Loadable ==
  /\ Parsable(job) /\ Complete /\ Bodiless
  /\ Acyclic
  /\ \A handlers \in BOOLEAN :
       Cardinality({f \in Reached : (f[2] = "handlers") = handlers}) <= MaxDepth

\* "a file imported twice from different parents is fine, only a *cycle*
\* (re-entering an ancestor) is forbidden": a playbook that is accepted reads no
\* file from itself and misses none; one that does not, and has no more files
\* than the depth allows, loads.
LoadRefuses ==
  /\ Loaded => Acyclic /\ \A f \in Reached : f \in DOMAIN job.tree \/ f[3] = "main"
  /\ phase = "load" /\ Loadable => Loads(job)

\* Conditions, tags and become reach every task from whatever it stands in, at
\* any depth, the variables of an include come before its tasks, and nothing
\* is lost, doubled or moved.  (The variables themselves lose the tags they
\* stand under.)
PathInherited ==
  Loaded => \A i \in DOMAIN job.plays :
    LET got == LeafTasks(Read(i).tasks)
        meant == MeantTasks(job.plays[i])
    IN /\ Len(got) = Len(meant)
       /\ \A k \in DOMAIN got :
            /\ \A field \in {"name", "when", "become", "role"} : got[k][field] = meant[k][field]
            /\ got[k].kind # "set_fact" => got[k].tags = meant[k].tags

\* A role's templates and files are its own if it has them, the playbook's
\* otherwise: the body is never another role's.
NearestSource ==
  Loaded => \A i \in DOMAIN job.plays :
    \A t \in Range(Read(i).tasks) : FromFile(t) =>
      LET sub == IF t.kind = "template" THEN "templates" ELSE "files" IN
      /\ t.body \in job.assets /\ t.body[1] \in {t.role, Book} /\ t.body[3] = t.arg
      /\ <<t.role, sub, t.arg>> \in job.assets => t.body[1] = t.role

\* In an accepted play every notification, at any depth, reaches one handler.
NotifyResolves ==
  Loaded => \A i \in DOMAIN job.plays :
    \A t \in Deep(Read(i).tasks) : \A n \in t.notify :
      \E h \in DOMAIN Read(i).handlers : \A g \in DOMAIN Read(i).handlers :
        Read(i).handlers[g].name = n <=> g = h

\* "Terms are processed left-to-right": a host is matched iff some term names
\* it and no later one takes it out again, and each host is matched once.
ResolveMeant ==
  Loaded => \A i \in DOMAIN job.plays :
    LET p == job.plays[i].hosts
        hs == Resolve(p, Inv)
        In(k, h) == h \in Range(Matched(p[k], Inv))
    IN /\ Cardinality(Range(hs)) = Len(hs)
       /\ \A h \in Inv.hosts : h \in Range(hs) <=>
            \E k \in DOMAIN p : /\ p[k].op = "or" /\ In(k, h)
                                /\ \A l \in k + 1 .. Len(p) :
                                     /\ p[l].op = "and" => In(l, h)
                                     /\ p[l].op = "not" => ~In(l, h)

\* "mixed transport per host is not supported": in a run that starts, a host
\* its variables do not pin is reached as every play that targets it says.
OneTransport ==
  Loaded /\ ~RunRefused =>
    \A h \in JobTargets : Pinned(SeenVars[h]) \/
      \A p \in Range(job.plays) : h \in Range(Resolve(p.hosts, Inv)) =>
        (p.local <=> h \in JobTransports.local)

\* The nearest source of a variable wins: the host's entry, its file, the last
\* of its groups that has it, then `all`.
VarsLayered ==
  Loaded => \A h \in Range(AllMembers(job.raw)) : \A k \in DOMAIN SeenVars[h] \ {"addr"} :
    LET v == SeenVars[h][k]
        file == OnDisk(job.disk, h, job.password)
        of == MemberOf(job.raw, h)
        gives == {i \in DOMAIN of : k \in DOMAIN job.raw.groups[of[i]].vars
                                     \cup DOMAIN OnDisk(job.disk, of[i], job.password)}
        last == CHOOSE i \in gives : \A j \in gives : j <= i
        said == {Lookup(job.raw.groups[of[last]].vars @@ OnDisk(job.disk, of[last], job.password), k),
                 Lookup(OnDisk(job.disk, of[last], job.password) @@ job.raw.groups[of[last]].vars, k)}
    IN IF k \in DOMAIN Inline(job.raw, h) THEN v = Inline(job.raw, h)[k]
       ELSE IF k \in DOMAIN file THEN v = file[k]
       ELSE gives # {} => v \in said

\* "secrets": a value that is only in vault files and that a host sees is
\* known to the registry that redacts it.
SecretsKnown ==
  Loaded => \A n \in DOMAIN job.disk : \A f \in Range(job.disk[n]) : f.vaulted =>
    \A h \in Inv.hosts : ValuesOf(f.map) \cap ValuesOf(SeenVars[h]) \subseteq Secrets

\* A playbook that loads is the playbook that was written.
LoadMeant == LoadRefuses /\ PathInherited /\ NearestSource /\ NotifyResolves

\* The hosts, the variables and the transport of a run are those its inventory and
\* its plays name, and its secrets are known before the first task.
SelectionMeant == ResolveMeant /\ OneTransport /\ VarsLayered /\ SecretsKnown
=============================================================================
