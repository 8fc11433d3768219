------------------------------- MODULE Loading -------------------------------
(***************************************************************************)
(* From files to a validated playbook: `playbook::load` (mod.rs) with its   *)
(* passes import.rs and role.rs, and `playbook::validate` (validate.rs).    *)
(*                                                                         *)
(* A task is [name, kind, arg, from, vars, when, tags, become, notify, kids,  *)
(* fault, role, body].  `kind` is "op", "template", "copy", "import",        *)
(* "include", "block", "meta" or "set_fact"; `arg` and `from` the file, role *)
(* or source it names; `when` a set of conditions, all of which must hold;   *)
(* `kids` the children of a block, arm after arm; `fault` a flaw of its own   *)
(* the parser ("parse") or validate_task ("check") would find.  `role` and    *)
(* `body` (the file its content came from) are filled in by the passes.      *)
(*                                                                         *)
(* A path is <<owner, directory, name>>: owner a role, or Book, the          *)
(* directory of the playbook.                                               *)
(***************************************************************************)
EXTENDS Selection

CONSTANT MaxDepth  \* MAX_DEPTH and MAX_INCLUDE_ROLE_DEPTH

Book == "book"
NoRole == "none"

Got(tasks) == [ok |-> TRUE, tasks |-> tasks]
Refused == [ok |-> FALSE, tasks |-> <<>>]
Plus(done, more) == IF done.ok /\ more.ok THEN Got(done.tasks \o more.tasks) ELSE Refused

MapTasks(done, F(_)) == [done EXCEPT !.tasks = [i \in DOMAIN done.tasks |-> F(done.tasks[i])]]

\* A task and all it contains.
RECURSIVE Deep(_)
Deep(tasks) == Range(tasks) \cup UNION {Deep(t.kids) : t \in Range(tasks)}

Parses(tasks) == \A t \in Deep(tasks) : t.fault # "parse"

-----------------------------------------------------------------------------
(* import.rs *)

\* Mutant of Guarded: the tags of an import go to tasks that have none.
GuardedUntagged(t, by) ==
  [t EXCEPT !.tags = IF @ = {} THEN by.tags ELSE @, !.when = @ \cup by.when]

\* `propagate_import_metadata`, and `expand_one` likewise.
Guarded(t, by) == [t EXCEPT !.tags = @ \cup by.tags, !.when = @ \cup by.when]

\* `flatten_tasks`: only re-entering a file that is being read is a cycle.
RECURSIVE Flatten(_, _, _, _)
Flatten(tree, dir, tasks, via) ==
  FoldLeft(LAMBDA done, t :
             IF t.kind # "import" THEN Plus(done, Got(<<t>>))
             ELSE LET path == Append(dir, t.arg) IN
               IF \/ path \in via \/ path \notin DOMAIN tree
                  \/ Cardinality(via) >= MaxDepth
                 THEN Refused
                 ELSE Plus(done, MapTasks(Flatten(tree, dir, tree[path], via \cup {path}),
                                          LAMBDA u : Guarded(u, t))),
           Got(<<>>), tasks)

-----------------------------------------------------------------------------
(* role.rs *)

InRole(t, role) == [t EXCEPT !.role = IF @ = NoRole THEN role ELSE @]

\* `load_task_file`, `load_tasks_from`: a task file of a role, its imports
\* resolved.
RoleFile(job, role, dir, name) ==
  IF <<role, dir, name>> \notin DOMAIN job.tree THEN Refused
  ELSE MapTasks(Flatten(job.tree, <<role, dir>>, job.tree[<<role, dir, name>>], {}),
                LAMBDA t : InRole(t, role))

\* A main.yml that is not there contributes nothing.
MainFile(job, role, dir) ==
  IF <<role, dir, "main">> \in DOMAIN job.tree THEN RoleFile(job, role, dir, "main") ELSE Got(<<>>)

HasContent(job, role) ==
  role \in DOMAIN job.defaults \/ \E dir \in {"tasks", "handlers"} : <<role, dir, "main">> \in DOMAIN job.tree

Tagged(done, tags) == MapTasks(done, LAMBDA t : [t EXCEPT !.tags = @ \cup tags])

\* `role::flatten_playbook`: what the `roles:` of a play put before its own.
FromRoles(job, play, dir) ==
  FoldLeft(LAMBDA done, r :
             IF r.role \notin job.roles \/ ~HasContent(job, r.role) THEN Refused
             ELSE Plus(done, Tagged(MainFile(job, r.role, dir), r.tags)),
           Got(<<>>), play.roles)

RoleDefaults(job, play) ==
  Layered([i \in DOMAIN play.roles |-> Lookup(job.defaults, play.roles[i].role)])

\* The synthetic `set_fact` an include's `vars:` become: no tags of its own.
SetVars(t) ==
  [t EXCEPT !.kind = "set_fact", !.vars = FALSE, !.tags = {}, !.notify = {},
            !.become = "no", !.role = t.arg]

\* Mutant of NewHandlers: handlers are added whoever has them already.
AllHandlers(old, new) == new

\* A handler whose name is taken is left out.
NewHandlers(old, new) ==
  SelectSeq(new, LAMBDA h : \A o \in Range(old) : o.name # h.name)

\* Mutant of Key: a role is expanded once in a chain, whichever its file.
KeyByRole(t) == <<t.arg>>

Key(t) == <<t.arg, t.from>>

\* `expand_in_list` and `expand_one`: the state is what the play has collected
\* so far; `via` is the chain of (role, tasks_from) being expanded.
RECURSIVE Include(_, _, _, _)
Include(job, got, tasks, via) ==
  FoldLeft(LAMBDA sofar, t :
             IF t.kind # "include" THEN [sofar EXCEPT !.tasks = Append(@, t)]
             ELSE LET hs == MainFile(job, t.arg, "handlers")
                      ts == RoleFile(job, t.arg, "tasks", t.from) IN
               IF \/ ~sofar.ok \/ Key(t) \in via \/ Cardinality(via) >= MaxDepth
                  \/ t.arg \notin job.roles \/ ~hs.ok \/ ~ts.ok
                 THEN [sofar EXCEPT !.ok = FALSE]
                 ELSE LET within == Include(job,
                            [sofar EXCEPT !.tasks = <<>>,
                                          !.handlers = @ \o NewHandlers(@, hs.tasks),
                                          !.defaults = Layered(<<@, Lookup(job.defaults, t.arg)>>)],
                            ts.tasks, via \cup {Key(t)})
                      IN [MapTasks(within, LAMBDA u : Guarded(u, t)) EXCEPT
                            !.tasks = sofar.tasks \o (IF t.vars THEN <<SetVars(t)>> ELSE <<>>) \o @],
           got, tasks)

\* Mutant of Candidates: the playbook's own directory comes first.
CandidatesBookFirst(t) ==
  LET sub == IF t.kind = "template" THEN "templates" ELSE "files"
  IN <<<<Book, sub, t.arg>>, <<t.role, sub, t.arg>>, <<Book, "", t.arg>>>>

\* `file_search_paths`.
Candidates(t) ==
  LET sub == IF t.kind = "template" THEN "templates" ELSE "files"
  IN <<<<t.role, sub, t.arg>>, <<Book, sub, t.arg>>, <<Book, "", t.arg>>>>

FromFile(t) == t.kind \in {"template", "copy"}

Present(job, t) == SelectSeq(Candidates(t), LAMBDA p : p \in job.assets)

\* `load_templates`, `load_copy_files`: the content, from the first place that
\* has it; the tasks inside blocks are not visited.
WithBodies(job, done) ==
  IF \E t \in Range(done.tasks) : FromFile(t) /\ Present(job, t) = <<>> THEN Refused
  ELSE MapTasks(done, LAMBDA t : IF FromFile(t) THEN [t EXCEPT !.body = Present(job, t)[1]] ELSE t)

-----------------------------------------------------------------------------
(* mod.rs *)

\* `merge_vars_files`: later files over earlier ones, inline vars over all.
PlayVars(job, play) ==
  Layered(Append([i \in DOMAIN play.files |-> Lookup(job.varFiles, play.files[i])], play.vars))

\* `inherit_become_defaults`
Becoming(t, default) == [t EXCEPT !.become = IF @ = "unset" THEN default ELSE @]

\* Mutant of PushDown: only the children of a block inherit from it.
RECURSIVE PushDownOnce(_)
PushDownOnce(tasks) ==
  [i \in DOMAIN tasks |->
     [tasks[i] EXCEPT !.kids = [k \in DOMAIN @ |-> Guarded(Becoming(@[k], tasks[i].become), tasks[i])]]]

\* `inherit_block_metadata`: level after level, from the outside.
RECURSIVE PushDown(_)
PushDown(tasks) ==
  [i \in DOMAIN tasks |->
     [tasks[i] EXCEPT !.kids =
        PushDown([k \in DOMAIN @ |-> Guarded(Becoming(@[k], tasks[i].become), tasks[i])])]]

\* `load`, for one play: [ok, tasks, handlers, defaults].
LoadPlay(job, play) ==
  LET tasks == Plus(FromRoles(job, play, "tasks"), Flatten(job.tree, <<Book, "">>, play.tasks, {}))
      handlers == Plus(FromRoles(job, play, "handlers"), Flatten(job.tree, <<Book, "">>, play.handlers, {}))
      whole == Include(job, [ok |-> tasks.ok /\ handlers.ok, tasks |-> <<>>,
                             handlers |-> handlers.tasks, defaults |-> RoleDefaults(job, play)],
                       tasks.tasks, {})
      Finished(ts) ==
        LET read == WithBodies(job, Got(ts))
        IN [read EXCEPT !.tasks = PushDown([i \in DOMAIN @ |-> Becoming(@[i], play.become)])]
  IN [ok |-> /\ whole.ok /\ Finished(whole.tasks).ok /\ Finished(whole.handlers).ok
             /\ Range(play.files) \subseteq DOMAIN job.varFiles,
      tasks |-> Finished(whole.tasks).tasks,
      handlers |-> Finished(whole.handlers).tasks,
      defaults |-> whole.defaults,
      vars |-> PlayVars(job, play)]

\* Every file that is read is parsed.  (A flaw in a file nobody reads is
\* left out of the jobs.)
Parsable(job) ==
  /\ \A f \in DOMAIN job.tree : Parses(job.tree[f])
  /\ \A p \in Range(job.plays) : Parses(p.tasks) /\ Parses(p.handlers)

Loads(job) == Parsable(job) /\ \A p \in Range(job.plays) : LoadPlay(job, p).ok

-----------------------------------------------------------------------------
(* validate.rs *)

\* Mutant of NotifyKnown: the children of blocks are not asked.
NotifyKnownOutside(tasks, names) == \A t \in Range(tasks) : t.notify \subseteq names

NotifyKnown(tasks, names) == \A t \in Deep(tasks) : t.notify \subseteq names

\* `validate_task`, the children of blocks included: nothing the passes should
\* have replaced is left, and every literal source has its content.
TaskValid(t) ==
  \A u \in Deep(<<t>>) :
    /\ u.kind \notin {"import", "include"}
    /\ u.fault = "none"
    /\ FromFile(u) => u.body # <<>>

\* `validate_play`.
PlayValid(play, loaded, inv) ==
  LET names == {h.name : h \in Range(loaded.handlers)} IN
  /\ loaded.tasks # <<>>
  /\ WellFormed(play.hosts)
  /\ \A term \in Range(play.hosts) :
       Plain(term) => term.names \subseteq inv.hosts \cup DOMAIN inv.groups
  /\ Cardinality(names) = Len(loaded.handlers)
  /\ \A h \in Range(loaded.handlers) : TaskValid(h) /\ h.notify = {}
  /\ \A t \in Range(loaded.tasks) : TaskValid(t)
  /\ NotifyKnown(loaded.tasks, names)

\* What `cmd_validate` and `cmd_run` ask before anything else.
Accepted(job) ==
  /\ Loads(job) /\ job.plays # <<>>
  /\ InventoryLoads(job.raw, job.disk, job.password)
  /\ \A p \in Range(job.plays) : PlayValid(p, LoadPlay(job, p), View(job.raw))
=============================================================================
