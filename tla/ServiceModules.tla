--------------------------- MODULE ServiceModules ---------------------------
(***************************************************************************)
(* The agent modules that unpack an archive, talk to a server, or only     *)
(* look: unarchive, uri, postgresql (queries and extensions), wait_for,    *)
(* read_file, stat, getent and gather_facts, under                         *)
(* crates/agent/src/modules/.                                              *)
(***************************************************************************)
EXTENDS SystemModules

Lookers == {"read_file", "getent", "stat", "gather_facts"}
ServiceKinds == {"unarchive", "uri", "pg_query", "pg_ext", "wait_for"} \cup Lookers

UnarchiveSteps(op) == <<"creates", "destdir">> \o [i \in DOMAIN op.entries |-> "unpack"] \o <<"perms">>

ServiceSteps(op) == IF op.kind = "unarchive" THEN UnarchiveSteps(op) ELSE <<op.kind>>

ServiceProbes == {"destdir", "unpack", "perms", "uri", "pg_query", "pg_ext"} \cup Lookers

-----------------------------------------------------------------------------
(* unarchive.  An entry is [path, text, time, safe]; what is on the disk   *)
(* has a time too, and what is written now is newer than any archive.      *)
Now == 3
Timed(node, time) == node @@ [time |-> time]
Unpacked(text, uid) == Timed(Node("file", text, UmaskMode, uid), Now)
Gone == Timed(Absent, 0)
Missing(node) == node.type = "none"

Passes(op, entry) == (op.include # {} => entry.path \in op.include) /\ entry.path \notin op.exclude

Keeps(op, entry, node) == op.keep_newer /\ ~Missing(node) /\ node.time >= entry.time

\* What is in the way is removed, the file made and then filled; the paths of
\* all entries are looked at, those of excluded ones too.
Unpack(op, entry, h, uid) ==
    CASE ~entry.safe -> <<Refuse>>
      [] entry.safe /\ (~Passes(op, entry) \/ Keeps(op, entry, h[entry.path])) -> <<>>
      [] OTHER ->
            If(~Missing(h[entry.path]), <<Set(entry.path, Gone, FALSE)>>)
            \o <<Set(entry.path, Unpacked(Torn, uid), FALSE),
                 Set(entry.path, Unpacked(entry.text, uid), TRUE)>>

\* The entry whose turn it is: one step is left for each that follows.
Turn(r) == r.op.entries[Len(r.op.entries) + 2 - Len(r.steps)]

\* Mode and owner go to every entry that passed, kept or written; that alone
\* does not count as a change.
Uncounted(c) == [c EXCEPT !.counts = FALSE]
Perms(op) ==
    LET entries == SelectSeq(op.entries, LAMBDA e : Passes(op, e))
        attrs(e) == If(op.mode # NoMode, <<Uncounted(Chmod(e.path, op.mode))>>)
                    \o If(op.owner # NoUid, <<Uncounted(ChownTo(e.path, op.owner))>>)
    IN  FlattenSeq([i \in DOMAIN entries |-> attrs(entries[i])])

UnarchiveTodo(r, step, h, uid) ==
    CASE step = "destdir" -> IF h["dir"] THEN If(r.check, <<Set("dir", TRUE, TRUE)>>) ELSE <<Refuse>>
      [] step = "unpack"  -> If(~r.check, Unpack(r.op, Turn(r), h, uid))
      [] step = "perms"   -> If(~r.check, Perms(r.op))

\* The marker is enough, whatever became of the extraction that made it.
Creates(a) ==
    /\ At(a, {"creates"})
    /\ IF run[a].op.creates # "" /\ ~Missing(host[run[a].op.creates])
         THEN Ends(a, "ok") ELSE Goes(a, Onward(run[a]))
    /\ UNCHANGED <<tmps, faults>>

-----------------------------------------------------------------------------
(* uri: the server answers with a status, whether it has carried out the   *)
(* request (accepts = 1) or not; the answer may be lost after that.  A     *)
(* status that is not expected fails the op.                               *)
Reply == Set("sent", TRUE, FALSE)

UriTodo(r, h) ==
    LET server == h["server"]
    IN  If(~(r.check /\ r.op.mutating),
           If(r.op.mutating, <<Set("server", [server EXCEPT !.done = @ + server.accepts], TRUE)>>)
           \o <<Reply>> \o If(server.status \notin r.op.status_codes, <<Refuse>>))

(* postgresql: a query runs in a transaction of its own; an extension is   *)
(* looked up first.  The server knows the versions it can install.         *)
QueryTodo(r, h) ==
    If(~r.op.read_only /\ ~r.check, <<Set("server", [h["server"] EXCEPT !.done = @ + 1], TRUE)>>)

ExtVersion(op, h) == Given(op.version, h["default_version"])

ExtActs(op, installed) ==
    \/ (installed # "") # (op.state = "present")
    \/ op.state = "present" /\ Given(op.version, installed) # installed

ExtTodo(r, h) ==
    CASE ~ExtActs(r.op, h["extension"]) -> <<>>
      [] ExtActs(r.op, h["extension"]) /\ r.op.state = "absent" -> <<Set("extension", "", TRUE)>>
      [] ExtActs(r.op, h["extension"]) /\ r.op.state = "present" ->
            IF ~r.check /\ ExtVersion(r.op, h) \notin r.op.known THEN <<Refuse>>
            ELSE <<Set("extension", ExtVersion(r.op, h), TRUE)>>

-----------------------------------------------------------------------------
(* wait_for looks, and looks again until its time is up; the same under    *)
(* check mode.  Without a port or a path it only sleeps.                   *)
Observed(op) == CASE op.mode = "path" -> ~Missing(host["path"])
                  [] op.mode = "tcp"  -> host["port"] \in {"open", "closing"}
                  [] op.mode = "sleep" -> op.state = "present"

WaitMet(a) ==
    /\ At(a, {"wait_for"}) /\ Observed(run[a].op) = (run[a].op.state = "present")
    /\ Goes(a, Onward(run[a]))
    /\ UNCHANGED <<tmps, faults>>

WaitTimesOut(a) ==
    /\ At(a, {"wait_for"}) /\ Observed(run[a].op) # (run[a].op.state = "present")
    /\ Ends(a, "failed")
    /\ UNCHANGED <<tmps, faults>>

\* The service behind the port comes up, or goes down, when it is ready to.
PortTurns ==
    /\ "port" \in DOMAIN host /\ host["port"] \in {"opening", "closing"}
    /\ host' = [host EXCEPT !["port"] = IF @ = "opening" THEN "open" ELSE "closed"]
    /\ UNCHANGED <<scene, tmps, run, log, faults>>

(* read_file wants a regular file of the size it may have; getent with    *)
(* fail_key a key that is there; stat and gather_facts take what they find.*)
ReadFileTodo(op, h) ==
    If(h["path"].type # "file" \/ Len(h["path"].text.lines) > op.max_bytes, <<Refuse>>)
GetentTodo(op, h) == If(op.fail_key /\ Missing(h["path"]), <<Refuse>>)

LookTodo(op, h) ==
    CASE op.kind = "read_file" -> ReadFileTodo(op, h)
      [] op.kind = "getent"    -> GetentTodo(op, h)
      [] OTHER                 -> <<>>

-----------------------------------------------------------------------------
ServiceTodo(r, step, h, uid) ==
    CASE step \in {"destdir", "unpack", "perms"} -> UnarchiveTodo(r, step, h, uid)
      [] step = "uri"      -> UriTodo(r, h)
      [] step = "pg_query" -> QueryTodo(r, h)
      [] step = "pg_ext"   -> ExtTodo(r, h)
      [] step \in Lookers   -> LookTodo(r.op, h)

ServiceStep(a) == Creates(a) \/ WaitMet(a) \/ WaitTimesOut(a)
=============================================================================
