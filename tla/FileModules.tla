----------------------------- MODULE FileModules -----------------------------
(***************************************************************************)
(* The agent modules that write files: write_file, copy_target,            *)
(* lineinfile, blockinfile, authorized_key, repository(apt), get_url and   *)
(* file, under crates/agent/src/modules/.  All but file stage the new      *)
(* content next to its destination and rename it over it; they differ in   *)
(* what they compare first, in how the staged file is named, in what they  *)
(* do to it before the rename, and in who removes it when a step fails.    *)
(***************************************************************************)
EXTENDS ModuleRuns

WriteKinds == {"write_file", "copy_target"}
EditKinds  == {"lineinfile", "blockinfile"}
\* One fixed name for the staged file of every run.
FixedTmp   == {"authorized_key", "repository", "get_url"}
FileKinds  == WriteKinds \cup EditKinds \cup FixedTmp \cup {"file"}

UmaskMode == "0644"
Torn      == [lines |-> <<"half">>, eol |-> FALSE]

If(cond, steps) == IF cond THEN steps ELSE <<>>

\* What each module looks at first.
WriteFileSteps(op)  == If(op.missing, <<"lstat">>) \o <<"read", "meta">>
CopyTargetSteps     == <<"meta", "read">>
LineinfileSteps     == <<"read">>
BlockinfileSteps    == <<"read">>
AuthorizedKeySteps  == <<"read">>
RepositorySteps(op) == IF op.state = "present" THEN <<"read", "meta">> ELSE <<"remove", "update">>
GetUrlSteps         == <<"meta">>
DirectorySteps(op)  == <<"mkdir", "attrs">> \o If(op.recurse, <<"walk">>)
TouchSteps          == <<"create", "times", "attrs">>

FileModuleSteps(op) ==
    CASE op.state = "directory" -> DirectorySteps(op)
      [] op.state = "absent"    -> <<"remove">>
      [] op.state = "touch"     -> TouchSteps
      [] op.state = "file"      -> <<"isfile", "attrs">>
      [] op.state = "link"      -> <<"link", "attrs">>

FileSteps(op) ==
    CASE op.kind = "write_file"     -> WriteFileSteps(op)
      [] op.kind = "copy_target"    -> CopyTargetSteps
      [] op.kind = "lineinfile"     -> LineinfileSteps
      [] op.kind = "blockinfile"    -> BlockinfileSteps
      [] op.kind = "authorized_key" -> AuthorizedKeySteps
      [] op.kind = "repository"     -> RepositorySteps(op)
      [] op.kind = "get_url"        -> GetUrlSteps
      [] op.kind = "file"           -> FileModuleSteps(op)

\* A mutant: the validator sees the file after it is in place.
ValidatedLate(op, chowned) ==
    <<"stage", "fill">> \o If(chowned, <<"chown">>) \o <<"rename">> \o If(op.validate # {}, <<"validate">>)

\* What a write does once it is decided.
StagedWrite(op, chowned) ==
    <<"stage", "fill">> \o If(chowned, <<"chown">>) \o If(op.validate # {}, <<"validate">>) \o <<"rename">>

WriteFileWrites(op)     == StagedWrite(op, op.owner # NoUid)
CopyTargetWrites(op)    == StagedWrite(op, op.owner # NoUid)
LineinfileWrites(op)    == StagedWrite(op, FALSE)
BlockinfileWrites(op)   == StagedWrite(op, FALSE)
AuthorizedKeyWrites(op) == <<"sshdir">> \o StagedWrite(op, TRUE)
RepositoryWrites(op)    == StagedWrite(op, FALSE) \o <<"update">>
GetUrlWrites(op)        == StagedWrite(op, FALSE)

Writes(op) ==
    CASE op.kind = "write_file"     -> WriteFileWrites(op)
      [] op.kind = "copy_target"    -> CopyTargetWrites(op)
      [] op.kind = "lineinfile"     -> LineinfileWrites(op)
      [] op.kind = "blockinfile"    -> BlockinfileWrites(op)
      [] op.kind = "authorized_key" -> AuthorizedKeyWrites(op)
      [] op.kind = "repository"     -> RepositoryWrites(op)
      [] op.kind = "get_url"        -> GetUrlWrites(op)

\* Two mutants: a mode that differs is put right only along with the content,
\* and a check does not look at it.
DecidedContentOnly(r) ==
    [r EXCEPT !.steps = If(r.changed /\ ~r.check, Writes(r.op))]
DecidedCheckBlind(r) ==
    [r EXCEPT !.steps =
        CASE r.check -> <<>>
          [] ~r.check /\ r.op.kind \in EditKinds /\ ~r.changed -> <<"mode">>
          [] OTHER -> If(r.changed, Writes(r.op))]

\* A whole-file write goes ahead even when nothing differs; an edit that
\* changes nothing may still mend the mode, a download always the attributes.
Decided(r) ==
    LET write == If((r.changed \/ r.op.kind \in WriteKinds) /\ ~r.check, Writes(r.op))
    IN  [r EXCEPT !.steps =
            CASE r.op.kind \in EditKinds /\ ~r.changed -> <<"mode">>
              [] r.op.kind = "get_url" /\ ~r.check -> write \o <<"attrs">>
              [] OTHER -> write]

-----------------------------------------------------------------------------
(* What is there, and what is wanted.                                      *)
NewText(op, text) ==
    CASE op.kind = "lineinfile"     -> LineEdit(text, op)
      [] op.kind = "blockinfile"    -> BlockEdit(text, op)
      [] op.kind = "authorized_key" -> KeyEdit(text, op)
      [] OTHER                      -> op.text

ModeDiffers(op, node)  == op.mode # NoMode /\ node.mode # op.mode
OwnerDiffers(op, node) == op.owner # NoUid /\ node.uid # op.owner

\* write_file with only_if_missing: an occupied path is left alone.
Lstat(a) ==
    /\ At(a, {"lstat"})
    /\ IF host["dest"].type # "none" THEN Ends(a, "ok") ELSE Goes(a, Onward(run[a]))
    /\ UNCHANGED <<tmps, faults>>

\* After the last look a run decides.
Looked(r) == IF Tail(r.steps) = <<>> THEN Decided(r) ELSE Onward(r)

Read(a) ==
    LET op      == run[a].op
        node    == host["dest"]
        missing == node.type = "none"
        edits   == op.kind \in EditKinds
        new     == NewText(op, node.text)
        differs == new # node.text \/ (missing /\ op.kind # "authorized_key")
        r       == [run[a] EXCEPT !.want = new, !.changed = @ \/ differs, !.created = missing]
    IN  /\ At(a, {"read"})
        /\ \/ node.type = "dir" /\ Ends(a, "failed")
           \/ edits /\ missing /\ op.state = "absent" /\ Ends(a, "ok")
           \/ edits /\ missing /\ op.state = "present" /\ ~op.create /\ Ends(a, "failed")
           \/ /\ node.type # "dir"
              /\ edits /\ missing => (op.state = "present" /\ op.create)
              /\ Goes(a, Looked(r))
        /\ UNCHANGED <<tmps, faults>>

\* A mutant: a write reports a change of the content only.
MetaContentOnly(a) ==
    /\ At(a, {"meta"})
    /\ Goes(a, Looked(run[a]))
    /\ UNCHANGED <<tmps, faults>>

\* The metadata that decide about a write: mode and owner for a whole-file
\* write, the mode for a source list, the checksum for a download.
Meta(a) ==
    LET op      == run[a].op
        node    == host["dest"]
        missing == node.type = "none"
        fetch   == op.force \/ missing \/ (op.validate # {} /\ node.text \notin op.validate)
        differs == CASE op.kind = "get_url"    -> fetch
                     [] op.kind = "repository" -> ModeDiffers(op, node)
                     [] OTHER -> ModeDiffers(op, node) \/ OwnerDiffers(op, node)
    IN  /\ At(a, {"meta"})
        /\ Goes(a, Looked([run[a] EXCEPT !.changed = @ \/ differs]))
        /\ UNCHANGED <<tmps, faults>>

\* Metadata that cannot be had are taken to differ from what is asked for, as
\* those of a file that is not there; a download is fetched.
MetaUnknown(a) ==
    LET op == run[a].op
    IN  /\ At(a, {"meta"})
        /\ Fault
        /\ Goes(a, Looked([run[a] EXCEPT !.blind = TRUE,
                            !.changed = @ \/ op.kind = "get_url" \/ op.mode # NoMode \/ op.owner # NoUid]))
        /\ UNCHANGED tmps

-----------------------------------------------------------------------------
(* The staged write.                                                       *)
TmpName(a) == run[a].tmp

\* A mutant: one name for every run of a module.
TmpNamesShared(a) == {<<run[a].op.kind, 0>>}

\* A pid and a sequence number may come back after a crash; a nonce does not.
TmpNames(a) ==
    LET op    == run[a].op
        fresh == <<a, Len(log[a])>>
        stale == {n \in DOMAIN tmps : n[1] = a}
    IN  CASE op.kind \in FixedTmp   -> {<<op.kind, 0>>}
          [] op.kind \in WriteKinds -> {fresh} \cup stale
          [] op.kind \in EditKinds  -> {fresh}

Staged(name, node, a) == (name :> [node |-> node, by |-> a]) @@ tmps
Unstaged(name) == Restrict(tmps, DOMAIN tmps \ {name})

\* create_new stops at a file that exists, and the error path removes it; a
\* fixed name is removed, or truncated, first.
Stage(a) ==
    /\ At(a, {"stage"})
    /\ \E name \in TmpNames(a) :
          \/ /\ name \in DOMAIN tmps => run[a].op.kind \in FixedTmp
             /\ tmps' = Staged(name, Node("file", Torn, UmaskMode, scene.uids[a]), a)
             /\ Goes(a, [Onward(run[a]) EXCEPT !.tmp = name])
          \/ /\ name \in DOMAIN tmps /\ run[a].op.kind \notin FixedTmp
             /\ tmps' = Unstaged(name)
             /\ Ends(a, "failed")
    /\ UNCHANGED faults

\* The modes a staged file may get.  An edit without a mode takes that of the
\* file it read, if there was one and its metadata can be had by now.
FillModes(r, staged, dest) ==
    CASE r.op.kind \in {"authorized_key", "get_url"} -> {"0600"}
      [] r.op.kind \notin {"authorized_key", "get_url"} /\ r.op.mode # NoMode -> {r.op.mode}
      [] r.op.kind \in EditKinds /\ r.op.mode = NoMode /\ ~r.created /\ dest.type = "file" -> {dest.mode, staged.mode}
      [] OTHER -> {staged.mode}

\* Write, fsync, chmod.  An actor whose staged file was removed and made
\* again writes to the one that is gone.  A download holds what came.
Fill(a) ==
    /\ At(a, {"fill"})
    /\ LET name == TmpName(a)
       IN  \/ /\ name \in DOMAIN tmps
              /\ LET old   == tmps[name].node
                     modes == FillModes(run[a], old, host["dest"])
                 IN  \E text \in (IF run[a].op.kind = "get_url" THEN run[a].op.served ELSE {run[a].want}), mode \in modes :
                        /\ tmps' = [tmps EXCEPT ![name].node =
                                      [old EXCEPT !.text = IF tmps[name].by = a THEN text ELSE @, !.mode = mode]]
                        /\ IF mode = host["dest"].mode \/ Cardinality(modes) = 1 THEN UNCHANGED faults ELSE Fault
              /\ Goes(a, Onward(run[a]))
           \/ name \notin DOMAIN tmps /\ UNCHANGED <<tmps, faults>> /\ Ends(a, "failed")

ChownTmp(a) ==
    /\ At(a, {"chown"})
    /\ LET name == TmpName(a)
       IN  \/ /\ name \in DOMAIN tmps
              /\ tmps' = [tmps EXCEPT ![name].node = Chowned(@, run[a].op.owner)]
              /\ Goes(a, Onward(run[a]))
           \/ name \notin DOMAIN tmps /\ UNCHANGED tmps /\ Ends(a, "failed")
    /\ UNCHANGED faults

\* A mutant: the verdict of the validator is only logged.
ValidateIgnored(a) ==
    /\ At(a, {"validate"})
    /\ Goes(a, Onward(run[a]))
    /\ UNCHANGED <<tmps, faults>>

\* The validator, or the checksum, sees the staged file; a rejected one goes.
Validate(a) ==
    /\ At(a, {"validate"})
    /\ LET name == TmpName(a)
       IN  \/ /\ name \in DOMAIN tmps /\ tmps[name].node.text \in run[a].op.validate
              /\ Goes(a, Onward(run[a]))
              /\ UNCHANGED tmps
           \/ /\ ~(name \in DOMAIN tmps /\ tmps[name].node.text \in run[a].op.validate)
              /\ tmps' = Unstaged(name)
              /\ Ends(a, "failed")
    /\ UNCHANGED faults

Rename(a) ==
    /\ At(a, {"rename"})
    /\ LET name == TmpName(a)
       IN  \/ /\ name \in DOMAIN tmps
              /\ tmps' = Unstaged(name)
              /\ Changes(a, Onward(run[a]), [host EXCEPT !["dest"] = tmps[name].node])
           \/ name \notin DOMAIN tmps /\ UNCHANGED tmps /\ Ends(a, "failed")
    /\ UNCHANGED faults

-----------------------------------------------------------------------------
\* A mutant: write_file forgets the remove_file of its error paths.
LeaksAlways(kind, step) == step \in {"fill", "chown", "validate", "rename"}

\* Metadata that fail stop no run, but a destination that is there may fail to be hashed.
Fallible(r) ==
    {"lstat", "read", "stage", "fill", "chown", "validate", "rename"}
    \cup (IF r.op.kind = "get_url" /\ r.op.validate # {} /\ ~r.op.force THEN {"meta"} ELSE {})

\* Whether a module's error path leaves its staged file behind.
Leaks(kind, step) ==
    \/ step = "fill" /\ kind \in EditKinds \cup {"authorized_key", "repository"}
    \/ step = "chown" /\ kind = "authorized_key"
    \/ step = "rename" /\ kind \in EditKinds

StepFails(a) ==
    /\ Busy(a) /\ At(a, Fallible(run[a]))
    /\ Head(run[a].steps) = "meta" => host["dest"].type # "none"
    /\ Fault
    /\ LET step == Head(run[a].steps)
       IN  tmps' = IF step \in {"fill", "chown", "validate", "rename"} /\ ~Leaks(run[a].op.kind, step)
                   THEN Unstaged(TmpName(a)) ELSE tmps
    /\ Ends(a, "failed")

-----------------------------------------------------------------------------
(* Probes of file, and of what the writers do besides the rename.          *)
Attrs(path, op, h) ==
    LET node == h[path]
    IN  If(ModeDiffers(op, node) /\ node.type # "link", <<Chmod(path, op.mode)>>)
        \o If(OwnerDiffers(op, node), <<ChownTo(path, op.owner)>>)

Link(op, h, uid) ==
    LET link == Node("link", op.text, NoMode, uid)
    IN  CASE h["dest"].type = "none" -> <<Set("dest", link, TRUE)>>
          [] h["dest"].type = "link" -> If(h["dest"].text # op.text, <<Set("dest", link, TRUE)>>)
          [] OTHER -> <<Refuse>>

Mkdir(h, uid) ==
    CASE h["dest"].type = "none" -> <<Set("dest", Node("dir", NoText, "0755", uid), TRUE)>>
      [] h["dest"].type = "dir"  -> <<>>
      [] OTHER -> <<Refuse>>

\* A source list is removed as a file, whatever it is.
Removal(r, h) ==
    CASE h["dest"].type = "none" -> <<>>
      [] h["dest"].type = "dir" /\ r.op.kind = "repository" /\ ~r.check -> <<Refuse>>
      [] OTHER -> <<Sets({"dest", "child"}, Absent, TRUE)>>

FileTodo(r, step, h, uid) ==
    CASE step = "mkdir" -> Mkdir(h, uid)
      [] step = "link" -> Link(r.op, h, uid)
      [] step = "isfile" -> If(h["dest"].type # "file", <<Refuse>>)
      [] step = "create" ->
            If(h["dest"].type = "none", <<Set("dest", Node("file", NoText, UmaskMode, uid), TRUE)>>)
      [] step = "times" -> <<Set("times", "now", TRUE)>>
      [] step = "remove" -> Removal(r, h)
      \* Under check mode what is only announced has no attributes to look at.
      [] step = "attrs" ->
            IF h["dest"].type = "none" THEN If(~r.check, <<Refuse>>) ELSE Attrs("dest", r.op, h)
      [] step = "walk" -> If(h["child"].type # "none", Attrs("child", r.op, h))
      [] step = "mode" ->
            IF h["dest"].type = "none" /\ r.op.mode # NoMode THEN <<Refuse>>
            ELSE If(ModeDiffers(r.op, h["dest"]), <<Chmod("dest", r.op.mode)>>)
      [] step = "sshdir" ->
            If(h["sshdir"].type = "none", <<Set("sshdir", Node("dir", NoText, "0755", uid), TRUE)>>)
            \o <<Chmod("sshdir", "0700"), ChownTo("sshdir", r.op.owner)>>
      [] step = "update" -> If(r.changed /\ r.op.update /\ ~r.check, <<Set("cache", "fresh", FALSE)>>)

FileStep(a) ==
    \/ Lstat(a) \/ Read(a) \/ Meta(a) \/ MetaUnknown(a)
    \/ Stage(a) \/ Fill(a) \/ ChownTmp(a) \/ Validate(a) \/ Rename(a)
    \/ StepFails(a)
=============================================================================
