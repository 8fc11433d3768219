----------------------------- MODULE ModuleRuns -----------------------------
(***************************************************************************)
(* The frame every agent module runs in, crates/agent/src/modules/mod.rs:  *)
(* a dispatched op looks at the machine, issues commands one by one, and   *)
(* answers once, with TaskDone (changed or not) or TaskError; under check  *)
(* mode it issues none.  Actors are the places where ops run at the same   *)
(* time on one machine: agents of different become keys, or jobs started   *)
(* with async in one agent.                                                *)
(*                                                                         *)
(* A run is the steps still ahead of it.  A step of a staged write is an   *)
(* action of FileModules; any other step is a probe that yields commands,  *)
(* listed in `todo` until they are issued.                                 *)
(*                                                                         *)
(* The machine is a function from resources (a path, a unit's state, the   *)
(* installed version of a package) to values; a path holds a node.         *)
(***************************************************************************)
EXTENDS TextEdits, TLC

CONSTANTS
    Actors,
    Scenes,     \* [host, ops, uids, runs, faults]: the machine, the ops each
                \* actor may be sent, the user it runs as, how often, and how
                \* many commands may fail
    Idle        \* an actor without an op

VARIABLES
    scene,
    host,
    tmps,       \* the staged files, by name: [node, by]
    run,        \* what each actor is doing
    log,        \* how its ops ended, in order
    faults      \* commands that failed although they could have succeeded

vars == <<scene, host, tmps, run, log, faults>>

NoMode == "as is"
NoUid  == 0

Node(type, text, mode, uid) == [type |-> type, text |-> text, mode |-> mode, uid |-> uid]
Absent == Node("none", NoText, NoMode, NoUid)

-----------------------------------------------------------------------------
(* Commands.  `counts` is whether issuing it makes the answer "changed".   *)
Sets(resources, value, counts) ==
    [do |-> "set", on |-> resources, to |-> value, counts |-> counts]
Set(resource, value, counts) == Sets({resource}, value, counts)
Chmod(path, mode)  == [do |-> "chmod", on |-> {path}, to |-> mode, counts |-> TRUE]
ChownTo(path, uid) == [do |-> "chown", on |-> {path}, to |-> uid, counts |-> TRUE]
\* What the op gives up on, or the tool it calls always rejects.
Refuse == [do |-> "refuse", on |-> {}, to |-> "", counts |-> FALSE]

\* chown(2) takes the set-id bits from the file it is called on.
Chowned(node, uid) ==
    [node EXCEPT !.uid = uid,
                 !.mode = IF node.mode = "4755" /\ node.type = "file" THEN "0755" ELSE @]

Done(c, value) ==
    CASE c.do = "set"   -> c.to
      [] c.do = "chmod" -> [value EXCEPT !.mode = c.to]
      [] c.do = "chown" -> Chowned(value, c.to)

Apply(c, h) == [r \in DOMAIN h |-> IF r \in c.on THEN Done(c, h[r]) ELSE h[r]]

Possible(c, h) ==
    /\ c.do # "refuse"
    /\ c.do \in {"chmod", "chown"} => \A path \in c.on : h[path].type # "none"

-----------------------------------------------------------------------------
(* Runs.                                                                   *)
Busy(a) == run[a] # Idle

At(a, steps) ==
    /\ Busy(a)
    /\ run[a].todo = <<>> /\ run[a].steps # <<>>
    /\ Head(run[a].steps) \in steps

\* The run leaves the step it is at for what follows.
Onward(r) == [r EXCEPT !.steps = Tail(@)]

Goes(a, r) == run' = [run EXCEPT ![a] = r] /\ UNCHANGED <<scene, host, log>>

Changes(a, r, h) ==
    /\ host' = h
    /\ run' = [run EXCEPT ![a] = r]
    /\ UNCHANGED <<scene, log>>

\* The answer, or none for a lost run.  An entry keeps the machine as the op
\* found and left it, whether no other op ran at the same time, and whether
\* it ran blind, metadata of its destination out of reach.
Ends(a, result) ==
    LET r == run[a]
    IN  /\ run' = [run EXCEPT ![a] = Idle]
        /\ log' = [log EXCEPT ![a] = Append(@,
                     [op |-> r.op, check |-> r.check, result |-> result, changed |-> r.changed,
                      base |-> r.base, left |-> host, alone |-> r.alone, blind |-> r.blind])]
        /\ UNCHANGED <<scene, host>>

Fault == faults < scene.faults /\ faults' = faults + 1

\* dispatch() calls the module's run(); `steps` is how that module starts.
Starts(a, op, steps, check) ==
    /\ ~Busy(a)
    /\ run' = [b \in Actors |->
                 CASE b = a -> [op |-> op, steps |-> steps, check |-> check, todo |-> <<>>,
                                changed |-> FALSE, want |-> NoText, tmp |-> <<>>, created |-> FALSE, blind |-> FALSE,
                                base |-> host, alone |-> \A c \in Actors \ {a} : ~Busy(c)]
                   [] b # a /\ Busy(b) -> [run[b] EXCEPT !.alone = FALSE]
                   [] OTHER -> run[b]]
    /\ UNCHANGED <<scene, host, tmps, log, faults>>

-----------------------------------------------------------------------------
\* A check that issues what it announces.
IssueAnyway(a) ==
    /\ Busy(a) /\ run[a].todo # <<>>
    /\ LET c == Head(run[a].todo)
       IN  /\ Possible(c, host)
           /\ Changes(a, [run[a] EXCEPT !.todo = Tail(@), !.changed = @ \/ c.counts], Apply(c, host))
    /\ UNCHANGED <<tmps, faults>>

\* Commands are issued in order; under check mode they are only counted.
Issue(a) ==
    /\ Busy(a) /\ run[a].todo # <<>>
    /\ LET c == Head(run[a].todo)
           r == [run[a] EXCEPT !.todo = Tail(@), !.changed = @ \/ c.counts]
       IN  \/ run[a].check /\ c.do # "refuse" /\ Goes(a, r)
           \/ ~run[a].check /\ Possible(c, host) /\ Changes(a, r, Apply(c, host))
    /\ UNCHANGED <<tmps, faults>>

\* The first command that fails ends the op with an error.
CommandFails(a) ==
    /\ Busy(a) /\ run[a].todo # <<>>
    /\ LET c == Head(run[a].todo)
       IN  \/ c.do = "refuse" /\ UNCHANGED faults
           \/ ~run[a].check /\ c.do # "refuse" /\ ~Possible(c, host) /\ UNCHANGED faults
           \/ ~run[a].check /\ Possible(c, host) /\ Fault
    /\ Ends(a, "failed")
    /\ UNCHANGED tmps

\* A mutant: the answer says what changed instead of how the op ended.
AnswerChanged(a) ==
    /\ Busy(a) /\ run[a].todo = <<>> /\ run[a].steps = <<>>
    /\ Ends(a, IF run[a].changed THEN "changed" ELSE "ok")
    /\ UNCHANGED <<tmps, faults>>

Answer(a) ==
    /\ Busy(a) /\ run[a].todo = <<>> /\ run[a].steps = <<>>
    /\ Ends(a, "ok")
    /\ UNCHANGED <<tmps, faults>>

\* The agent dies, or the deadline of an async job drops the op where it
\* stands: nobody cleans up.
Dropped(a) ==
    /\ Busy(a) /\ Fault
    /\ Ends(a, "lost")
    /\ UNCHANGED tmps
=============================================================================
