------------------------------- MODULE Forward -------------------------------
(***************************************************************************)
(* Forward mode: `run_forwarded` (forward.rs) on a laptop moves the         *)
(* controller to a forwarder.  It stages the two binaries in a cache there   *)
(* (forward_push.rs), starts the controller over ssh, feeds it the payload,  *)
(* reads its report, and listens on a back channel for the hosts that are    *)
(* the laptop itself (local_agent.rs, back_channel.rs).  Several such runs   *)
(* share one forwarder.  Connections are lost, operators interrupt, and the  *)
(* forwarder tidies its /tmp.                                               *)
(***************************************************************************)
EXTENDS Naturals, Sequences, FiniteSets

CONSTANTS
  Runs,       \* runs of `rsansible run --forward`, each on a laptop of its own
  MayBring,   \* those of them that may be given --no-cache
  MaxMishaps, \* bound: runs that are interrupted, lose a connection or their listener, or
              \* have a push fail
  MaxPurges   \* bound: binaries the forwarder tidies away

ASSUME ForwardAssumption ==
  MayBring \subseteq Runs /\ MaxMishaps \in Nat /\ MaxPurges \in Nat

Binaries == {"ctl", "agent"}
\* A file: not there, cut short, or all of it.
Files == {"none", "half", "whole"}
\* The kinds of hosts a play may name: one reached over ssh, one with
\* `connection: local`, and the forwarder itself.
Hosts == {"peer", "desk", "self"}

VARIABLES
  uncached, \* the runs with --no-cache
  pc,       \* where `run_forwarded` stands
  listener, \* "spawned" | "bound" | "failed" | "gone": the back-channel listener
  link,     \* "up" | "lost": the connections of the run
  push,     \* binary -> "none" | "open" | "sent" | "ok" | "failed": the laptop's end
  script,   \* binary -> "none" | "cat" | "mv" | "done" | "dead": the other end
  tmp,      \* <<run, binary>> -> the temporary file of a push
  cache,    \* binary -> the file under its hash
  fed,      \* how many of its items the main session was fed
  stdin,    \* "open" | "closed"
  shell,    \* "none" | "script" | "controller" | "running" | "garbled" | "exited"
  took,     \* binary -> "unread" or the file the main session found
  output,   \* "none" | "half" | "whole": the report on the laptop's side
  status,   \* exit status of the main session: "none" | "zero" | "nonzero"
  result,   \* "none" | "report" | "error"
  cut,      \* history: the binaries a push of which ended short
  purged    \* history: the binaries the forwarder has tidied away

ends == <<pc, listener, result>>
staging == <<push, script, tmp, cache, cut, purged>>
session == <<fed, stdin, shell, took, output, status>>
vars == <<uncached, ends, link, staging, session>>

-----------------------------------------------------------------------------
(* Names *)

\* Mutant of TmpName: no random suffix.
TmpNameByHash(r, b) == <<CHOOSE x \in Runs : TRUE, b>>

\* `<hash>.tmp.<rand>`
TmpName(r, b) == <<r, b>>

\* Mutant of SocketOf: no random suffix.
SocketOfAll(r) == CHOOSE x \in Runs : TRUE

\* `/tmp/rsansible-bc-<rand>-remote.sock`
SocketOf(r) == r

Init ==
  /\ uncached \in SUBSET MayBring
  /\ pc = [r \in Runs |-> "binding"]
  /\ listener = [r \in Runs |-> "spawned"]
  /\ link = [r \in Runs |-> "up"]
  /\ push = [r \in Runs |-> [b \in Binaries |-> "none"]]
  /\ script = [r \in Runs |-> [b \in Binaries |-> "none"]]
  /\ tmp = [n \in Runs \X Binaries |-> "none"]
  /\ cache \in [Binaries -> {"none", "whole"}]
  /\ fed = [r \in Runs |-> 0]
  /\ stdin = [r \in Runs |-> "open"]
  /\ shell = [r \in Runs |-> "none"]
  /\ took = [r \in Runs |-> [b \in Binaries |-> "unread"]]
  /\ output = [r \in Runs |-> "none"]
  /\ status = [r \in Runs |-> "none"]
  /\ result = [r \in Runs |-> "none"]
  /\ cut = {} /\ purged = {}

Over(r) == pc[r] \in {"done", "failed", "killed"}
\* Nobody feeds or reads the run's sessions any more.
HungUp(r) == link[r] = "lost" \/ Over(r)

\* The listener is a task of the run's process.
ListenerEnds(r) == listener' = [listener EXCEPT ![r] = IF @ = "failed" THEN @ ELSE "gone"]

\* Every `?` of `run_forwarded`; the process ends, and the listener with it.
Fails(r) ==
  /\ pc' = [pc EXCEPT ![r] = "failed"]
  /\ result' = [result EXCEPT ![r] = "error"]
  /\ ListenerEnds(r)

\* Bound on what goes wrong from outside.
MoreMishaps ==
  Cardinality({r \in Runs : \/ link[r] = "lost" \/ pc[r] = "killed" \/ listener[r] = "failed"
                            \/ \E b \in Binaries : script[r][b] = "dead"}) < MaxMishaps

-----------------------------------------------------------------------------
(* The laptop, up to the main session *)

\* `cmd_local_agent_listen`, a task of its own.
Listen(r) ==
  /\ listener[r] = "spawned"
  /\ listener' = [listener EXCEPT ![r] = "bound"]
  /\ UNCHANGED <<uncached, pc, result, link, staging, session>>

\* An `accept` errors (no descriptor left, say): the listener exits with it, which
\* is logged and no more.  Its socket file stays, and the run goes on.
AcceptFails(r) ==
  /\ listener[r] = "bound" /\ MoreMishaps
  /\ listener' = [listener EXCEPT ![r] = "failed"]
  /\ UNCHANGED <<uncached, pc, result, link, staging, session>>

\* Mutant of SocketAwaited: the run does not wait for the bind.
SocketTaken(r) == pc[r] = "binding" /\ listener[r] # "gone"

\* The overrides, paths and the bundle are there and the listener was spawned:
\* the polls saw the socket file.
SocketAwaited(r) == pc[r] = "binding" /\ listener[r] \in {"bound", "failed"}

\* Then the binaries are read and the ControlMaster is found or opened.
Prepared(r) ==
  /\ SocketAwaited(r)
  /\ \/ /\ pc' = [pc EXCEPT ![r] = IF r \in uncached THEN "dialing" ELSE "staging"]
        /\ UNCHANGED <<result, listener>>
     \/ Fails(r)
  /\ UNCHANGED <<uncached, link, staging, session>>

\* The fifty polls are over, or what comes before the listener has failed.
BindTimesOut(r) ==
  /\ pc[r] = "binding" /\ listener[r] = "spawned" /\ Fails(r)
  /\ UNCHANGED <<uncached, link, staging, session>>

-----------------------------------------------------------------------------
(* Staging *)

\* Mutant of Cached: a push under way counts.
CachedOrComing == {b \in Binaries : cache[b] # "none" \/ \E r \in Runs : tmp[<<r, b>>] # "none"}

\* `[ -f ] && [ -x ]`, for all that is known of the file.
Cached == {b \in Binaries : cache[b] # "none"}

\* `probe_cache`, and a push for every miss.
Probe(r) ==
  /\ pc[r] = "staging"
  /\ IF link[r] = "lost" THEN Fails(r) /\ UNCHANGED push
     ELSE /\ pc' = [pc EXCEPT ![r] = "joining"]
          /\ push' = [push EXCEPT ![r] = [b \in Binaries |-> IF b \in Cached THEN "none" ELSE "open"]]
          /\ UNCHANGED <<result, listener>>
  /\ UNCHANGED <<uncached, link, script, tmp, cache, cut, purged, session>>

SetScript(r, b, s) == script' = [script EXCEPT ![r][b] = s]
SetTmp(r, b, f) == tmp' = [tmp EXCEPT ![TmpName(r, b)] = f]

\* The remote script of a push, a command at a time: `cat > tmp` truncates,
\* and writes what comes.
CatOpens(r, b) ==
  /\ push[r][b] = "open" /\ script[r][b] = "none" /\ ~HungUp(r)
  /\ SetScript(r, b, "cat") /\ SetTmp(r, b, "half")
  /\ UNCHANGED <<uncached, ends, link, push, cache, cut, purged, session>>

CatReads(r, b) ==
  /\ push[r][b] = "open" /\ script[r][b] = "cat" /\ ~HungUp(r)
  /\ SetTmp(r, b, "whole")
  /\ push' = [push EXCEPT ![r][b] = "sent"]
  /\ UNCHANGED <<uncached, ends, link, script, cache, cut, purged, session>>

\* The end of its input ends `cat` without an error, whether all has come or
\* the other end has hung up; `set -e` lets the script go on.
CatEnds(r, b) ==
  /\ script[r][b] = "cat" /\ (push[r][b] = "sent" \/ HungUp(r))
  /\ SetScript(r, b, "mv")
  /\ cut' = IF push[r][b] = "sent" THEN cut ELSE cut \cup {b}
  /\ UNCHANGED <<uncached, ends, link, push, tmp, cache, purged, session>>

\* `chmod` and `mv`.
Mv(r, b) ==
  /\ script[r][b] = "mv" /\ tmp[TmpName(r, b)] # "none"
  /\ cache' = [cache EXCEPT ![b] = tmp[TmpName(r, b)]]
  /\ SetTmp(r, b, "none") /\ SetScript(r, b, "done")
  /\ UNCHANGED <<uncached, ends, link, push, cut, purged, session>>

\* A command fails (no space, no file), or the session is torn down with its
\* processes.
ScriptDies(r, b) ==
  /\ script[r][b] \in {"cat", "mv"} /\ MoreMishaps
  /\ SetScript(r, b, "dead")
  /\ UNCHANGED <<uncached, ends, link, push, tmp, cache, cut, purged, session>>

\* `push_binary_to_cache` returns.
PushEnds(r, b) ==
  /\ ~Over(r) /\ push[r][b] \in {"open", "sent"}
  /\ \/ /\ script[r][b] = "done" /\ push[r][b] = "sent" /\ link[r] = "up"
        /\ push' = [push EXCEPT ![r][b] = "ok"]
     \/ /\ script[r][b] = "dead" \/ link[r] = "lost"
        /\ push' = [push EXCEPT ![r][b] = "failed"]
  /\ UNCHANGED <<uncached, ends, link, script, tmp, cache, cut, purged, session>>

Staged(r, b) == push[r][b] \in {"none", "ok"}

\* Mutant of AllStaged: one push is enough.
AnyStaged(r) == \E b \in Binaries : Staged(r, b)

AllStaged(r) == \A b \in Binaries : Staged(r, b)

\* `stage_binaries` awaits the pushes in their order; the first that failed
\* ends the run, with the other one under way or not.
Join(r) ==
  /\ pc[r] = "joining"
  /\ \/ /\ AllStaged(r)
        /\ pc' = [pc EXCEPT ![r] = "dialing"]
        /\ UNCHANGED <<result, listener>>
     \/ /\ \/ push[r]["ctl"] = "failed"
           \/ Staged(r, "ctl") /\ push[r]["agent"] = "failed"
        /\ Fails(r)
  /\ UNCHANGED <<uncached, link, staging, session>>

-----------------------------------------------------------------------------
(* The main session *)

\* Mutant of Items: the binaries go ahead of the payload in any case.
ItemsAlways(r) == <<"ctl", "agent", "payload">>

\* What goes to the remote script on its standard input.
Items(r) == IF r \in uncached THEN <<"ctl", "agent", "payload">> ELSE <<"payload">>

\* How much of it the script takes itself.
Taken(r) == IF r \in uncached THEN 2 ELSE 0

\* ssh with `-R` for the back channel.
Dial(r) ==
  /\ pc[r] = "dialing"
  /\ pc' = [pc EXCEPT ![r] = "exchange"]
  /\ shell' = [shell EXCEPT ![r] = IF link[r] = "up" THEN "script" ELSE "none"]
  /\ UNCHANGED <<uncached, listener, result, link, staging, fed, stdin, took, output, status>>

SessionOver(r) == link[r] = "lost" \/ shell[r] \in {"garbled", "exited"}

\* `stdin_writer`, which `try_join!` gives up with the reader when it fails.
Feed(r) ==
  /\ pc[r] = "exchange" /\ fed[r] < Len(Items(r))
  /\ \/ SessionOver(r) /\ Fails(r) /\ UNCHANGED fed
     \/ /\ link[r] = "up"
        /\ fed' = [fed EXCEPT ![r] = @ + 1]
        /\ UNCHANGED ends
  /\ UNCHANGED <<uncached, link, staging, stdin, shell, took, output, status>>

\* Mutant of MayClose: the pipe lives as long as the block that writes to it.
MayCloseLate(r) == fed[r] = Len(Items(r)) /\ SessionOver(r)

MayClose(r) == fed[r] = Len(Items(r))

CloseStdin(r) ==
  /\ pc[r] = "exchange" /\ stdin[r] = "open" /\ MayClose(r)
  /\ stdin' = [stdin EXCEPT ![r] = "closed"]
  /\ UNCHANGED <<uncached, ends, link, staging, fed, shell, took, output, status>>

EndOfInput(r) == stdin[r] = "closed" \/ HungUp(r)

Exits(r, how, code) ==
  /\ shell' = [shell EXCEPT ![r] = how]
  /\ status' = [status EXCEPT ![r] = code]

\* `build_cached_bash_script` and `build_remote_bash_script`, which takes the
\* binaries off its input first.
Exec(r) ==
  /\ shell[r] = "script"
  /\ r \in uncached => fed[r] >= Taken(r) \/ EndOfInput(r)
  /\ took' = [took EXCEPT ![r] =
       IF r \in uncached
         THEN [b \in Binaries |-> IF \E i \in 1 .. fed[r] : Items(r)[i] = b THEN "whole" ELSE "half"]
         ELSE [@ EXCEPT !["ctl"] = cache["ctl"]]]
  /\ IF took'[r]["ctl"] = "whole"
       THEN shell' = [shell EXCEPT ![r] = "controller"] /\ UNCHANGED status
       ELSE Exits(r, "exited", "nonzero")
  /\ UNCHANGED <<uncached, ends, link, staging, fed, stdin, output>>

\* What is left on the input is the payload, all of it and nothing else.
PayloadLeft(r) == /\ fed[r] = Taken(r) + 1
                  /\ Items(r)[fed[r]] = "payload"

\* `cmd_remote_run` up to the orchestrator: the payload to its end, then the
\* workspace, the playbook and the agent binary.
Load(r) ==
  /\ shell[r] = "controller" /\ EndOfInput(r)
  /\ IF ~PayloadLeft(r)
       THEN Exits(r, "garbled", "nonzero") /\ UNCHANGED took
       ELSE /\ took' = IF r \in uncached THEN took
                       ELSE [took EXCEPT ![r]["agent"] = cache["agent"]]
            /\ \/ /\ took'[r]["agent"] # "none"
                  /\ shell' = [shell EXCEPT ![r] = "running"]
                  /\ UNCHANGED status
               \/ Exits(r, "exited", "nonzero")
  /\ UNCHANGED <<uncached, ends, link, staging, fed, stdin, output>>

\* The laptop whose listener a connection to the run's socket reaches; the
\* socket stays for as long as the connection that carries it.
Reached(r) ==
  {o \in Runs : /\ SocketOf(o) = SocketOf(r) /\ listener[o] = "bound"
                /\ link[o] = "up" /\ shell[o] # "none"}

\* Mutant of Places: a local host is local to where the controller is.
PlacesHere(r, h) == IF h = "peer" THEN {"peer"} ELSE {"forwarder"}

\* The transport `run` picks for a host in forward mode.
Places(r, h) == CASE h = "peer" -> {"peer"}
                  [] h = "self" -> {"forwarder"}
                  [] h = "desk" -> Reached(r)

\* The orchestrator returns; its report goes out and the status says whether
\* a host has failed.  Or it returns an error.
Report(r) ==
  /\ shell[r] = "running"
  /\ \/ /\ \E code \in {"zero", "nonzero"} : Exits(r, "exited", code)
        /\ output' = [output EXCEPT ![r] = IF HungUp(r) THEN "none" ELSE "whole"]
     \/ Exits(r, "exited", "nonzero") /\ UNCHANGED output
  /\ UNCHANGED <<uncached, ends, link, staging, fed, stdin, took>>

\* Mutant of Believed: the exit status comes first.
BelievedOnZero(r) == output[r] = "whole" /\ status[r] = "zero"

\* The report is preferred to the exit status.
Believed(r) == output[r] = "whole"

\* Both ends of the exchange are through; ssh has exited.
Collect(r) ==
  /\ pc[r] = "exchange" /\ stdin[r] = "closed" /\ SessionOver(r)
  /\ IF Believed(r)
       THEN /\ pc' = [pc EXCEPT ![r] = "done"]
            /\ result' = [result EXCEPT ![r] = "report"]
            /\ ListenerEnds(r)
       ELSE Fails(r)
  /\ UNCHANGED <<uncached, link, staging, session>>

-----------------------------------------------------------------------------
(* What happens to a run *)

\* The connection is lost, with the part of the report under way.
Lose(r) ==
  /\ pc[r] \in {"staging", "joining", "dialing", "exchange"} /\ link[r] = "up" /\ MoreMishaps
  /\ link' = [link EXCEPT ![r] = "lost"]
  /\ \E o \in {output[r], IF output[r] = "whole" THEN "half" ELSE output[r]} :
       output' = [output EXCEPT ![r] = o]
  /\ UNCHANGED <<uncached, ends, staging, fed, stdin, shell, took, status>>

\* The operator interrupts, or the laptop goes down.
Interrupt(r) ==
  /\ ~Over(r) /\ MoreMishaps
  /\ pc' = [pc EXCEPT ![r] = "killed"]
  /\ result' = [result EXCEPT ![r] = "error"]
  /\ ListenerEnds(r)
  /\ UNCHANGED <<uncached, link, staging, session>>

\* The forwarder tidies /tmp.
Purge(b) ==
  /\ cache[b] # "none" /\ Cardinality(purged) < MaxPurges
  /\ cache' = [cache EXCEPT ![b] = "none"]
  /\ purged' = purged \cup {b}
  /\ UNCHANGED <<uncached, ends, link, push, script, tmp, cut, session>>

Laptop(r) == \/ Prepared(r) \/ BindTimesOut(r)
             \/ Probe(r) \/ Join(r) \/ Dial(r) \/ Feed(r) \/ CloseStdin(r) \/ Collect(r)
             \/ \E b \in Binaries : PushEnds(r, b)
Pushing(r, b) == \/ CatOpens(r, b) \/ CatReads(r, b) \/ CatEnds(r, b)
                 \/ Mv(r, b) \/ ScriptDies(r, b)
Remote(r) == Exec(r) \/ Load(r) \/ Report(r)

Next ==
  \/ \E r \in Runs : \/ Laptop(r) \/ Listen(r) \/ AcceptFails(r) \/ Remote(r)
                      \/ Lose(r) \/ Interrupt(r)
                      \/ \E b \in Binaries : Pushing(r, b)
  \/ \E b \in Binaries : Purge(b)

\* Programs go on, a play ends, and ssh notices in the end that its connection
\* is gone.
Fairness == \A r \in Runs : /\ WF_vars(Laptop(r)) /\ WF_vars(Remote(r))
                            /\ WF_vars(\E b \in Binaries : Pushing(r, b))

Spec == Init /\ [][Next]_vars /\ Fairness

-----------------------------------------------------------------------------
(* Properties *)

\* Past the bind the listener serves until it fails or the run is over.
Serves(r) == \/ pc[r] = "binding" \/ listener[r] = "failed"
             \/ listener[r] = IF Over(r) THEN "gone" ELSE "bound"

\* The types of both ends, and of the listener what its run has of it.
TypeOK ==
  /\ pc \in [Runs -> {"binding", "staging", "joining", "dialing", "exchange",
                      "done", "failed", "killed"}]
  /\ listener \in [Runs -> {"spawned", "bound", "failed", "gone"}]
  /\ link \in [Runs -> {"up", "lost"}]
  /\ push \in [Runs -> [Binaries -> {"none", "open", "sent", "ok", "failed"}]]
  /\ script \in [Runs -> [Binaries -> {"none", "cat", "mv", "done", "dead"}]]
  /\ tmp \in [Runs \X Binaries -> Files] /\ cache \in [Binaries -> Files]
  /\ stdin \in [Runs -> {"open", "closed"}]
  /\ shell \in [Runs -> {"none", "script", "controller", "running", "garbled", "exited"}]
  /\ took \in [Runs -> [Binaries -> Files \cup {"unread"}]]
  /\ output \in [Runs -> Files]
  /\ status \in [Runs -> {"none", "zero", "nonzero"}]
  /\ result \in [Runs -> {"none", "report", "error"}]
  /\ cut \subseteq Binaries /\ purged \subseteq Binaries
  /\ uncached \subseteq MayBring
  /\ \A r \in Runs : Serves(r)
  /\ \A r \in Runs : fed[r] \in 0 .. Len(Items(r))

\* Runs that push the same binary at once cannot half-write each other's
\* (forward_push.rs:29-32): a file cut short is in the cache, or was taken from
\* there, only if some push of it lost its other end.
TornOnlyCut ==
  \A b \in Binaries : b \notin cut =>
    cache[b] # "half" /\ \A r \in Runs \ uncached : took[r][b] # "half"

\* A main session that finds a binary missing finds it tidied away: what the
\* probe saw or the pushes made is there when the run counts on it.
StagedBeforeExec ==
  \A r \in Runs, b \in Binaries : took[r][b] = "none" => b \in purged

\* The remote controller finds exactly the payload behind what the script takes
\* off its input, unless the input was cut off.
StreamFits == \A r \in Runs : shell[r] = "garbled" => HungUp(r)

\* `connection: local` means the laptop that started the run and no other, however
\* many runs share the forwarder.  That laptop is out of reach for the controller
\* only if nobody waits for it any more, or if the listener has ended on an error of
\* `accept`: "accepts connections forever" (forward.rs:638-640) is true up to the first
\* of those (local_agent.rs:63-68), and the run does not notice.
PlacedRight ==
  \A r \in Runs : shell[r] = "running" =>
    /\ Places(r, "desk") \subseteq {r}
    /\ Places(r, "desk") = {} => HungUp(r) \/ listener[r] = "failed"

\* A run is over with the report of its controller exactly if that report has
\* come in whole, whatever the exit status says of it (forward.rs:839-843).
ReportTrue ==
  \A r \in Runs : pc[r] \in {"done", "failed"} => (result[r] = "report" <=> output[r] = "whole")

\* Every run ends; no side waits for the other to close first.
ForwardEnds == <>(\A r \in Runs : Over(r))

\* A controller that is at work runs and hands on whole binaries: one cut short gets
\* that far only as the agent of the cache, if a push of it has lost its other end.
RunsWhole ==
  \A r \in Runs : shell[r] = "running" =>
    \A b \in Binaries : took[r][b] = "whole" \/ (b = "agent" /\ b \in cut /\ r \notin uncached)

\* What a run takes from the forwarder is what some laptop sent in whole, but for
\* what a lost connection cut short or the forwarder tidied away.
StagingSafe == TypeOK /\ TornOnlyCut /\ StagedBeforeExec /\ StreamFits /\ RunsWhole

\* The laptop that started a run is the one it reaches, and hears from it what
\* happened.
RunTrue == PlacedRight /\ ReportTrue
=============================================================================
