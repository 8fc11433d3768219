---------------------------- MODULE Forward_proofs ----------------------------
(***************************************************************************)
(* Safety of forward mode for every set of laptops that share a forwarder,  *)
(* and any number of mishaps.                                               *)
(***************************************************************************)
EXTENDS Forward, TLAPS

\* The steps of the specification, one case each.
LEMMA NextCases ==
  ASSUME Next
  PROVE  \/ \E r \in Runs :
              \/ Prepared(r) \/ BindTimesOut(r) \/ Probe(r) \/ Join(r) \/ Dial(r)
              \/ Feed(r) \/ CloseStdin(r) \/ Collect(r) \/ Listen(r) \/ AcceptFails(r)
              \/ Exec(r) \/ Load(r) \/ Report(r) \/ Lose(r) \/ Interrupt(r)
         \/ \E r \in Runs, b \in Binaries :
              \/ PushEnds(r, b) \/ CatOpens(r, b) \/ CatReads(r, b) \/ CatEnds(r, b)
              \/ Mv(r, b) \/ ScriptDies(r, b)
         \/ \E b \in Binaries : Purge(b)
  BY DEF Next, Laptop, Remote, Pushing

-----------------------------------------------------------------------------
(* Types *)

\* An input that is complete is the payload behind what the script takes.
LEMMA CompleteFits ==
  ASSUME NEW r \in Runs, fed[r] = Len(Items(r))
  PROVE  PayloadLeft(r)
  BY DEF PayloadLeft, Taken, Items

\* A run has finitely many items to feed.
LEMMA ItemsLength == \A r \in Runs : Len(Items(r)) \in Nat
  BY DEF Items

\* The kind of a run is settled when it starts.
LEMMA KindSettled == [Next]_vars => uncached' = uncached /\ \A r \in Runs : Items(r)' = Items(r)
<1> SUFFICES ASSUME [Next]_vars PROVE uncached' = uncached
  BY DEF Items
<1>1. ASSUME NEW r \in Runs, Prepared(r) PROVE uncached' = uncached
  BY <1>1 DEF Prepared, Fails, SocketAwaited
<1>2. ASSUME NEW r \in Runs, BindTimesOut(r) PROVE uncached' = uncached
  BY <1>2 DEF BindTimesOut, Fails
<1>3. ASSUME NEW r \in Runs, Probe(r) PROVE uncached' = uncached
  BY <1>3 DEF Probe, Fails
<1>4. ASSUME NEW r \in Runs, Join(r) PROVE uncached' = uncached
  BY <1>4 DEF Join, Fails, AllStaged, Staged
<1>5. ASSUME NEW r \in Runs, Dial(r) PROVE uncached' = uncached
  BY <1>5 DEF Dial
<1>6. ASSUME NEW r \in Runs, Feed(r) PROVE uncached' = uncached
  BY <1>6 DEF Feed, Fails
<1>7. ASSUME NEW r \in Runs, CloseStdin(r) PROVE uncached' = uncached
  BY <1>7 DEF CloseStdin, MayClose
<1>8. ASSUME NEW r \in Runs, Collect(r) PROVE uncached' = uncached
  BY <1>8 DEF Collect, Fails, Believed
<1>9. ASSUME NEW r \in Runs, Listen(r) \/ AcceptFails(r) PROVE uncached' = uncached
  BY <1>9 DEF Listen, AcceptFails
<1>10. ASSUME NEW r \in Runs, Exec(r) PROVE uncached' = uncached
  BY <1>10 DEF Exec, Exits
<1>11. ASSUME NEW r \in Runs, Load(r) PROVE uncached' = uncached
  BY <1>11 DEF Load, Exits
<1>12. ASSUME NEW r \in Runs, Report(r) PROVE uncached' = uncached
  BY <1>12 DEF Report, Exits
<1>13. ASSUME NEW r \in Runs, Lose(r) PROVE uncached' = uncached
  BY <1>13 DEF Lose
<1>14. ASSUME NEW r \in Runs, Interrupt(r) PROVE uncached' = uncached
  BY <1>14 DEF Interrupt
<1>15. ASSUME NEW r \in Runs, NEW b \in Binaries, PushEnds(r, b) PROVE uncached' = uncached
  BY <1>15 DEF PushEnds
<1>16. ASSUME NEW r \in Runs, NEW b \in Binaries, CatOpens(r, b) PROVE uncached' = uncached
  BY <1>16 DEF CatOpens, SetScript, SetTmp, TmpName
<1>17. ASSUME NEW r \in Runs, NEW b \in Binaries, CatReads(r, b) PROVE uncached' = uncached
  BY <1>17 DEF CatReads, SetTmp, TmpName
<1>18. ASSUME NEW r \in Runs, NEW b \in Binaries, CatEnds(r, b) PROVE uncached' = uncached
  BY <1>18 DEF CatEnds, SetScript
<1>19. ASSUME NEW r \in Runs, NEW b \in Binaries, Mv(r, b) PROVE uncached' = uncached
  BY <1>19 DEF Mv, SetScript, SetTmp, TmpName
<1>20. ASSUME NEW r \in Runs, NEW b \in Binaries, ScriptDies(r, b) PROVE uncached' = uncached
  BY <1>20 DEF ScriptDies, SetScript
<1>21. ASSUME NEW b \in Binaries, Purge(b) PROVE uncached' = uncached
  BY <1>21 DEF Purge
<1>22. CASE UNCHANGED vars
  BY <1>22 DEF vars
<1> QED
  BY <1>1, <1>2, <1>3, <1>4, <1>5, <1>6, <1>7, <1>8, <1>9, <1>10, <1>11, <1>12, 
     <1>13, <1>14, <1>15, <1>16, <1>17, <1>18, <1>19, <1>20, <1>21, <1>22, 
     NextCases

\* What a main session finds is a file of the cache, or what its input was.
LEMMA TookByExec ==
  ASSUME TypeOK, NEW r \in Runs, Exec(r)
  PROVE  /\ took' \in [Runs -> [Binaries -> Files \cup {"unread"}]]
         /\ \A o \in Runs \ {r} : took'[o] = took[o]
         /\ r \notin uncached =>
              \A b \in Binaries : took'[r][b] = IF b = "ctl" THEN cache["ctl"] ELSE took[r][b]
<1> DEFINE fromInput == [b \in Binaries |->
                           IF \E i \in 1 .. fed[r] : Items(r)[i] = b THEN "whole" ELSE "half"]
           fromCache == [took[r] EXCEPT !["ctl"] = cache["ctl"]]
<1>1. fromInput \in [Binaries -> Files \cup {"unread"}]
  BY DEF Files
<1>2. fromCache \in [Binaries -> Files \cup {"unread"}]
  BY DEF TypeOK, Binaries
<1>3. \A b \in Binaries : fromCache[b] = IF b = "ctl" THEN cache["ctl"] ELSE took[r][b]
  BY DEF TypeOK
<1>4. took' = [took EXCEPT ![r] = IF r \in uncached THEN fromInput ELSE fromCache]
  BY DEF Exec
<1> HIDE DEF fromInput, fromCache
<1>5. took \in [Runs -> [Binaries -> Files \cup {"unread"}]]
  BY DEF TypeOK
<1> QED
  BY <1>1, <1>2, <1>3, <1>4, <1>5

\* The controller finds its agent in the cache, or had it from its input.
LEMMA TookByLoad ==
  ASSUME TypeOK, NEW r \in Runs, Load(r)
  PROVE  /\ took' \in [Runs -> [Binaries -> Files \cup {"unread"}]]
         /\ \A o \in Runs, b \in Binaries : took'[o][b] # took[o][b] =>
              o = r /\ o \notin uncached /\ b = "agent" /\ took'[o][b] = cache["agent"]
<1>1. took \in [Runs -> [Binaries -> Files \cup {"unread"}]] /\ cache["agent"] \in Files
  BY DEF TypeOK, Binaries
<1>2. took' = took \/ (r \notin uncached /\ took' = [took EXCEPT ![r]["agent"] = cache["agent"]])
  BY DEF Load
<1> QED
  BY <1>1, <1>2

RemoteTypes ==
  /\ shell \in [Runs -> {"none", "script", "controller", "running", "garbled", "exited"}]
  /\ status \in [Runs -> {"none", "zero", "nonzero"}]
  /\ output \in [Runs -> Files]

\* What runs on the forwarder keeps the types of its session.
LEMMA RemoteKeepsTypes ==
  ASSUME TypeOK, NEW r \in Runs, Exec(r) \/ Load(r) \/ Report(r)
  PROVE  RemoteTypes'
<1>0. RemoteTypes
  BY DEF TypeOK, RemoteTypes
<1>1. CASE Exec(r)
  <2>1. \E s \in {"controller", "exited"} : shell' = [shell EXCEPT ![r] = s]
    BY <1>1 DEF Exec, Exits
  <2>2. status' = status \/ status' = [status EXCEPT ![r] = "nonzero"]
    BY <1>1 DEF Exec, Exits
  <2>3. output' = output
    BY <1>1 DEF Exec
  <2> QED
    BY <1>0, <2>1, <2>2, <2>3 DEF RemoteTypes
<1>2. CASE Load(r)
  <2>1. \E s \in {"garbled", "running", "exited"} : shell' = [shell EXCEPT ![r] = s]
    BY <1>2 DEF Load, Exits
  <2>2. status' = status \/ status' = [status EXCEPT ![r] = "nonzero"]
    BY <1>2 DEF Load, Exits
  <2>3. output' = output
    BY <1>2 DEF Load
  <2> QED
    BY <1>0, <2>1, <2>2, <2>3 DEF RemoteTypes
<1>3. CASE Report(r)
  <2>1. shell' = [shell EXCEPT ![r] = "exited"]
    BY <1>3 DEF Report, Exits
  <2>2. \E code \in {"zero", "nonzero"} : status' = [status EXCEPT ![r] = code]
    BY <1>3 DEF Report, Exits
  <2>3. output' = output \/ \E o \in Files : output' = [output EXCEPT ![r] = o]
    BY <1>3 DEF Report, Files
  <2> QED
    BY <1>0, <2>1, <2>2, <2>3 DEF RemoteTypes
<1> QED
  BY <1>1, <1>2, <1>3

\* Every step keeps the listener of a run where its run is.
LEMMA ServesStep ==
  ASSUME TypeOK, [Next]_vars, NEW q \in Runs
  PROVE  Serves(q)'
<1>0. /\ pc \in [Runs -> {"binding", "staging", "joining", "dialing", "exchange",
                          "done", "failed", "killed"}]
      /\ listener \in [Runs -> {"spawned", "bound", "failed", "gone"}] /\ Serves(q)
  BY DEF TypeOK
<1> USE <1>0 DEF Serves, Over, ListenerEnds
<1>1. ASSUME NEW r \in Runs, Prepared(r) \/ BindTimesOut(r) PROVE Serves(q)'
  BY <1>1 DEF Prepared, BindTimesOut, SocketAwaited, Fails
<1>2. ASSUME NEW r \in Runs, Probe(r) \/ Join(r) \/ Dial(r) PROVE Serves(q)'
  BY <1>2 DEF Probe, Join, Dial, Fails
<1>3. ASSUME NEW r \in Runs, Feed(r) \/ Collect(r) \/ Interrupt(r) PROVE Serves(q)'
  BY <1>3 DEF Feed, Collect, Interrupt, Fails, ends
<1>4. ASSUME NEW r \in Runs, Listen(r) \/ AcceptFails(r) PROVE Serves(q)'
  BY <1>4 DEF Listen, AcceptFails
<1>5. CASE UNCHANGED ends
  BY <1>5 DEF ends
<1>6. ASSUME NEW r \in Runs,
             \/ CloseStdin(r) \/ Exec(r) \/ Load(r) \/ Report(r) \/ Lose(r)
             \/ \E b \in Binaries : \/ PushEnds(r, b) \/ CatOpens(r, b) \/ CatReads(r, b)
                                   \/ CatEnds(r, b) \/ Mv(r, b) \/ ScriptDies(r, b)
      PROVE  Serves(q)'
  BY <1>5, <1>6 DEF CloseStdin, Exec, Load, Report, Lose, PushEnds, CatOpens, CatReads, CatEnds,
     Mv, ScriptDies
<1>7. ASSUME NEW b \in Binaries, Purge(b) PROVE Serves(q)'
  BY <1>5, <1>7 DEF Purge
<1>8. CASE UNCHANGED vars
  BY <1>5, <1>8 DEF vars
<1> QED
  BY <1>1, <1>2, <1>3, <1>4, <1>6, <1>7, <1>8, NextCases

\* Every step keeps the types, and the listener's state what the run's is.
LEMMA Typing == TypeOK /\ [Next]_vars => TypeOK'
<1> SUFFICES ASSUME TypeOK, [Next]_vars PROVE TypeOK'
  OBVIOUS
<1>0. \A r \in Runs : Serves(r)'
  BY ServesStep
<1> USE <1>0, ItemsLength, KindSettled DEF TypeOK, ListenerEnds, Files, ends, staging, session
<1>1. ASSUME NEW r \in Runs, Prepared(r) PROVE TypeOK'
  <2>1. CASE Fails(r)
    BY <1>1, <2>1 DEF Prepared, SocketAwaited, Fails
  <2>2. CASE /\ pc' = [pc EXCEPT ![r] = IF r \in uncached THEN "dialing" ELSE "staging"]
               /\ UNCHANGED <<result, listener>>
    BY <1>1, <2>2 DEF Prepared, SocketAwaited
  <2> QED
    BY <1>1, <2>1, <2>2 DEF Prepared, SocketAwaited
<1>2. ASSUME NEW r \in Runs, BindTimesOut(r) PROVE TypeOK'
  BY <1>2 DEF BindTimesOut, Fails
<1>3. ASSUME NEW r \in Runs, Probe(r) PROVE TypeOK'
  <2>1. CASE Fails(r)
    BY <1>3, <2>1 DEF Probe, Fails
  <2>2. CASE /\ pc' = [pc EXCEPT ![r] = "joining"]
               /\ push' = [push EXCEPT ![r] = [b \in Binaries |->
                                                  IF b \in Cached THEN "none" ELSE "open"]]
               /\ UNCHANGED <<result, listener>>
    BY <1>3, <2>2 DEF Probe
  <2> QED
    BY <1>3, <2>1, <2>2 DEF Probe
<1>4. ASSUME NEW r \in Runs, Join(r) PROVE TypeOK'
  <2>1. CASE Fails(r)
    BY <1>4, <2>1 DEF Join, Fails
  <2>2. CASE /\ AllStaged(r)
               /\ pc' = [pc EXCEPT ![r] = "dialing"] /\ UNCHANGED <<result, listener>>
    BY <1>4, <2>2 DEF Join
  <2> QED
    BY <1>4, <2>1, <2>2 DEF Join
<1>5. ASSUME NEW r \in Runs, Dial(r) PROVE TypeOK'
  BY <1>5 DEF Dial
<1>6. ASSUME NEW r \in Runs, Feed(r) PROVE TypeOK'
  <2>1. CASE Fails(r) /\ UNCHANGED fed
    BY <1>6, <2>1 DEF Feed, Fails
  <2>2. CASE fed' = [fed EXCEPT ![r] = @ + 1] /\ UNCHANGED ends
    BY <1>6, <2>2 DEF Feed
  <2>3. \/ Fails(r) /\ UNCHANGED fed
        \/ fed' = [fed EXCEPT ![r] = @ + 1] /\ UNCHANGED ends
    <3> HIDE DEF TypeOK, ends
    <3> QED
      BY <1>6 DEF Feed
  <2> QED
    BY <2>1, <2>2, <2>3
<1>7. ASSUME NEW r \in Runs, CloseStdin(r) PROVE TypeOK'
  BY <1>7 DEF CloseStdin, MayClose
<1>8. ASSUME NEW r \in Runs, Collect(r) PROVE TypeOK'
  <2>1. CASE Fails(r)
    BY <1>8, <2>1 DEF Collect, Fails
  <2>2. CASE /\ pc' = [pc EXCEPT ![r] = "done"]
               /\ result' = [result EXCEPT ![r] = "report"]
               /\ ListenerEnds(r)
    BY <1>8, <2>2 DEF Collect
  <2> QED
    BY <1>8, <2>1, <2>2 DEF Collect
<1>9. ASSUME NEW r \in Runs, Listen(r) \/ AcceptFails(r) PROVE TypeOK'
  <2>1. CASE Listen(r)
    BY <2>1 DEF Listen
  <2>2. CASE AcceptFails(r)
    BY <2>2 DEF AcceptFails
  <2> QED
    BY <1>9, <2>1, <2>2
<1>10. ASSUME NEW r \in Runs, Exec(r) PROVE TypeOK'
  <2>1. took' \in [Runs -> [Binaries -> Files \cup {"unread"}]]
    BY <1>10, TookByExec
  <2>2. RemoteTypes'
    BY <1>10, RemoteKeepsTypes
  <2>3. UNCHANGED <<uncached, ends, link, staging, fed, stdin, output>>
    BY <1>10 DEF Exec
  <2> QED
    BY <2>1, <2>2, <2>3 DEF RemoteTypes
<1>11. ASSUME NEW r \in Runs, Load(r) PROVE TypeOK'
  <2>1. took' \in [Runs -> [Binaries -> Files \cup {"unread"}]]
    BY <1>11, TookByLoad
  <2>2. RemoteTypes'
    BY <1>11, RemoteKeepsTypes
  <2>3. UNCHANGED <<uncached, ends, link, staging, fed, stdin, output>>
    BY <1>11 DEF Load
  <2> QED
    BY <2>1, <2>2, <2>3 DEF RemoteTypes
<1>12. ASSUME NEW r \in Runs, Report(r) PROVE TypeOK'
  <2>1. RemoteTypes'
    BY <1>12, RemoteKeepsTypes
  <2>2. UNCHANGED <<uncached, ends, link, staging, fed, stdin, took>>
    BY <1>12 DEF Report
  <2> QED
    BY <2>1, <2>2 DEF RemoteTypes
<1>13. ASSUME NEW r \in Runs, Lose(r) PROVE TypeOK'
  <2>1. \E o \in Files : output' = [output EXCEPT ![r] = o]
    BY <1>13 DEF Lose
  <2> QED
    BY <1>13, <2>1 DEF Lose
<1>14. ASSUME NEW r \in Runs, Interrupt(r) PROVE TypeOK'
  BY <1>14 DEF Interrupt
<1>15. ASSUME NEW r \in Runs, NEW b \in Binaries, PushEnds(r, b) PROVE TypeOK'
  <2>1. \E f \in {"ok", "failed"} : push' = [push EXCEPT ![r][b] = f]
    BY <1>15 DEF PushEnds
  <2> QED
    BY <1>15, <2>1 DEF PushEnds
<1>16. ASSUME NEW r \in Runs, NEW b \in Binaries, CatOpens(r, b) PROVE TypeOK'
  BY <1>16 DEF CatOpens, SetScript, SetTmp, TmpName
<1>17. ASSUME NEW r \in Runs, NEW b \in Binaries, CatReads(r, b) PROVE TypeOK'
  BY <1>17 DEF CatReads, SetTmp, TmpName
<1>18. ASSUME NEW r \in Runs, NEW b \in Binaries, CatEnds(r, b) PROVE TypeOK'
  BY <1>18 DEF CatEnds, SetScript
<1>19. ASSUME NEW r \in Runs, NEW b \in Binaries, Mv(r, b) PROVE TypeOK'
  BY <1>19 DEF Mv, SetScript, SetTmp, TmpName
<1>20. ASSUME NEW r \in Runs, NEW b \in Binaries, ScriptDies(r, b) PROVE TypeOK'
  BY <1>20 DEF ScriptDies, SetScript
<1>21. ASSUME NEW b \in Binaries, Purge(b) PROVE TypeOK'
  BY <1>21 DEF Purge
<1>22. CASE UNCHANGED vars
  BY <1>22 DEF vars
<1> QED
  BY <1>1, <1>2, <1>3, <1>4, <1>5, <1>6, <1>7, <1>8, <1>9, <1>10, <1>11, <1>12, 
     <1>13, <1>14, <1>15, <1>16, <1>17, <1>18, <1>19, <1>20, <1>21, <1>22, 
     NextCases
-----------------------------------------------------------------------------
(* What belongs together *)

\* A staging step is no business of the sessions.
LEMMA StagingApart ==
  \A b \in Binaries :
    \/ Purge(b)
    \/ \E r \in Runs : \/ PushEnds(r, b) \/ CatOpens(r, b) \/ CatReads(r, b) \/ CatEnds(r, b)
                       \/ Mv(r, b) \/ ScriptDies(r, b)
    => UNCHANGED <<uncached, ends, link, session>>
<1>1. ASSUME NEW r \in Runs, NEW b \in Binaries, PushEnds(r, b)
      PROVE  UNCHANGED <<uncached, ends, link, session>>
  BY <1>1 DEF PushEnds
<1>2. ASSUME NEW r \in Runs, NEW b \in Binaries, CatOpens(r, b)
      PROVE  UNCHANGED <<uncached, ends, link, session>>
  BY <1>2 DEF CatOpens
<1>3. ASSUME NEW r \in Runs, NEW b \in Binaries, CatReads(r, b)
      PROVE  UNCHANGED <<uncached, ends, link, session>>
  BY <1>3 DEF CatReads
<1>4. ASSUME NEW r \in Runs, NEW b \in Binaries, CatEnds(r, b)
      PROVE  UNCHANGED <<uncached, ends, link, session>>
  BY <1>4 DEF CatEnds
<1>5. ASSUME NEW r \in Runs, NEW b \in Binaries, Mv(r, b)
      PROVE  UNCHANGED <<uncached, ends, link, session>>
  BY <1>5 DEF Mv
<1>6. ASSUME NEW r \in Runs, NEW b \in Binaries, ScriptDies(r, b)
      PROVE  UNCHANGED <<uncached, ends, link, session>>
  BY <1>6 DEF ScriptDies
<1>7. ASSUME NEW b \in Binaries, Purge(b)
      PROVE  UNCHANGED <<uncached, ends, link, session>>
  BY <1>7 DEF Purge
<1> QED
  BY <1>1, <1>2, <1>3, <1>4, <1>5, <1>6, <1>7

-----------------------------------------------------------------------------
(* Sessions *)

\* What ties a run's end to its session: the session is there only once the run
\* waits for it; the input is closed behind its last item; the controller starts
\* at the end of its input; a whole report is the last word of a session that was
\* fed to the end; and the run's own verdict goes by that report.
SessionOf(r) ==
  /\ shell[r] # "none" => pc[r] \in {"exchange", "done", "failed", "killed"}
  /\ stdin[r] = "closed" => /\ fed[r] = Len(Items(r))
                            /\ pc[r] \in {"exchange", "done", "failed", "killed"}
  /\ shell[r] = "running" => EndOfInput(r)
  /\ shell[r] = "garbled" => HungUp(r)
  /\ output[r] = "whole" => stdin[r] = "closed" /\ shell[r] = "exited"
  /\ pc[r] = "done" => result[r] = "report" /\ output[r] = "whole"
  /\ pc[r] = "failed" => result[r] = "error" /\ output[r] # "whole"

Sessions == TypeOK /\ \A r \in Runs : SessionOf(r)

\* Every step keeps the ends of a run and its session together.
LEMMA SessionStep == Sessions /\ [Next]_vars => Sessions'
<1> SUFFICES ASSUME Sessions, [Next]_vars, NEW q \in Runs PROVE SessionOf(q)'
  BY Typing DEF Sessions
<1>0. TypeOK /\ TypeOK' /\ SessionOf(q) /\ Len(Items(q)) \in Nat /\ Items(q)' = Items(q)
  BY Typing, KindSettled, ItemsLength DEF Sessions
<1> USE DEF SessionOf, EndOfInput, HungUp, Over, TypeOK, ends, session
<1>1. ASSUME NEW r \in Runs, Prepared(r) PROVE SessionOf(q)'
  BY <1>0, <1>1 DEF Prepared, SocketAwaited, Fails
<1>2. ASSUME NEW r \in Runs, BindTimesOut(r) PROVE SessionOf(q)'
  BY <1>0, <1>2 DEF BindTimesOut, Fails
<1>3. ASSUME NEW r \in Runs, Probe(r) PROVE SessionOf(q)'
  BY <1>0, <1>3 DEF Probe, Fails
<1>4. ASSUME NEW r \in Runs, Join(r) PROVE SessionOf(q)'
  BY <1>0, <1>4 DEF Join, Fails
<1>5. ASSUME NEW r \in Runs, Dial(r) PROVE SessionOf(q)'
  BY <1>0, <1>5 DEF Dial
<1>6. ASSUME NEW r \in Runs, Feed(r) PROVE SessionOf(q)'
  <2>1. /\ pc[r] = "exchange" /\ fed[r] < Len(Items(r))
        /\ UNCHANGED <<link, stdin, shell, took, output, status>>
    BY <1>6 DEF Feed
  <2>2. CASE Fails(r) /\ UNCHANGED fed
    BY <1>0, <2>1, <2>2 DEF Fails
  <2>3. CASE fed' = [fed EXCEPT ![r] = @ + 1] /\ UNCHANGED ends
    BY <1>0, <2>1, <2>3
  <2>4. \/ Fails(r) /\ UNCHANGED fed
        \/ fed' = [fed EXCEPT ![r] = @ + 1] /\ UNCHANGED ends
    <3> HIDE DEF ends
    <3> QED
      BY <1>6 DEF Feed
  <2> QED
    BY <2>2, <2>3, <2>4
<1>7. ASSUME NEW r \in Runs, CloseStdin(r) PROVE SessionOf(q)'
  BY <1>0, <1>7 DEF CloseStdin, MayClose
<1>8. ASSUME NEW r \in Runs, Collect(r) PROVE SessionOf(q)'
  BY <1>0, <1>8 DEF Collect, Fails, Believed, SessionOver
<1>9. ASSUME NEW r \in Runs, Listen(r) \/ AcceptFails(r) PROVE SessionOf(q)'
  BY <1>0, <1>9 DEF Listen, AcceptFails
<1>10. ASSUME NEW r \in Runs, Exec(r) PROVE SessionOf(q)'
  BY <1>0, <1>10 DEF Exec, Exits
<1>11. ASSUME NEW r \in Runs, Load(r) PROVE SessionOf(q)'
  BY <1>0, <1>11, CompleteFits DEF Load, Exits
<1>12. ASSUME NEW r \in Runs, Report(r) PROVE SessionOf(q)'
  BY <1>0, <1>12 DEF Report, Exits
<1>13. ASSUME NEW r \in Runs, Lose(r) PROVE SessionOf(q)'
  BY <1>0, <1>13 DEF Lose
<1>14. ASSUME NEW r \in Runs, Interrupt(r) PROVE SessionOf(q)'
  BY <1>0, <1>14 DEF Interrupt
<1>15. CASE UNCHANGED <<uncached, ends, link, session>>
  BY <1>0, <1>15
<1>16. CASE UNCHANGED vars
  BY <1>15, <1>16 DEF vars
<1> QED
  BY <1>1, <1>2, <1>3, <1>4, <1>5, <1>6, <1>7, <1>8, <1>9, <1>10, <1>11, <1>12, <1>13,
     <1>14, <1>15, <1>16, NextCases, StagingApart

\* No run has a session to start with.
LEMMA SessionInit == Init => Sessions
<1> SUFFICES ASSUME Init PROVE Sessions
  OBVIOUS
<1> USE DEF Init
<1>1. TypeOK
  BY ItemsLength, ForwardAssumption DEF TypeOK, Serves, Files
<1>2. \A r \in Runs : SessionOf(r)
  BY DEF SessionOf
<1> QED
  BY <1>1, <1>2 DEF Sessions

\* The ends of a run and its session stay together.
LEMMA SessionsHold == Spec => []Sessions
<1>1. Sessions /\ UNCHANGED vars => Sessions'
  BY SessionStep
<1> QED
  BY SessionInit, SessionStep, PTL DEF Spec

\* Types, and the listener's state what the run's is.
THEOREM ForwardTypes == Spec => []TypeOK
<1>1. Sessions => TypeOK
  BY DEF Sessions
<1> QED
  BY <1>1, SessionsHold, PTL

\* A run's verdict is the report of its controller exactly if that has come in
\* whole (forward.rs:839-843).
THEOREM VerdictIsReport == Spec => []ReportTrue
<1>1. Sessions => ReportTrue
  BY DEF Sessions, SessionOf, ReportTrue
<1> QED
  BY <1>1, SessionsHold, PTL

\* The remote controller never finds anything but the payload on an input that
\* was not cut off, whichever script fed it.
THEOREM InputFits == Spec => []StreamFits
<1>1. Sessions => StreamFits
  BY DEF Sessions, SessionOf, StreamFits
<1> QED
  BY <1>1, SessionsHold, PTL

\* `connection: local` means the laptop of the run itself, however many share the
\* forwarder, and it can be reached for as long as that laptop waits and its listener
\* accepts connections.
THEOREM LocalIsTheLaptop == Spec => []PlacedRight
<1>1. Sessions => PlacedRight
  <2> SUFFICES ASSUME Sessions, NEW r \in Runs, shell[r] = "running"
               PROVE  /\ Places(r, "desk") \subseteq {r}
                      /\ Places(r, "desk") = {} => HungUp(r) \/ listener[r] = "failed"
    BY DEF PlacedRight
  <2>1. Places(r, "desk") \subseteq {r}
    BY DEF Places, Reached, SocketOf
  <2>2. ASSUME ~HungUp(r), listener[r] # "failed" PROVE r \in Reached(r)
    <3>1. pc[r] = "exchange"
      BY <2>2 DEF Sessions, SessionOf, HungUp, Over
    <3>2. listener[r] = "bound" /\ link[r] = "up"
      BY <2>2, <3>1 DEF Sessions, TypeOK, Serves, HungUp, Over
    <3> QED
      BY <3>2 DEF Reached
  <2> QED
    BY <2>1, <2>2 DEF Places
<1> QED
  BY <1>1, SessionsHold, PTL

-----------------------------------------------------------------------------
(* The cache *)

\* Once seen by the probe, or put there by a push, a binary is there or was
\* tidied away.
Standing(b) == cache[b] # "none" \/ b \in purged

\* What a run counts on at each of its stages.
CountedOn(r, b) ==
  /\ script[r][b] = "done" \/ push[r][b] = "ok" => Standing(b)
  /\ pc[r] = "joining" /\ push[r][b] = "none" => Standing(b)
  /\ r \notin uncached /\ (pc[r] = "dialing" \/ pc[r] = "exchange" \/ shell[r] # "none")
       => Standing(b)
  /\ took[r][b] = "none" => b \in purged

\* What every run counts on stands.
Stood == \A r \in Runs, b \in Binaries : CountedOn(r, b)

\* Every step keeps standing what a run counts on.
LEMMA StoodStep == Sessions /\ Stood /\ [Next]_vars => Stood'
<1> SUFFICES ASSUME Sessions, Stood, [Next]_vars,
                    NEW q \in Runs, NEW c \in Binaries
             PROVE  CountedOn(q, c)'
  BY DEF Stood
<1>0. TypeOK /\ TypeOK' /\ CountedOn(q, c) /\ uncached' = uncached
  BY Typing, KindSettled DEF Sessions, Stood
<1> USE DEF CountedOn, Standing, TypeOK, ends, staging, session
<1>1. ASSUME NEW r \in Runs, Prepared(r) PROVE CountedOn(q, c)'
  BY <1>0, <1>1 DEF Prepared, SocketAwaited, Fails
<1>2. ASSUME NEW r \in Runs, BindTimesOut(r) PROVE CountedOn(q, c)'
  BY <1>0, <1>2 DEF BindTimesOut, Fails
<1>3. ASSUME NEW r \in Runs, Probe(r) PROVE CountedOn(q, c)'
  BY <1>0, <1>3 DEF Probe, Fails, Cached
<1>4. ASSUME NEW r \in Runs, Join(r) PROVE CountedOn(q, c)'
  BY <1>0, <1>4 DEF Join, Fails, AllStaged, Staged
<1>5. ASSUME NEW r \in Runs, Dial(r) PROVE CountedOn(q, c)'
  BY <1>0, <1>5 DEF Dial
<1>6. ASSUME NEW r \in Runs, Feed(r) PROVE CountedOn(q, c)'
  BY <1>0, <1>6 DEF Feed, Fails
<1>7. ASSUME NEW r \in Runs, CloseStdin(r) PROVE CountedOn(q, c)'
  BY <1>0, <1>7 DEF CloseStdin
<1>8. ASSUME NEW r \in Runs, Collect(r) PROVE CountedOn(q, c)'
  BY <1>0, <1>8 DEF Collect, Fails
<1>9. ASSUME NEW r \in Runs, Listen(r) \/ AcceptFails(r) PROVE CountedOn(q, c)'
  BY <1>0, <1>9 DEF Listen, AcceptFails
<1>10. ASSUME NEW r \in Runs, Exec(r) PROVE CountedOn(q, c)'
  BY <1>0, <1>10, TookByExec DEF Exec, Exits
<1>11. ASSUME NEW r \in Runs, Load(r) PROVE CountedOn(q, c)'
  BY <1>0, <1>11, TookByLoad DEF Load, Exits
<1>12. ASSUME NEW r \in Runs, Report(r) PROVE CountedOn(q, c)'
  BY <1>0, <1>12 DEF Report, Exits
<1>13. ASSUME NEW r \in Runs, Lose(r) PROVE CountedOn(q, c)'
  BY <1>0, <1>13 DEF Lose
<1>14. ASSUME NEW r \in Runs, Interrupt(r) PROVE CountedOn(q, c)'
  BY <1>0, <1>14 DEF Interrupt
<1>15. ASSUME NEW r \in Runs, NEW b \in Binaries, PushEnds(r, b) PROVE CountedOn(q, c)'
  <2>1. \/ push' = [push EXCEPT ![r][b] = "failed"]
        \/ script[r][b] = "done" /\ push' = [push EXCEPT ![r][b] = "ok"]
    BY <1>15 DEF PushEnds
  <2>2. UNCHANGED <<uncached, pc, shell, took, script, cache, purged>> /\ push[r][b] # "none"
    BY <1>15 DEF PushEnds
  <2> QED
    BY <1>0, <2>1, <2>2
<1>16. ASSUME NEW r \in Runs, NEW b \in Binaries, CatOpens(r, b) PROVE CountedOn(q, c)'
  BY <1>0, <1>16 DEF CatOpens, SetScript, SetTmp, TmpName
<1>17. ASSUME NEW r \in Runs, NEW b \in Binaries, CatReads(r, b) PROVE CountedOn(q, c)'
  BY <1>0, <1>17 DEF CatReads, SetTmp, TmpName
<1>18. ASSUME NEW r \in Runs, NEW b \in Binaries, CatEnds(r, b) PROVE CountedOn(q, c)'
  BY <1>0, <1>18 DEF CatEnds, SetScript
<1>19. ASSUME NEW r \in Runs, NEW b \in Binaries, Mv(r, b) PROVE CountedOn(q, c)'
  BY <1>0, <1>19 DEF Mv, SetScript, SetTmp, TmpName
<1>20. ASSUME NEW r \in Runs, NEW b \in Binaries, ScriptDies(r, b) PROVE CountedOn(q, c)'
  BY <1>0, <1>20 DEF ScriptDies, SetScript
<1>21. ASSUME NEW b \in Binaries, Purge(b) PROVE CountedOn(q, c)'
  BY <1>0, <1>21 DEF Purge
<1>22. CASE UNCHANGED vars
  BY <1>0, <1>22 DEF vars
<1> QED
  BY <1>1, <1>2, <1>3, <1>4, <1>5, <1>6, <1>7, <1>8, <1>9, <1>10, <1>11, <1>12, <1>13,
     <1>14, <1>15, <1>16, <1>17, <1>18, <1>19, <1>20, <1>21, <1>22, NextCases

\* A main session that finds a binary missing finds it tidied away.
THEOREM StagedIsThere == Spec => []StagedBeforeExec
<1>1. Init => Stood
  BY DEF Init, Stood, CountedOn, Standing
<1>2. Stood => StagedBeforeExec
  BY DEF Stood, CountedOn, StagedBeforeExec
<1> QED
  BY <1>1, <1>2, StoodStep, SessionsHold, PTL DEF Spec

\* No push of the binary `b` lost its other end: what is in its temporary files
\* behind a push that was sent, in the cache and in the hands of a main session
\* is all of it.
Untorn(r, b) ==
  b \notin cut =>
    /\ r \notin uncached => took[r][b] # "half"
    /\ script[r][b] = "mv" => tmp[<<r, b>>] = "whole"
    /\ script[r][b] = "cat" /\ push[r][b] = "sent" => tmp[<<r, b>>] = "whole"

\* The binary `b` is whole wherever it is, unless a push of it was cut short.
Fine(b) == /\ b \in cut \/ cache[b] # "half"
           /\ \A r \in Runs : Untorn(r, b)

\* Nothing is torn but by a push cut short.
AllUntorn == \A b \in Binaries : Fine(b)

\* Where the pushes stand after a probe: none of them is done by it.
LEMMA ProbeSendsNothing ==
  ASSUME NEW r \in Runs, NEW c \in Binaries, NEW o \in Runs, TypeOK, push'[o][c] = "sent",
         \/ UNCHANGED push
         \/ push' = [push EXCEPT ![r] = [b \in Binaries |-> IF b \in Cached THEN "none" ELSE "open"]]
  PROVE  push[o][c] = "sent"
<1> DEFINE probed == [b \in Binaries |-> IF b \in Cached THEN "none" ELSE "open"]
<1>1. probed[c] # "sent"
  OBVIOUS
<1>2. push \in [Runs -> [Binaries -> {"none", "open", "sent", "ok", "failed"}]]
  BY DEF TypeOK, staging
<1>3. CASE UNCHANGED push
  BY <1>3
<1>4. CASE push' = [push EXCEPT ![r] = probed]
  <2> HIDE DEF probed
  <2>1. push'[o] = IF o = r THEN probed ELSE push[o]
    BY <1>2, <1>4
  <2> QED
    BY <1>1, <2>1
<1> QED
  BY <1>3, <1>4

\* Every step keeps untorn what was not cut short.
LEMMA UntornStep == TypeOK /\ AllUntorn /\ [Next]_vars => AllUntorn'
<1> SUFFICES ASSUME TypeOK, AllUntorn, [Next]_vars, NEW c \in Binaries
             PROVE  Fine(c)'
  BY DEF AllUntorn, Fine
<1>0. TypeOK /\ TypeOK' /\ Fine(c) /\ uncached' = uncached
  BY Typing, KindSettled DEF AllUntorn, Fine
<1> USE DEF Fine, Untorn, TypeOK, ends, staging, session
<1>1. ASSUME NEW r \in Runs, Prepared(r) PROVE Fine(c)'
  BY <1>0, <1>1 DEF Prepared, SocketAwaited, Fails
<1>2. ASSUME NEW r \in Runs, BindTimesOut(r) PROVE Fine(c)'
  BY <1>0, <1>2 DEF BindTimesOut, Fails
<1>3. ASSUME NEW r \in Runs, Probe(r) PROVE Fine(c)'
  <2>1. UNCHANGED <<uncached, link, script, tmp, cache, cut, purged, session>>
    BY <1>3 DEF Probe
  <2>2. \/ UNCHANGED push
        \/ push' = [push EXCEPT ![r] = [b \in Binaries |-> IF b \in Cached THEN "none" ELSE "open"]]
    BY <1>3 DEF Probe
  <2>3. ASSUME NEW o \in Runs, push'[o][c] = "sent" PROVE push[o][c] = "sent"
    <3>1. push \in [Runs -> [Binaries -> {"none", "open", "sent", "ok", "failed"}]]
      BY <1>0
    <3> HIDE DEF TypeOK, Fine, Untorn
    <3> QED
      BY <2>2, <2>3, <3>1, ProbeSendsNothing
  <2> QED
    BY <1>0, <2>1, <2>3
<1>4. ASSUME NEW r \in Runs, Join(r) PROVE Fine(c)'
  BY <1>0, <1>4 DEF Join, Fails, AllStaged, Staged
<1>5. ASSUME NEW r \in Runs, Dial(r) PROVE Fine(c)'
  BY <1>0, <1>5 DEF Dial
<1>6. ASSUME NEW r \in Runs, Feed(r) PROVE Fine(c)'
  BY <1>0, <1>6 DEF Feed, Fails
<1>7. ASSUME NEW r \in Runs, CloseStdin(r) PROVE Fine(c)'
  BY <1>0, <1>7 DEF CloseStdin
<1>8. ASSUME NEW r \in Runs, Collect(r) PROVE Fine(c)'
  BY <1>0, <1>8 DEF Collect, Fails
<1>9. ASSUME NEW r \in Runs, Listen(r) \/ AcceptFails(r) PROVE Fine(c)'
  BY <1>0, <1>9 DEF Listen, AcceptFails
<1>10. ASSUME NEW r \in Runs, Exec(r) PROVE Fine(c)'
  BY <1>0, <1>10, TookByExec DEF Exec, Exits
<1>11. ASSUME NEW r \in Runs, Load(r) PROVE Fine(c)'
  <2>1. UNCHANGED <<uncached, staging>>
    BY <1>11 DEF Load
  <2> QED
    <3>1. \A o \in Runs : took'[o][c] # took[o][c] => took'[o][c] = cache[c]
      BY <1>11, TookByLoad
    <3> QED
      BY <1>0, <2>1, <3>1
<1>12. ASSUME NEW r \in Runs, Report(r) PROVE Fine(c)'
  BY <1>0, <1>12 DEF Report, Exits
<1>13. ASSUME NEW r \in Runs, Lose(r) PROVE Fine(c)'
  BY <1>0, <1>13 DEF Lose
<1>14. ASSUME NEW r \in Runs, Interrupt(r) PROVE Fine(c)'
  BY <1>0, <1>14 DEF Interrupt
<1>15. ASSUME NEW r \in Runs, NEW b \in Binaries, PushEnds(r, b) PROVE Fine(c)'
  <2>1. /\ UNCHANGED <<uncached, link, script, tmp, cache, cut, purged, session>>
        /\ \E f \in {"ok", "failed"} : push' = [push EXCEPT ![r][b] = f]
    BY <1>15 DEF PushEnds
  <2> QED
    BY <1>0, <2>1
<1>16. ASSUME NEW r \in Runs, NEW b \in Binaries, CatOpens(r, b) PROVE Fine(c)'
  BY <1>0, <1>16 DEF CatOpens, SetScript, SetTmp, TmpName
<1>17. ASSUME NEW r \in Runs, NEW b \in Binaries, CatReads(r, b) PROVE Fine(c)'
  BY <1>0, <1>17 DEF CatReads, SetTmp, TmpName
<1>18. ASSUME NEW r \in Runs, NEW b \in Binaries, CatEnds(r, b) PROVE Fine(c)'
  BY <1>0, <1>18 DEF CatEnds, SetScript
<1>19. ASSUME NEW r \in Runs, NEW b \in Binaries, Mv(r, b) PROVE Fine(c)'
  BY <1>0, <1>19 DEF Mv, SetScript, SetTmp, TmpName
<1>20. ASSUME NEW r \in Runs, NEW b \in Binaries, ScriptDies(r, b) PROVE Fine(c)'
  BY <1>0, <1>20 DEF ScriptDies, SetScript
<1>21. ASSUME NEW b \in Binaries, Purge(b) PROVE Fine(c)'
  BY <1>0, <1>21 DEF Purge
<1>22. CASE UNCHANGED vars
  BY <1>0, <1>22 DEF vars
<1> QED
  BY <1>1, <1>2, <1>3, <1>4, <1>5, <1>6, <1>7, <1>8, <1>9, <1>10, <1>11, <1>12, <1>13,
     <1>14, <1>15, <1>16, <1>17, <1>18, <1>19, <1>20, <1>21, <1>22, NextCases

\* Runs that push the same binary at once cannot half-write each other's
\* (forward_push.rs:29-32): a torn file under a hash is a push that was cut short.
THEOREM PushesApart == Spec => []TornOnlyCut
<1>1. Init => AllUntorn
  BY DEF Init, AllUntorn, Fine, Untorn
<1>2. TypeOK /\ AllUntorn => TornOnlyCut
  BY DEF AllUntorn, Fine, Untorn, TornOnlyCut
<1> QED
  BY <1>1, <1>2, UntornStep, ForwardTypes, PTL DEF Spec

\* What a controller that is under way took: its own binary whole, and the agent's
\* too if it came in on the input; an input that ended before it had come stays so.
Took(r) ==
  /\ shell[r] \in {"controller", "running"} => took[r]["ctl"] = "whole"
  /\ r \in uncached /\ shell[r] = "controller" =>
       took[r]["agent"] = "whole" \/ (fed[r] < 2 /\ HungUp(r))
  /\ shell[r] = "running" =>
       /\ took[r]["agent"] \in {"half", "whole"}
       /\ r \in uncached => took[r]["agent"] = "whole"

AllTook == \A r \in Runs : Took(r)

\* Every step keeps what the controllers took as they need it.
LEMMA TookStep == Sessions /\ AllTook /\ [Next]_vars => AllTook'
<1> SUFFICES ASSUME Sessions, AllTook, [Next]_vars, NEW q \in Runs PROVE Took(q)'
  BY DEF AllTook
<1>0. /\ TypeOK /\ TypeOK' /\ Took(q) /\ SessionOf(q)
      /\ uncached' = uncached /\ Items(q)' = Items(q)
  BY Typing, KindSettled DEF Sessions, AllTook
<1> USE DEF Took, HungUp, Over, TypeOK, ends, session
<1>1. ASSUME NEW r \in Runs,
             Prepared(r) \/ BindTimesOut(r) \/ Listen(r) \/ AcceptFails(r) \/ Interrupt(r)
      PROVE  Took(q)'
  BY <1>0, <1>1 DEF Prepared, BindTimesOut, Listen, AcceptFails, Interrupt, SocketAwaited, Fails
<1>2. ASSUME NEW r \in Runs, Probe(r) \/ Join(r) \/ Dial(r) \/ CloseStdin(r) \/ Collect(r)
      PROVE  Took(q)'
  BY <1>0, <1>2 DEF Probe, Join, Dial, CloseStdin, Collect, Fails
<1>3. ASSUME NEW r \in Runs, Feed(r) PROVE Took(q)'
  <2>1. pc[r] = "exchange" /\ UNCHANGED <<uncached, link, shell, took>>
    BY <1>3 DEF Feed
  <2>2. \/ Fails(r) /\ UNCHANGED fed
        \/ link[r] = "up" /\ fed' = [fed EXCEPT ![r] = @ + 1] /\ UNCHANGED ends
    <3> HIDE DEF ends
    <3> QED
      BY <1>3 DEF Feed
  <2>3. CASE Fails(r) /\ UNCHANGED fed
    BY <1>0, <2>1, <2>3 DEF Fails
  <2>4. CASE link[r] = "up" /\ fed' = [fed EXCEPT ![r] = @ + 1] /\ UNCHANGED ends
    BY <1>0, <2>1, <2>4
  <2> QED
    BY <2>2, <2>3, <2>4
<1>4. ASSUME NEW r \in Runs, Exec(r) PROVE Took(q)'
  <2>1. UNCHANGED <<uncached, pc, link, fed, stdin>> /\ shell[r] = "script"
    BY <1>4 DEF Exec
  <2>2. CASE q # r
    BY <1>0, <1>4, <2>1, <2>2, TookByExec DEF Exec, Exits
  <2>3. CASE q = r
    <3>1. shell'[q] \in {"controller", "exited"} /\ (shell'[q] = "controller" => took'[q]["ctl"] = "whole")
      BY <1>0, <1>4, <2>3 DEF Exec, Exits
    <3>2. ASSUME q \in uncached, shell'[q] = "controller", ~(fed[q] < 2 /\ HungUp(q))
          PROVE  took'[q]["agent"] = "whole"
      <4>1. fed[q] >= 2
        <5>1. fed[q] >= 2 \/ EndOfInput(q)
          BY <1>4, <2>3, <3>2 DEF Exec, Taken
        <5>2. stdin[q] = "closed" => fed[q] = 3
          BY <1>0, <3>2 DEF SessionOf, Items
        <5> QED
          BY <1>0, <3>2, <5>1, <5>2 DEF EndOfInput
      <4>2. Items(q)[2] = "agent" /\ 2 \in 1 .. fed[q]
        BY <1>0, <3>2, <4>1 DEF Items
      <4>3. took'[q] = [b \in Binaries |->
                          IF \E i \in 1 .. fed[q] : Items(q)[i] = b THEN "whole" ELSE "half"]
        BY <1>0, <1>4, <2>3, <3>2 DEF Exec
      <4> QED
        BY <4>2, <4>3 DEF Binaries
    <3> QED
      BY <2>1, <3>1, <3>2
  <2> QED
    BY <2>2, <2>3
<1>5. ASSUME NEW r \in Runs, Load(r) PROVE Took(q)'
  <2>1. UNCHANGED <<uncached, pc, link, fed, stdin>> /\ shell[r] = "controller"
    BY <1>5 DEF Load
  <2>2. CASE q # r
    BY <1>0, <1>5, <2>1, <2>2, TookByLoad DEF Load, Exits
  <2>3. CASE q = r
    <3>1. shell'[q] \in {"garbled", "exited", "running"}
      BY <1>0, <1>5, <2>3 DEF Load, Exits
    <3>2. ASSUME shell'[q] = "running"
          PROVE  /\ took'[q]["ctl"] = "whole" /\ took'[q]["agent"] \in {"half", "whole"}
                 /\ q \in uncached => took'[q]["agent"] = "whole"
      <4>1. /\ PayloadLeft(q) /\ took'[q]["agent"] # "none"
            /\ took' = IF q \in uncached THEN took
                       ELSE [took EXCEPT ![q]["agent"] = cache["agent"]]
        BY <1>0, <1>5, <2>3, <3>2 DEF Load, Exits
      <4>2. CASE q \in uncached
        BY <1>0, <2>1, <2>3, <4>1, <4>2 DEF PayloadLeft, Taken
      <4>3. CASE q \notin uncached
        BY <1>0, <2>1, <2>3, <4>1, <4>3 DEF Files, Binaries
      <4> QED
        BY <4>2, <4>3
    <3> QED
      BY <2>3, <3>1, <3>2, <1>0, <2>1
  <2> QED
    BY <2>2, <2>3
<1>6. ASSUME NEW r \in Runs, Report(r) \/ Lose(r) PROVE Took(q)'
  BY <1>0, <1>6 DEF Report, Lose, Exits
<1>7. CASE UNCHANGED <<uncached, ends, link, session>>
  BY <1>0, <1>7
<1>8. CASE UNCHANGED vars
  BY <1>7, <1>8 DEF vars
<1> QED
  BY <1>1, <1>2, <1>3, <1>4, <1>5, <1>6, <1>7, <1>8, NextCases, StagingApart

\* What a controller runs and hands on is whole, but for an agent that a lost
\* connection cut short in the cache.
THEOREM ControllersRunWhole == Spec => []RunsWhole
<1>1. Init => AllTook
  BY DEF Init, AllTook, Took
<1>2. AllTook /\ TornOnlyCut => RunsWhole
  BY DEF AllTook, Took, TornOnlyCut, RunsWhole, Binaries
<1> QED
  BY <1>1, <1>2, TookStep, SessionsHold, PushesApart, PTL DEF Spec

\* For any number of laptops and mishaps: a binary is cut short in the cache, or in
\* the hands of a run that trusts the cache, only if a push of it lost its other end,
\* and missing only if the forwarder tidied it away; a controller at work has whole
\* binaries otherwise, and its own payload.
THEOREM StagedWell == Spec => []StagingSafe
<1>1. TypeOK /\ TornOnlyCut /\ StagedBeforeExec /\ StreamFits /\ RunsWhole <=> StagingSafe
  BY DEF StagingSafe
<1> QED
  BY <1>1, ForwardTypes, PushesApart, StagedIsThere, InputFits, ControllersRunWhole, PTL

\* The laptop that started a run is the one it reaches, and its verdict is the
\* controller's report.
THEOREM RunIsTrue == Spec => []RunTrue
<1>1. PlacedRight /\ ReportTrue <=> RunTrue
  BY DEF RunTrue
<1> QED
  BY <1>1, LocalIsTheLaptop, VerdictIsReport, PTL
=============================================================================
