---------------------------- MODULE PerPlay_proofs ----------------------------
(***************************************************************************)
(* per_play keeps its word, for every inventory, every play and whatever   *)
(* its tasks do: a host's outcome tells what happened on it, blocks mean    *)
(* what they say, no notification is lost or without a change behind it.    *)
(*                                                                         *)
(* No host waits for another but at a run_once cell, and what it takes from *)
(* one is a result like its own: the invariant is one of each host by       *)
(* itself.                                                                 *)
(***************************************************************************)
EXTENDS PerPlay, HostWalk_proofs, WellFoundedInduction

-----------------------------------------------------------------------------
(* The play *)

\* The tasks of the play are roots of disjoint trees without handlers in them.
LEMMA Separate ==
  ASSUME play \in Plays, NEW i \in DOMAIN Play
  PROVE  /\ i \in 1 .. Len(Play) /\ Len(Play) \in Nat /\ DOMAIN Play = 1 .. Len(Play)
         /\ Play[i] \in Tasks \ Handlers /\ Root(Play[i])
         /\ Play[i] \in Subtree(Play[i]) /\ Subtree(Play[i]) \cap Handlers = {}
         /\ \A j \in DOMAIN Play \ {i} : Subtree(Play[j]) \cap Subtree(Play[i]) = {} /\ Play[j] # Play[i]
<1>1. Play \in Seq(play.slots) /\ DOMAIN Play = 1 .. Len(Play) /\ Len(Play) \in Nat
      /\ play.slots \subseteq Tasks \ Handlers
  BY PlayAssumption, LenProperties DEF Play
<1>2. \A j \in DOMAIN Play : Play[j] \in Tasks \ Handlers /\ j \in Nat /\ Play[j] \in Range(Play)
  BY <1>1, ElementOfSeq DEF Range
<1>3. Root(Play[i])
  <2>1. \A t \in Tasks : Range(Children(t)) \cap (Range(Play) \cup Handlers) = {}
    BY PlayAssumption DEF Play
  <2> QED BY <1>2, <2>1 DEF Root
<1>4. \A j \in DOMAIN Play : Play[j] \in Subtree(Play[j])
  BY <1>2, Numbers DEF Subtree
<1>5. ASSUME NEW u \in Subtree(Play[i])
      PROVE  u \notin Handlers
  <2>1. PICK t \in Tasks : t = Play[i]
    BY <1>2
  <2>2. t .. t + Size[t] - 1 \subseteq play.slots
    BY <1>2, <2>1, PlayAssumption DEF Play
  <2>3. t \in Nat /\ Size[t] \in Nat
    BY Numbers
  <2>4. u \in Nat /\ t <= u /\ u + Size[u] <= t + Size[t] /\ Size[u] \in Nat \ {0}
    BY <2>1, Numbers DEF Subtree
  <2>5. u \in t .. t + Size[t] - 1
    BY <2>3, <2>4
  <2> QED BY <1>1, <2>2, <2>5
<1>6. ASSUME NEW j \in DOMAIN Play, j # i
      PROVE  Subtree(Play[j]) \cap Subtree(Play[i]) = {}
  <2>1. SUFFICES ASSUME NEW u \in Subtree(Play[j]), u \in Subtree(Play[i]) PROVE FALSE
    OBVIOUS
  <2>2. /\ Play[i] \in Nat /\ Size[Play[i]] \in Nat /\ Play[j] \in Nat /\ Size[Play[j]] \in Nat
        /\ u \in Nat /\ Size[u] \in Nat \ {0}
    BY <1>2, Numbers DEF Subtree
  <2>3. Play[i] + Size[Play[i]] <= Play[j] \/ Play[j] + Size[Play[j]] <= Play[i]
    <3>1. i < j \/ j < i
      BY <1>2, <1>6
    <3> QED BY <3>1, PlayAssumption DEF Play
  <2> QED BY <2>1, <2>2, <2>3 DEF Subtree
<1> QED BY <1>1, <1>2, <1>3, <1>4, <1>5, <1>6

\* A handler is in no block of the play, and run in one step.
LEMMA Alone ==
  ASSUME play \in Plays, NEW n \in Nat \ {0}, n <= Len(HandlerList)
  PROVE  /\ HandlerList[n] \in Tasks \cap Handlers /\ Root(HandlerList[n])
         /\ Kind[HandlerList[n]] = "leaf"
<1>1. PICK t : t = HandlerList[n]
  OBVIOUS
<1>2. /\ HandlerList \in Seq({u \in Tasks : Kind[u] = "leaf"})
      /\ DOMAIN HandlerList = 1 .. Len(HandlerList) /\ Len(HandlerList) \in Nat
  BY TreeAssumption, LenProperties
<1>3. n \in 1 .. Len(HandlerList)
  BY <1>2
<1>4. t \in Tasks /\ Kind[t] = "leaf"
  BY <1>1, <1>2, <1>3, ElementOfSeq
<1>5. t \in Handlers
  BY <1>1, <1>2, <1>3 DEF Handlers, Range
<1> QED BY <1>1, <1>4, <1>5, PlayAssumption, TreeAssumption DEF Root

\* A policy is fatal or it is `continue`.
LEMMA Policies ==
  ASSUME play \in Plays
  PROVE  Fatal <=> Policy # "continue"
BY PlayAssumption DEF Fatal, Policy

\* The task the host is at, or was at last.
Task(h) == Play[at[h] - 1]

-----------------------------------------------------------------------------
(* The inductive invariant *)

\* A host is in the task it was sent into, or in none.
Placed(h) ==
  /\ ctl[h] \in Walking \cup {"idle", "flush", "done"}
  /\ IF ctl[h] \in Walking THEN at[h] > 1 /\ Walker(h, Task(h)) ELSE Outside(h)

\* What is pending has a cause, and broadcasts leave a trace.
Reasons(h) == Traced(h) /\ \A n \in pending[h] : \E t \in Tasks : n \in Notify[t] /\ Cause(h, t)

\* What is ahead the host has not begun; what is behind it has a result for.
Ahead(h) == \A i \in DOMAIN Play : i >= at[h] => Fresh(verdict[h], Play[i])
Behind(h) == \A i \in DOMAIN Play : i < at[h] /\ Play[i] \in Dispatched =>
               verdict[h][Play[i]] # "none" \/ (i = at[h] - 1 /\ ctl[h] \in Walking)

\* A failure is known to the walker, or is what the host has just come back with;
\* and it ends a play under a fatal policy.
Faults(h) ==
  /\ \A i \in DOMAIN Play : verdict[h][Play[i]] = "failed" =>
       /\ failure[h] \/ (i = at[h] - 1 /\ ctl[h] = "return" /\ stack[h] = <<>>)
       /\ Fatal => i = at[h] - 1 /\ ctl[h] \in {"return", "done"}
  /\ Fatal /\ failure[h] => ctl[h] \in {"flush", "done"}

\* Why a host is at its end, and what the join loop makes of it.
Over(h) ==
  /\ final[h] => failure[h] \/ at[h] > Len(Play) \/ (dead[h] /\ Excused(verdict[h]))
  /\ ctl[h] = "done" => final[h] \/ failure[h]
  /\ h \in joined => ctl[h] = "done" /\ (failure[h] => outcome[h] = "failed" /\ (Fatal => dead[h]))

\* In a drain only the handlers still to come are pending, and those notified late;
\* unless it was cut short.
Draining(h) ==
  /\ (ctl[h] = "flush" /\ ~failure[h]) =>
       \/ pending[h] \subseteq Coming(hand[h]) \cup Belated(verdict[h])
       \/ hand[h] > Len(HandlerList) /\ ~res[h].alive
  /\ (ctl[h] = "done" /\ ~failure[h]) => pending[h] \subseteq Belated(verdict[h]) \/ ~res[h].alive

Sound(h) == Placed(h) /\ Reasons(h) /\ Ahead(h) /\ Behind(h) /\ Faults(h) /\ Over(h) /\ Draining(h)

IInv == TypeOK /\ \A h \in Hosts : Sound(h)

\* A step of another host leaves a host as sound as it was.
Still(g) ==
  /\ ctl'[g] = ctl[g] /\ cur'[g] = cur[g] /\ stack'[g] = stack[g] /\ res'[g] = res[g]
  /\ pending'[g] = pending[g] /\ failedVar'[g] = failedVar[g] /\ dead'[g] = dead[g]
  /\ verdict'[g] = verdict[g] /\ taken'[g] = taken[g]
  /\ at'[g] = at[g] /\ failure'[g] = failure[g] /\ hand'[g] = hand[g] /\ final'[g] = final[g]
  /\ outcome'[g] = outcome[g] /\ (g \in joined' <=> g \in joined)

LEMMA OthersStay ==
  ASSUME NEW g, Sound(g), play' = play, Still(g)
  PROVE  Sound(g)'
<1>1. Placed(g)'
  BY DEF Sound, Still, Placed, Walker, Task, Play, Outside
<1>2. Reasons(g)'
  BY DEF Sound, Still, Reasons, Traced, Cause
<1>3. Ahead(g)' /\ Behind(g)'
  BY DEF Sound, Still, Ahead, Behind, Play, Dispatched, Fresh
<1>4. Faults(g)' /\ Over(g)' /\ Draining(g)'
  BY DEF Sound, Still, Faults, Over, Draining, Play, Fatal, Policy, Coming
<1> QED BY <1>1, <1>2, <1>3, <1>4 DEF Sound

\* What is enough for a step of `h`.
LEMMA Suffices ==
  ASSUME IInv, NEW h \in Hosts, play' = play, TypeOK', Sound(h)', \A g \in Hosts \ {h} : Still(g)
  PROVE  IInv'
<1>1. ASSUME NEW g \in Hosts PROVE Sound(g)'
  <2>1. CASE g = h
    BY <2>1
  <2>2. CASE g # h
    BY <2>2, OthersStay DEF IInv
  <2> QED BY <2>1, <2>2
<1> QED BY <1>1 DEF IInv

-----------------------------------------------------------------------------
(* The walkers *)

\* A host that walks is in a task of the play.
LEMMA AtWork ==
  ASSUME TypeOK, NEW h \in Hosts, Sound(h), ctl[h] \in Walking
  PROVE  /\ at[h] - 1 \in DOMAIN Play /\ at[h] \in Nat /\ Task(h) \in Tasks /\ Root(Task(h))
         /\ Walker(h, Task(h)) /\ h \notin joined
<1>1. /\ play \in Plays /\ at[h] \in 1 .. Len(Play) + 1 /\ at[h] > 1 /\ Walker(h, Task(h))
  BY DEF TypeOK, Sound, Placed
<1>2. DOMAIN Play = 1 .. Len(Play) /\ Len(Play) \in Nat
  BY <1>1, PlayAssumption, LenProperties DEF Play
<1>3. at[h] - 1 \in DOMAIN Play /\ at[h] \in Nat
  BY <1>1, <1>2
<1>4. h \notin joined
  BY DEF Sound, Over, Walking
<1> QED BY <1>1, <1>3, <1>4, Separate DEF Task

\* A walker's step.
LEMMA Walks ==
  ASSUME IInv, NEW h \in Hosts, Step(h)
  PROVE  IInv'
<1>1. TypeOK /\ Sound(h) /\ WalkTypeOK /\ WalkStep(h, Runner) /\ play \in Plays /\ UNCHANGED playVars
  BY DEF IInv, TypeOK, Step
<1>2. ctl[h] \in Walking
  BY <1>1, IdleStays
<1>3. /\ at[h] - 1 \in DOMAIN Play /\ at[h] \in Nat /\ Task(h) \in Tasks /\ Root(Task(h))
      /\ Walker(h, Task(h)) /\ h \notin joined
  BY <1>1, <1>2, AtWork
<1>4. PICK t \in Tasks : t = Task(h)
  BY <1>3
<1>5. Moved(h, t)
  BY <1>1, <1>3, <1>4, WalkerSteps
<1>6. /\ WalkTypeOK' /\ Walker(h, t)' /\ ctl'[h] \in Walking
      /\ dead' = dead /\ Apart(h) /\ Wrote(h, t) /\ Told(h)
  BY <1>5 DEF Moved
<1>7. /\ play' = play /\ at' = at /\ failure' = failure /\ hand' = hand /\ final' = final
      /\ joined' = joined /\ outcome' = outcome /\ Task(h)' = Task(h) /\ Play' = Play /\ Fatal' = Fatal
  BY <1>1 DEF playVars, Task, Play, Fatal, Policy
<1>8. TypeOK'
  BY <1>1, <1>6, <1>7 DEF TypeOK
<1>9. \A g \in Hosts \ {h} : Still(g)
  BY <1>6, <1>7 DEF Still, Apart
<1>10. Placed(h)'
  <2>1. Walker(h, Task(h))'
    BY <1>4, <1>6, <1>7 DEF Walker
  <2> QED BY <1>1, <1>2, <1>6, <1>7, <2>1 DEF Sound, Placed
<1>11. /\ Traced(h)' /\ \A u \in Tasks : Cause(h, u) => Cause(h, u)'
       /\ Excused(verdict[h]) => Excused(verdict'[h])
  BY <1>1, <1>6, Lasting DEF Sound, Reasons
<1>12. Reasons(h)'
  <2>1. ASSUME NEW n \in pending'[h]
        PROVE  \E u \in Tasks : n \in Notify[u] /\ Cause(h, u)'
    <3>1. CASE n \in pending[h]
      BY <1>1, <1>11, <3>1 DEF Sound, Reasons
    <3>2. CASE n \notin pending[h]
      BY <1>6, <2>1, <3>2 DEF Told
    <3> QED BY <3>1, <3>2
  <2> QED BY <1>11, <2>1 DEF Reasons
<1>13. \A i \in DOMAIN Play : i # at[h] - 1 => \A u \in Subtree(Play[i]) : verdict'[h][u] = verdict[h][u]
  <2>1. SUFFICES ASSUME NEW i \in DOMAIN Play, i # at[h] - 1, NEW u \in Subtree(Play[i])
                 PROVE  verdict'[h][u] = verdict[h][u]
    OBVIOUS
  <2>2. Subtree(Play[i]) \cap Subtree(Play[at[h] - 1]) = {}
    BY <1>1, <1>3, <2>1, Separate
  <2>3. u \notin Subtree(t) /\ u \in Tasks
    BY <1>4, <2>1, <2>2 DEF Subtree, Task
  <2> QED BY <1>6, <2>3 DEF Wrote
<1>14. Ahead(h)'
  <2>1. SUFFICES ASSUME NEW i \in DOMAIN Play, i >= at[h] PROVE Fresh(verdict'[h], Play[i])
    BY <1>7 DEF Ahead
  <2>2. Fresh(verdict[h], Play[i])
    BY <1>1, <2>1 DEF Sound, Ahead
  <2>3. i # at[h] - 1
    BY <1>1, <1>3, <2>1, Separate
  <2>4. \A u \in Subtree(Play[i]) : verdict'[h][u] = verdict[h][u]
    BY <1>13, <2>3
  <2> QED BY <2>2, <2>4, FreshStays
<1>15. Behind(h)'
  <2>1. \A i \in DOMAIN Play : Play[i] \in Subtree(Play[i])
    BY <1>1, Separate
  <2>2. \A i \in DOMAIN Play : i # at[h] - 1 => verdict'[h][Play[i]] = verdict[h][Play[i]]
    BY <1>13, <2>1
  <2>3. Dispatched' = Dispatched
    BY <1>7 DEF Dispatched
  <2> QED BY <1>1, <1>6, <1>7, <2>2, <2>3 DEF Sound, Behind
<1>16. Faults(h)'
  <2>1. ~(Fatal /\ failure[h])
    BY <1>1, <1>2 DEF Sound, Faults, Walking
  <2>2. ASSUME NEW i \in DOMAIN Play, verdict'[h][Play[i]] = "failed"
        PROVE  /\ failure[h] \/ (i = at[h] - 1 /\ ctl'[h] = "return" /\ stack'[h] = <<>>)
               /\ Fatal => i = at[h] - 1 /\ ctl'[h] \in {"return", "done"}
    <3>1. CASE i = at[h] - 1
      <4>1. verdict'[h][t] # "none"
        BY <1>4, <2>2, <3>1 DEF Task
      <4>2. ctl'[h] = "return" /\ stack'[h] = <<>>
        BY <1>6, <4>1 DEF Walker, Standing, Rooted
      <4> QED BY <3>1, <4>2
    <3>2. CASE i # at[h] - 1
      <4>1. verdict[h][Play[i]] = "failed"
        BY <1>1, <1>13, <2>2, <3>2, Separate
      <4> QED BY <1>1, <3>2, <4>1 DEF Sound, Faults
    <3> QED BY <3>1, <3>2
  <2> QED BY <1>7, <2>1, <2>2 DEF Faults
<1>17. Over(h)' /\ Draining(h)'
  BY <1>1, <1>3, <1>6, <1>7, <1>11 DEF Sound, Over, Draining, Walking
<1> QED BY <1>7, <1>8, <1>9, <1>10, <1>12, <1>14, <1>15, <1>16, <1>17, Suffices DEF Sound

-----------------------------------------------------------------------------
(* The beginning *)

\* The slots of a play have a first.
LEMMA FirstSlot ==
  ASSUME NEW p \in Plays
  PROVE  /\ Min(p.slots) \in Nat /\ p.slots \subseteq Tasks
         /\ \A y \in p.slots : Min(p.slots) <= y
<1>1. p.slots # {} /\ p.slots \subseteq Tasks /\ p.slots \subseteq Nat
  BY PlayAssumption, Numbers
<1>2. PICK m \in p.slots : \A y \in p.slots : <<y, m>> \notin OpToRel(<, Nat)
  BY <1>1, NatLessThanWellFounded, WFMin
<1>3. ASSUME NEW y \in p.slots PROVE m <= y
  <2>1. y \in Nat /\ m \in Nat
    BY <1>1
  <2>2. <<y, m>> \in Nat \X Nat /\ <<y, m>>[1] = y /\ <<y, m>>[2] = m
    BY <2>1
  <2>3. ~(y < m)
    BY <1>2, <2>2 DEF OpToRel
  <2> QED BY <2>1, <2>3
<1>4. Min(p.slots) \in p.slots /\ \A y \in p.slots : Min(p.slots) <= y
  BY <1>3 DEF Min
<1> QED BY <1>1, <1>4

\* What holds before the play begins.
LEMMA Begins == Init => IInv
<1> SUFFICES ASSUME Init PROVE IInv
  OBVIOUS
<1>1. /\ ctl = [h \in Hosts |-> "idle"] /\ cur = [h \in Hosts |-> NoTask]
      /\ stack = [h \in Hosts |-> <<>>] /\ slot = [h \in Hosts |-> Min(play.slots)]
      /\ res = [h \in Hosts |-> NoResult] /\ cells = [s \in play.slots |-> NoCell]
      /\ pending = [h \in Hosts |-> {}] /\ failedVar = [h \in Hosts |-> NoTask]
      /\ dead = [h \in Hosts |-> FALSE]
      /\ verdict = [h \in Hosts |-> [t \in Tasks |-> "none"]]
      /\ taken = [h \in Hosts |-> [t \in Tasks |-> NoCell]]
  BY DEF Init, WalkInit, Allocate
<1>2. /\ play \in Plays /\ at = [h \in Hosts |-> 1] /\ failure = [h \in Hosts |-> FALSE]
      /\ hand = [h \in Hosts |-> 1] /\ final = [h \in Hosts |-> FALSE]
      /\ joined = {} /\ outcome = [h \in Hosts |-> "ok"]
  BY DEF Init
<1>3. NoCell \in CellType /\ NoResult \in [out : {"none", "ok", "skipped", "failed"}, changed : BOOLEAN, alive : BOOLEAN]
  BY DEF NoCell, NoResult, CellType, Bodies
<1>4. WalkTypeOK
  <2>1. DOMAIN cells \subseteq Tasks /\ cells \in [DOMAIN cells -> CellType]
    BY <1>1, <1>2, <1>3, FirstSlot
  <2>2. stack \in [Hosts -> Seq(FrameType)] /\ slot \in [Hosts -> Nat]
    BY <1>1, <1>2, FirstSlot
  <2>3. taken \in [Hosts -> [Tasks -> CellType]] /\ res \in [Hosts -> [out : {"none", "ok", "skipped", "failed"}, changed : BOOLEAN, alive : BOOLEAN]]
    BY <1>1, <1>3
  <2> QED BY <1>1, <2>1, <2>2, <2>3 DEF WalkTypeOK
<1>5. TypeOK
  <2>1. 1 \in 1 .. Len(Play) + 1 /\ 1 \in 1 .. Len(HandlerList) + 1
    <3>1. Len(Play) \in Nat
      BY <1>2, PlayAssumption, LenProperties DEF Play
    <3> QED BY <3>1, AllComing
  <2> QED BY <1>2, <1>4, <2>1 DEF TypeOK
<1>6. ASSUME NEW h \in Hosts PROVE Sound(h)
  <2>1. /\ ctl[h] = "idle" /\ stack[h] = <<>> /\ failedVar[h] = NoTask /\ pending[h] = {}
        /\ \A t \in Tasks : verdict[h][t] = "none" /\ taken[h][t] = NoCell
        /\ at[h] = 1 /\ ~failure[h] /\ ~final[h] /\ h \notin joined
    BY <1>1, <1>2
  <2>2. Placed(h)
    <3>1. ASSUME NEW b \in OpenBlocks PROVE Disciplined(verdict[h], b)
      <4>1. b \in Tasks /\ \A c \in Range(Arm[b].rescue) : c \in Tasks
        BY Kids DEF OpenBlocks, Arms
      <4> QED BY <2>1, <4>1 DEF Disciplined
    <3> QED BY <2>1, <3>1 DEF Placed, Outside, Walking
  <2>3. Reasons(h)
    BY <2>1 DEF Reasons, Traced
  <2>4. \A i \in DOMAIN Play : i \in Nat \ {0} /\ Play[i] \in Tasks
    BY <1>2, Separate
  <2>5. Ahead(h) /\ Behind(h) /\ Faults(h)
    BY <2>1, <2>4 DEF Ahead, Behind, Faults, Fresh, Subtree
  <2>6. Over(h) /\ Draining(h)
    BY <2>1 DEF Over, Draining
  <2> QED BY <2>2, <2>3, <2>5, <2>6 DEF Sound
<1> QED BY <1>5, <1>6 DEF IInv

-----------------------------------------------------------------------------
(* The task loop *)

\* A step that runs nothing.
LEMMA Bookkeeping ==
  ASSUME IInv, NEW h \in Hosts, UNCHANGED <<play, stack, res, pending, failedVar, verdict, taken>>,
         TypeOK', \A g \in Hosts \ {h} : Still(g),
         Placed(h)', Ahead(h)', Behind(h)', Faults(h)', Over(h)', Draining(h)'
  PROVE  IInv'
<1>1. Reasons(h)'
  BY DEF IInv, Sound, Reasons, Traced, Cause
<1> QED BY <1>1, Suffices DEF Sound

\* A host that is in no task, and what it knows.
LEMMA Resting ==
  ASSUME IInv, NEW h \in Hosts, ctl[h] \notin Walking
  PROVE  /\ TypeOK /\ play \in Plays /\ at[h] \in 1 .. Len(Play) + 1 /\ Len(Play) \in Nat
         /\ DOMAIN Play = 1 .. Len(Play)
         /\ stack[h] = <<>> /\ failedVar[h] = NoTask /\ pending[h] \subseteq Handlers
         /\ \A b \in OpenBlocks : Disciplined(verdict[h], b)
         /\ Ahead(h) /\ Faults(h) /\ Over(h) /\ Draining(h)
         /\ \A i \in DOMAIN Play : i < at[h] /\ Play[i] \in Dispatched => verdict[h][Play[i]] # "none"
<1>1. TypeOK /\ Sound(h) /\ play \in Plays /\ at[h] \in 1 .. Len(Play) + 1 /\ pending[h] \subseteq Handlers
  BY DEF IInv, TypeOK, WalkTypeOK
<1>2. Len(Play) \in Nat /\ DOMAIN Play = 1 .. Len(Play)
  BY <1>1, PlayAssumption, LenProperties DEF Play
<1> QED BY <1>1, <1>2 DEF Sound, Placed, Outside, Behind

\* A task that is not dispatched.
LEMMA PassesOver ==
  ASSUME IInv, NEW h \in Hosts, PassOver(h)
  PROVE  IInv'
<1>1. /\ ctl[h] = "idle" /\ ctl[h] \notin Walking /\ at[h] <= Len(Play)
      /\ Play[at[h]] \notin Dispatched
  BY DEF PassOver, Walking, Dispatched
<1>2. /\ TypeOK /\ play \in Plays /\ at[h] \in 1 .. Len(Play) + 1 /\ Len(Play) \in Nat
      /\ DOMAIN Play = 1 .. Len(Play)
      /\ stack[h] = <<>> /\ failedVar[h] = NoTask /\ pending[h] \subseteq Handlers
      /\ \A b \in OpenBlocks : Disciplined(verdict[h], b)
      /\ Ahead(h) /\ Faults(h) /\ Over(h)
      /\ \A i \in DOMAIN Play : i < at[h] /\ Play[i] \in Dispatched => verdict[h][Play[i]] # "none"
  BY <1>1, Resting
<1>3. /\ UNCHANGED <<cur, stack, res, cells, pending, failedVar, dead, verdict, taken>>
      /\ UNCHANGED <<play, failure, final, joined, outcome>>
      /\ slot' = [slot EXCEPT ![h] = @ + SizeAt(stack[h], @)] /\ at' = [at EXCEPT ![h] = @ + 1]
      /\ \/ ctl' = [ctl EXCEPT ![h] = "flush"] /\ hand' = [hand EXCEPT ![h] = 1]
         \/ ctl' = ctl /\ hand' = hand
  BY DEF PassOver
<1>4. at'[h] = at[h] + 1 /\ at[h] \in Nat
  BY <1>2, <1>3 DEF TypeOK
<1>5. \/ ctl'[h] = "flush" /\ hand'[h] = 1
      \/ ctl'[h] = "idle" /\ hand'[h] = hand[h]
  BY <1>1, <1>2, <1>3 DEF TypeOK, WalkTypeOK
<1>6. TypeOK'
  <2>1. slot[h] \in Nat /\ DOMAIN cells \subseteq Tasks
    BY <1>2 DEF TypeOK, WalkTypeOK
  <2>2. slot[h] + SizeAt(stack[h], slot[h]) \in Nat
    BY <2>1, SlotsCount
  <2>3. slot' \in [Hosts -> Nat]
    BY <1>2, <1>3, <2>2 DEF TypeOK, WalkTypeOK
  <2>4. WalkTypeOK'
    BY <1>2, <1>3, <2>3 DEF TypeOK, WalkTypeOK
  <2>5. at[h] + 1 \in 1 .. Len(Play) + 1 /\ 1 \in 1 .. Len(HandlerList) + 1
    BY <1>1, <1>2, AllComing
  <2> QED BY <1>2, <1>3, <2>4, <2>5 DEF TypeOK, Play
<1>7. \A g \in Hosts \ {h} : Still(g)
  BY <1>2, <1>3 DEF Still, TypeOK, WalkTypeOK
<1>8. Placed(h)'
  BY <1>2, <1>3, <1>5 DEF Placed, Walking, Outside
<1>9. Ahead(h)'
  <2>1. \A i \in DOMAIN Play : i >= at'[h] => i >= at[h]
    BY <1>2, <1>4
  <2> QED BY <1>2, <1>3, <2>1 DEF Ahead, Play, Fresh
<1>10. Behind(h)'
  <2>1. \A i \in DOMAIN Play : i < at[h] + 1 => i < at[h] \/ i = at[h]
    BY <1>2
  <2> QED BY <1>1, <1>2, <1>3, <1>4, <2>1 DEF Behind, Play, Dispatched
<1>11. Faults(h)' /\ Over(h)'
  <2>1. /\ \A i \in DOMAIN Play : verdict[h][Play[i]] = "failed" => failure[h] /\ ~Fatal
        /\ ~(Fatal /\ failure[h])
    BY <1>1, <1>2 DEF Faults
  <2>2. Faults(h)'
    BY <1>3, <2>1 DEF Faults, Play, Fatal, Policy
  <2>3. h \notin joined
    BY <1>1, <1>2 DEF Over
  <2> QED BY <1>2, <1>3, <1>4, <1>5, <2>2, <2>3 DEF Over, Play
<1>12. Draining(h)'
  <2>1. ctl'[h] = "flush" => hand'[h] = 1 /\ pending'[h] \subseteq Coming(1)
    BY <1>2, <1>3, <1>5, AllComing
  <2>2. ctl'[h] # "done"
    BY <1>5
  <2> QED BY <2>1, <2>2 DEF Draining, Coming
<1> QED BY <1>3, <1>6, <1>7, <1>8, <1>9, <1>10, <1>11, <1>12, Bookkeeping

\* A task that is.
LEMMA StartsTask ==
  ASSUME IInv, NEW h \in Hosts, StartTask(h)
  PROVE  IInv'
<1>1. ctl[h] = "idle" /\ ctl[h] \notin Walking /\ at[h] <= Len(Play)
  BY DEF StartTask, Walking
<1>2. /\ TypeOK /\ play \in Plays /\ at[h] \in 1 .. Len(Play) + 1 /\ Len(Play) \in Nat
      /\ DOMAIN Play = 1 .. Len(Play)
      /\ stack[h] = <<>> /\ failedVar[h] = NoTask
      /\ \A b \in OpenBlocks : Disciplined(verdict[h], b)
      /\ Ahead(h) /\ Faults(h) /\ Over(h)
      /\ \A i \in DOMAIN Play : i < at[h] /\ Play[i] \in Dispatched => verdict[h][Play[i]] # "none"
  BY <1>1, Resting
<1>3. /\ UNCHANGED <<stack, slot, res, cells, pending, failedVar, dead, verdict, taken>>
      /\ UNCHANGED <<play, failure, hand, final, joined, outcome>>
      /\ ctl' = [ctl EXCEPT ![h] = "call"] /\ cur' = [cur EXCEPT ![h] = Play[at[h]]]
      /\ at' = [at EXCEPT ![h] = @ + 1]
  BY DEF StartTask
<1>4. at[h] \in DOMAIN Play /\ Play[at[h]] \in Tasks /\ Root(Play[at[h]])
  BY <1>1, <1>2, Separate
<1>5. /\ at'[h] = at[h] + 1 /\ at[h] \in Nat /\ at[h] > 0 /\ ctl'[h] = "call" /\ cur'[h] = Play[at[h]]
      /\ Task(h)' = Play[at[h]]
  BY <1>2, <1>3 DEF TypeOK, WalkTypeOK, Task, Play
<1>6. TypeOK'
  <2>1. WalkTypeOK'
    BY <1>2, <1>3, <1>4 DEF TypeOK, WalkTypeOK
  <2>2. at[h] + 1 \in 1 .. Len(Play) + 1
    BY <1>1, <1>2
  <2> QED BY <1>2, <1>3, <2>1, <2>2 DEF TypeOK, Play
<1>7. \A g \in Hosts \ {h} : Still(g)
  BY <1>2, <1>3 DEF Still, TypeOK, WalkTypeOK
<1>8. Placed(h)'
  <2>1. Fresh(verdict[h], Play[at[h]])
    BY <1>2, <1>4, <1>5 DEF Ahead
  <2>2. Standing("call", Play[at[h]], <<>>, res[h], verdict[h], NoTask, Play[at[h]])
    BY <1>2, <1>4, <2>1, Sent
  <2>3. Walker(h, Task(h))'
    BY <1>2, <1>3, <1>5, <2>2 DEF Walker
  <2> QED BY <1>5, <2>3 DEF Placed, Walking
<1>9. Ahead(h)'
  BY <1>2, <1>3, <1>5 DEF Ahead, Play, Fresh
<1>10. Behind(h)'
  <2>1. \A i \in DOMAIN Play : i < at[h] + 1 => i < at[h] \/ i = at'[h] - 1
    BY <1>2, <1>5
  <2> QED BY <1>2, <1>3, <1>5, <2>1 DEF Behind, Play, Dispatched, Walking
<1>11. Faults(h)' /\ Over(h)' /\ Draining(h)'
  <2>1. /\ \A i \in DOMAIN Play : verdict[h][Play[i]] = "failed" => failure[h] /\ ~Fatal
        /\ ~(Fatal /\ failure[h])
    BY <1>1, <1>2 DEF Faults
  <2>2. Faults(h)'
    BY <1>3, <2>1 DEF Faults, Play, Fatal, Policy
  <2>3. h \notin joined
    BY <1>1, <1>2 DEF Over
  <2> QED BY <1>2, <1>3, <1>5, <2>2, <2>3 DEF Over, Draining, Play
<1> QED BY <1>3, <1>6, <1>7, <1>8, <1>9, <1>10, <1>11, Bookkeeping

\* A host that leaves the task loop.
LEMMA FinishesLoop ==
  ASSUME NEW h \in Hosts, TypeOK, NEW f \in BOOLEAN, Finish(h, f)
  PROVE  /\ final' = [final EXCEPT ![h] = TRUE] /\ hand' = [hand EXCEPT ![h] = 1]
         /\ final'[h] = TRUE /\ hand'[h] = 1
         /\ ctl' = [ctl EXCEPT ![h] = ctl'[h]]
         /\ ctl'[h] = (IF f /\ Fatal THEN "done" ELSE "flush")
         /\ final' \in [Hosts -> BOOLEAN] /\ hand' \in [Hosts -> 1 .. Len(HandlerList) + 1]
<1>1. Fatal <=> Policy # "continue"
  BY Policies DEF TypeOK
<1>2. 1 \in 1 .. Len(HandlerList) + 1
  BY AllComing
<1> QED BY <1>1, <1>2 DEF Finish, TypeOK, WalkTypeOK

\* A task has returned.
LEMMA TakesResult ==
  ASSUME IInv, NEW h \in Hosts, TaskReturns(h)
  PROVE  IInv'
<1> DEFINE failed == failure[h] \/ res[h].out = "failed"
           fatal == res[h].out = "failed" /\ Fatal
<1>1. /\ TypeOK /\ Sound(h) /\ play \in Plays /\ ctl[h] = "return" /\ stack[h] = <<>> /\ ctl[h] \in Walking
      /\ failure[h] \in BOOLEAN /\ dead[h] \in BOOLEAN /\ res[h].alive \in BOOLEAN
      /\ pending[h] \subseteq Handlers
  BY DEF IInv, TypeOK, WalkTypeOK, TaskReturns, Walking
<1>2. /\ at[h] - 1 \in DOMAIN Play /\ at[h] \in Nat /\ Task(h) \in Tasks /\ Root(Task(h))
      /\ Walker(h, Task(h)) /\ h \notin joined
  BY <1>1, AtWork
<1>3. PICK t \in Tasks : t = Task(h) /\ Root(t) /\ Walker(h, t)
  BY <1>2
<1>4. /\ verdict[h][t] \in Endings /\ (verdict[h][t] = "failed" <=> res[h].out = "failed")
      /\ res[h].alive \/ res[h].out = "failed" \/ Excused(verdict[h])
      /\ failedVar[h] = NoTask /\ \A b \in OpenBlocks : Disciplined(verdict[h], b)
  BY <1>1, <1>3, Returned
<1>5. /\ UNCHANGED <<cur, stack, slot, res, cells, pending, failedVar, verdict, taken>>
      /\ UNCHANGED <<play, at, joined, outcome>>
      /\ failure' = [failure EXCEPT ![h] = failed]
      /\ dead' = [dead EXCEPT ![h] = @ \/ (~fatal /\ ~res[h].alive)]
      /\ IF fatal \/ ~res[h].alive
           THEN Finish(h, failed)
           ELSE ctl' = [ctl EXCEPT ![h] = "idle"] /\ hand' = hand /\ final' = final
  BY DEF TaskReturns
<1>6. failed \in BOOLEAN /\ fatal \in BOOLEAN
  OBVIOUS
<1>7. PICK d \in BOOLEAN : dead' = [dead EXCEPT ![h] = d] /\ (d <=> dead[h] \/ (~fatal /\ ~res[h].alive))
  BY <1>1, <1>5
<1>8. PICK f \in BOOLEAN : failure' = [failure EXCEPT ![h] = f] /\ (f <=> failure[h] \/ res[h].out = "failed")
                           /\ f = failed
  BY <1>1, <1>5
<1>9. /\ hand' \in [Hosts -> 1 .. Len(HandlerList) + 1] /\ final' \in [Hosts -> BOOLEAN]
      /\ ctl' = [ctl EXCEPT ![h] = ctl'[h]]
      /\ hand' = [hand EXCEPT ![h] = hand'[h]] /\ final' = [final EXCEPT ![h] = final'[h]]
      /\ \/ /\ fatal \/ ~res[h].alive
            /\ hand'[h] = 1 /\ final'[h] = TRUE
            /\ ctl'[h] = (IF f /\ Fatal THEN "done" ELSE "flush")
         \/ ~fatal /\ res[h].alive /\ ctl'[h] = "idle" /\ final'[h] = final[h]
  <2>1. CASE fatal \/ ~res[h].alive
    <3>1. Finish(h, f)
      BY <1>5, <1>8, <2>1
    <3> QED BY <1>1, <2>1, <3>1, FinishesLoop
  <2>2. CASE ~(fatal \/ ~res[h].alive)
    BY <1>1, <1>5, <2>2 DEF TypeOK, WalkTypeOK
  <2> QED BY <2>1, <2>2
<1>10. failure'[h] = f /\ dead'[h] = d
  BY <1>1, <1>7, <1>8 DEF TypeOK, WalkTypeOK
<1>11. ctl'[h] \in {"idle", "flush", "done"} /\ ctl'[h] \notin Walking
  BY <1>9 DEF Walking
<1>12. TypeOK'
  <2>1. ctl' \in [Hosts -> {"idle", "call", "iterate", "list", "skip", "armDone",
                        "return", "flush", "handler", "done"}]
    <3>1. PICK c \in {"idle", "flush", "done"} : ctl' = [ctl EXCEPT ![h] = c]
      BY <1>9, <1>11
    <3> QED BY <1>1, <3>1 DEF TypeOK, WalkTypeOK
  <2>2. dead' \in [Hosts -> BOOLEAN] /\ failure' \in [Hosts -> BOOLEAN]
    BY <1>1, <1>7, <1>8 DEF TypeOK, WalkTypeOK
  <2>3. WalkTypeOK'
    BY <1>1, <1>5, <2>1, <2>2 DEF TypeOK, WalkTypeOK
  <2> QED BY <1>1, <1>5, <1>9, <2>2, <2>3 DEF TypeOK, Play
<1>13. \A g \in Hosts \ {h} : Still(g)
  <2>1. \A g \in Hosts \ {h} : ctl'[g] = ctl[g] /\ hand'[g] = hand[g] /\ final'[g] = final[g]
    BY <1>1, <1>9 DEF TypeOK, WalkTypeOK
  <2> QED BY <1>1, <1>5, <1>7, <1>8, <2>1 DEF Still, TypeOK, WalkTypeOK
<1>14. Placed(h)'
  BY <1>1, <1>4, <1>5, <1>11 DEF Placed, Outside, Walking
<1>15. Ahead(h)'
  BY <1>1, <1>5 DEF Sound, Ahead, Play, Fresh
<1>16. Behind(h)'
  <2>1. verdict[h][Play[at[h] - 1]] # "none"
    BY <1>3, <1>4 DEF Task, Endings
  <2> QED BY <1>1, <1>5, <2>1 DEF Sound, Behind, Play, Dispatched
<1>17. Faults(h)'
  <2>1. ~(Fatal /\ failure[h])
    BY <1>1 DEF Sound, Faults
  <2>2. ASSUME NEW i \in DOMAIN Play, verdict[h][Play[i]] = "failed"
        PROVE  f /\ (Fatal => i = at[h] - 1 /\ ctl'[h] = "done")
    <3>1. failure[h] \/ i = at[h] - 1
      BY <1>1, <2>2 DEF Sound, Faults
    <3>2. Fatal => i = at[h] - 1
      BY <1>1, <2>2 DEF Sound, Faults
    <3>3. i = at[h] - 1 => res[h].out = "failed"
      BY <1>3, <1>4, <2>2 DEF Task
    <3> QED BY <1>8, <1>9, <3>1, <3>2, <3>3
  <2>3. Fatal /\ f => ctl'[h] = "done"
    BY <1>8, <1>9, <2>1
  <2>4. Play' = Play /\ Fatal' = Fatal /\ verdict' = verdict /\ at' = at
    BY <1>5 DEF Play, Fatal, Policy
  <2> QED BY <1>10, <2>2, <2>3, <2>4 DEF Faults
<1>18. Over(h)'
  <2>1. final'[h] => f \/ at[h] > Len(Play) \/ (d /\ Excused(verdict[h]))
    <3>1. CASE fatal \/ ~res[h].alive
      BY <1>4, <1>7, <1>8, <3>1
    <3>2. CASE ~fatal /\ res[h].alive
      BY <1>1, <1>7, <1>8, <1>9, <3>2 DEF Sound, Over
    <3> QED BY <1>1, <3>1, <3>2
  <2>2. ctl'[h] = "done" => final'[h]
    BY <1>9
  <2> QED BY <1>2, <1>5, <1>10, <2>1, <2>2 DEF Over, Play
<1>19. Draining(h)'
  <2>1. ctl'[h] = "flush" => hand'[h] = 1 /\ pending'[h] \subseteq Coming(1)
    BY <1>1, <1>5, <1>9, AllComing
  <2>2. ctl'[h] = "done" => failure'[h]
    BY <1>9, <1>10
  <2> QED BY <2>1, <2>2 DEF Draining, Coming
<1> QED BY <1>5, <1>12, <1>13, <1>14, <1>15, <1>16, <1>17, <1>18, <1>19, Bookkeeping

\* The play is over for the host.
LEMMA EndsPlay ==
  ASSUME IInv, NEW h \in Hosts, EndOfPlay(h)
  PROVE  IInv'
<1>1. ctl[h] = "idle" /\ ctl[h] \notin Walking /\ at[h] > Len(Play)
  BY DEF EndOfPlay, Walking
<1>2. /\ TypeOK /\ play \in Plays
      /\ stack[h] = <<>> /\ failedVar[h] = NoTask /\ pending[h] \subseteq Handlers
      /\ \A b \in OpenBlocks : Disciplined(verdict[h], b)
      /\ Ahead(h) /\ Faults(h) /\ Over(h)
      /\ \A i \in DOMAIN Play : i < at[h] /\ Play[i] \in Dispatched => verdict[h][Play[i]] # "none"
  BY <1>1, Resting
<1>3. /\ UNCHANGED <<cur, stack, slot, res, cells, pending, failedVar, dead, verdict, taken>>
      /\ UNCHANGED <<play, at, failure, joined, outcome>>
      /\ Finish(h, failure[h])
  BY DEF EndOfPlay
<1>4. /\ \A i \in DOMAIN Play : verdict[h][Play[i]] = "failed" => failure[h] /\ ~Fatal
      /\ ~(Fatal /\ failure[h]) /\ h \notin joined
  BY <1>1, <1>2 DEF Faults, Over
<1>5. /\ final' = [final EXCEPT ![h] = TRUE] /\ hand' = [hand EXCEPT ![h] = 1]
      /\ ctl' = [ctl EXCEPT ![h] = "flush"] /\ ctl'[h] = "flush" /\ hand'[h] = 1
      /\ final' \in [Hosts -> BOOLEAN] /\ hand' \in [Hosts -> 1 .. Len(HandlerList) + 1]
  <2>1. failure[h] \in BOOLEAN
    BY <1>2 DEF TypeOK
  <2> QED BY <1>2, <1>3, <1>4, <2>1, FinishesLoop
<1>6. TypeOK'
  <2>1. WalkTypeOK'
    BY <1>2, <1>3, <1>5 DEF TypeOK, WalkTypeOK
  <2> QED BY <1>2, <1>3, <1>5, <2>1 DEF TypeOK, Play
<1>7. \A g \in Hosts \ {h} : Still(g)
  BY <1>2, <1>3, <1>5 DEF Still, TypeOK, WalkTypeOK
<1>8. Placed(h)'
  BY <1>2, <1>3, <1>5 DEF Placed, Walking, Outside
<1>9. Ahead(h)' /\ Behind(h)'
  BY <1>2, <1>3 DEF Ahead, Behind, Play, Fresh, Dispatched
<1>10. Faults(h)' /\ Over(h)'
  <2>1. Faults(h)'
    BY <1>3, <1>4 DEF Faults, Play, Fatal, Policy
  <2> QED BY <1>1, <1>3, <1>4, <1>5, <2>1 DEF Over, Play
<1>11. Draining(h)'
  <2>1. pending'[h] \subseteq Coming(1)
    BY <1>2, <1>3, AllComing
  <2> QED BY <1>5, <2>1 DEF Draining, Coming
<1> QED BY <1>3, <1>6, <1>7, <1>8, <1>9, <1>10, <1>11, Bookkeeping

-----------------------------------------------------------------------------
(* Handlers *)

\* A handler that is not pending is passed.
LEMMA PassesHandler ==
  ASSUME IInv, NEW h \in Hosts, Drain(h), HandlerList[hand[h]] \notin pending[h]
  PROVE  IInv'
<1>1. ctl[h] = "flush" /\ ctl[h] \notin Walking /\ hand[h] <= Len(HandlerList)
  BY DEF Drain, Walking
<1>2. TypeOK /\ Sound(h) /\ hand[h] \in Nat \ {0} /\ Len(HandlerList) \in Nat
  BY AllComing DEF IInv, TypeOK
<1>3. /\ UNCHANGED <<ctl, cur, stack, slot, res, cells, failedVar, dead, taken, pending, verdict>>
      /\ UNCHANGED <<play, at, failure, final, joined, outcome>>
      /\ hand' = [hand EXCEPT ![h] = @ + 1]
  BY DEF Drain
<1>4. hand'[h] = hand[h] + 1
  BY <1>2, <1>3 DEF TypeOK
<1>5. TypeOK'
  <2>1. WalkTypeOK'
    BY <1>2, <1>3 DEF TypeOK, WalkTypeOK
  <2>2. hand[h] + 1 \in 1 .. Len(HandlerList) + 1
    BY <1>1, <1>2
  <2> QED BY <1>2, <1>3, <2>1, <2>2 DEF TypeOK, Play
<1>6. \A g \in Hosts \ {h} : Still(g)
  BY <1>2, <1>3 DEF Still, TypeOK
<1>7. Placed(h)' /\ Ahead(h)' /\ Behind(h)'
  BY <1>1, <1>2, <1>3 DEF Sound, Placed, Outside, Walking, Ahead, Behind, Play, Fresh, Dispatched
<1>8. Faults(h)' /\ Over(h)'
  BY <1>2, <1>3 DEF Sound, Faults, Over, Play, Fatal, Policy
<1>9. Draining(h)'
  <2>1. ~failure[h] => pending[h] \subseteq Coming(hand[h]) \cup Belated(verdict[h])
    BY <1>1, <1>2 DEF Sound, Draining
  <2>2. Coming(hand[h]) \ {HandlerList[hand[h]]} \subseteq Coming(hand[h] + 1)
    BY <1>1, <1>2, AllComing
  <2>3. ~failure[h] => pending[h] \subseteq Coming(hand[h] + 1) \cup Belated(verdict[h])
    BY <2>1, <2>2
  <2> QED BY <1>1, <1>3, <1>4, <2>3 DEF Draining, Coming
<1> QED BY <1>3, <1>5, <1>6, <1>7, <1>8, <1>9, Bookkeeping

\* A handler that is pending runs, with no trace in what the play has done so far.
LEMMA RunsHandler ==
  ASSUME IInv, NEW h \in Hosts, Drain(h), HandlerList[hand[h]] \in pending[h]
  PROVE  IInv'
<1>1. ctl[h] = "flush" /\ ctl[h] \notin Walking /\ hand[h] <= Len(HandlerList)
  BY DEF Drain, Walking
<1>2. /\ TypeOK /\ Sound(h) /\ play \in Plays /\ hand[h] \in Nat \ {0} /\ Len(HandlerList) \in Nat
      /\ failure[h] \in BOOLEAN
  BY AllComing DEF IInv, TypeOK
<1>3. PICK n \in Tasks \cap Handlers : /\ n = HandlerList[hand[h]] /\ Root(n)
                                       /\ Kind[n] = "leaf"
  BY <1>1, <1>2, Alone
<1>24. PICK b \in BodyOn(h, n) : \E told \in Tells(n, b) :
        /\ pending' = [pending EXCEPT ![h] = (@ \cup told) \ {n}]
        /\ res' = [res EXCEPT ![h] = BodyResult(n, b)]
        /\ verdict' = [verdict EXCEPT ![h][n] = Verdict(BodyResult(n, b))]
        /\ failure' = [failure EXCEPT ![h] = @ \/ BodyResult(n, b).out = "failed"]
        /\ hand' = [hand EXCEPT ![h] = IF BodyResult(n, b).alive THEN @ + 1 ELSE Len(HandlerList) + 1]
  BY <1>3 DEF Drain
<1>4. PICK told \in Tells(n, b) :
        /\ pending' = [pending EXCEPT ![h] = (@ \cup told) \ {n}]
        /\ res' = [res EXCEPT ![h] = BodyResult(n, b)]
        /\ verdict' = [verdict EXCEPT ![h][n] = Verdict(BodyResult(n, b))]
        /\ failure' = [failure EXCEPT ![h] = @ \/ BodyResult(n, b).out = "failed"]
        /\ hand' = [hand EXCEPT ![h] = IF BodyResult(n, b).alive THEN @ + 1 ELSE Len(HandlerList) + 1]
  BY <1>24
<1>5. /\ UNCHANGED <<ctl, cur, stack, slot, cells, failedVar, dead, taken>>
      /\ UNCHANGED <<play, at, final, joined, outcome>>
  BY DEF Drain
<1>6. b \in Bodies /\ BodyResult(n, b) \in Results
  BY <1>3, <1>4, BodiesOf, BodyEnds
<1>7. PICK e \in Endings : e = Verdict(BodyResult(n, b))
  BY <1>6, EndingOf DEF Results
<1>8. PICK f \in BOOLEAN : failure' = [failure EXCEPT ![h] = f] /\ (f <=> failure[h] \/ BodyResult(n, b).out = "failed")
  BY <1>2, <1>4
<1>22. PICK r \in Results : r = BodyResult(n, b)
  BY <1>6
<1>23. told \subseteq Notify[n] /\ (told # {} => n \in Composite)
  <2>1. told \subseteq Notify[n] /\ (n \notin Composite => Notify[n] = {})
    BY <1>3, <1>4, <1>6, TellsWhom, HandlerAssumption
  <2> QED BY <2>1
<1>9. /\ pending'[h] = (pending[h] \cup told) \ {n}
      /\ verdict' = [verdict EXCEPT ![h][n] = e] /\ verdict'[h][n] = e
      /\ \A u \in Tasks : u # n => verdict'[h][u] = verdict[h][u]
      /\ failure'[h] = f /\ e # "none" /\ res' = [res EXCEPT ![h] = r] /\ res'[h] = r
      /\ hand'[h] = (IF r.alive THEN hand[h] + 1 ELSE Len(HandlerList) + 1)
      /\ hand' = [hand EXCEPT ![h] = IF r.alive THEN @ + 1 ELSE Len(HandlerList) + 1]
  BY <1>2, <1>3, <1>4, <1>7, <1>8, <1>22 DEF TypeOK, WalkTypeOK, Endings
<1>10. TypeOK'
  <2>1. pending' \in [Hosts -> SUBSET Handlers]
    <3>1. pending \in [Hosts -> SUBSET Handlers] /\ Notify[n] \subseteq Handlers
      BY <1>2, TreeAssumption DEF TypeOK, WalkTypeOK
    <3>2. (pending[h] \cup told) \ {n} \subseteq Handlers
      BY <1>23, <3>1
    <3> QED BY <1>4, <3>1, <3>2
  <2>6. res' \in [Hosts -> [out : {"none", "ok", "skipped", "failed"}, changed : BOOLEAN, alive : BOOLEAN]]
    BY <1>2, <1>9 DEF TypeOK, WalkTypeOK, Results, Outs
  <2>2. verdict' \in [Hosts -> [Tasks -> {"none", "ok", "changed", "skipped", "failed"}]]
    BY <1>2, <1>9 DEF TypeOK, WalkTypeOK, Endings
  <2>3. WalkTypeOK'
    BY <1>2, <1>5, <2>1, <2>2, <2>6 DEF TypeOK, WalkTypeOK
  <2>4. Len(HandlerList) + 1 \in 1 .. Len(HandlerList) + 1 /\ hand[h] + 1 \in 1 .. Len(HandlerList) + 1
    BY <1>1, <1>2
  <2>5. hand' \in [Hosts -> 1 .. Len(HandlerList) + 1]
    BY <1>2, <1>9, <2>4 DEF TypeOK
  <2> QED BY <1>2, <1>5, <1>8, <2>3, <2>5 DEF TypeOK, Play
<1>11. \A g \in Hosts \ {h} : Still(g)
  BY <1>2, <1>4, <1>5 DEF Still, TypeOK, WalkTypeOK
<1>12. \A i \in DOMAIN Play : \A u \in Subtree(Play[i]) : verdict'[h][u] = verdict[h][u]
  <2>1. SUFFICES ASSUME NEW i \in DOMAIN Play, NEW u \in Subtree(Play[i])
                 PROVE  verdict'[h][u] = verdict[h][u]
    OBVIOUS
  <2>2. u \in Tasks /\ u \notin Handlers
    BY <1>2, Separate DEF Subtree
  <2> QED BY <1>3, <1>9, <2>2
<1>13. \A i \in DOMAIN Play : Play[i] \in Subtree(Play[i]) /\ verdict'[h][Play[i]] = verdict[h][Play[i]]
  BY <1>2, <1>12, Separate
<1>14. Play' = Play /\ Dispatched' = Dispatched /\ Fatal' = Fatal /\ at' = at /\ ctl' = ctl
  BY <1>5 DEF Play, Dispatched, Fatal, Policy
<1>15. Placed(h)'
  <2>1. \A c \in OpenBlocks : Disciplined(verdict'[h], c)
    <3>1. \A c \in OpenBlocks : Disciplined(verdict[h], c)
      BY <1>1, Resting
    <3>2. \A u \in Tasks : u # n => verdict'[h][u] = verdict[h][u]
      BY <1>9
    <3>3. Root(n)
      BY <1>3
    <3> QED BY <3>1, <3>2, <3>3, NobodysChild
  <2> QED BY <1>1, <1>2, <1>5, <2>1 DEF Sound, Placed, Outside, Walking
<1>16. Reasons(h)'
  <2>1. Traced(h)'
    BY <1>2, <1>5, <1>9 DEF Sound, Reasons, Traced
  <2>2. ASSUME NEW m \in pending'[h]
        PROVE  \E t \in Tasks : m \in Notify[t] /\ Cause(h, t)'
    <3>1. n \in Composite => Cause(h, n)'
      BY <1>9 DEF Cause
    <3>2. CASE m \notin pending[h]
      BY <1>9, <1>23, <2>2, <3>1, <3>2
    <3>3. CASE m \in pending[h]
      <4>1. PICK t \in Tasks : m \in Notify[t] /\ Cause(h, t)
        BY <1>2, <3>3 DEF Sound, Reasons
      <4>2. CASE t = n
        <5>1. n \in Composite
          BY <1>3, <4>1, <4>2, HandlerAssumption
        <5> QED BY <3>1, <4>1, <4>2, <5>1
      <4>3. CASE t # n
        <5>1. Cause(h, t)'
          BY <1>5, <1>9, <4>1, <4>3 DEF Cause
        <5> QED BY <4>1, <5>1
      <4> QED BY <4>2, <4>3
    <3> QED BY <3>2, <3>3
  <2> QED BY <2>1, <2>2 DEF Reasons
<1>17. Ahead(h)'
  <2>1. SUFFICES ASSUME NEW i \in DOMAIN Play, i >= at[h] PROVE Fresh(verdict'[h], Play[i])
    BY <1>14 DEF Ahead
  <2> QED BY <1>2, <1>12, <2>1, FreshStays DEF Sound, Ahead
<1>18. Behind(h)'
  BY <1>2, <1>13, <1>14 DEF Sound, Behind
<1>19. Faults(h)'
  BY <1>1, <1>2, <1>8, <1>9, <1>13, <1>14 DEF Sound, Faults
<1>20. Over(h)'
  <2>1. Excused(verdict[h]) => Excused(verdict'[h])
    BY <1>9 DEF Excused
  <2> QED BY <1>1, <1>2, <1>5, <1>8, <1>9, <1>14, <2>1 DEF Sound, Over
<1>21. Draining(h)'
  <2>1. SUFFICES ASSUME ~f
                 PROVE  \/ pending'[h] \subseteq Coming(hand'[h]) \cup Belated(verdict'[h])
                        \/ hand'[h] > Len(HandlerList) /\ ~res'[h].alive
    BY <1>1, <1>9, <1>14 DEF Draining, Coming
  <2>2. CASE ~r.alive
    BY <1>2, <1>9, <2>2
  <2>3. CASE r.alive
    <3>1. pending[h] \subseteq Coming(hand[h]) \cup Belated(verdict[h])
      BY <1>1, <1>2, <1>8, <2>1 DEF Sound, Draining
    <3>2. Coming(hand[h]) \ {n} \subseteq Coming(hand[h] + 1)
      BY <1>1, <1>2, <1>3, AllComing
    <3>3. PICK w : w = verdict'[h]
      OBVIOUS
    <3>4. Belated(verdict[h]) \subseteq Belated(w)
      <4>1. \A u \in Tasks : verdict[h][u] # "none" => w[u] # "none"
        BY <1>9, <3>3
      <4> QED BY <4>1, BelatedStays
    <3>5. told \subseteq Coming(hand[h]) \cup Belated(w)
      <4>1. CASE told = {}
        BY <4>1
      <4>2. CASE told # {}
        <5>1. n \in Composite /\ w[n] # "none"
          BY <1>9, <1>23, <3>3, <4>2
        <5>2. Notify[n] \subseteq Coming(hand[h]) \cup Belated(w)
          BY <1>1, <1>2, <1>3, <5>1, NotifiesOnwards
        <5> QED BY <1>23, <5>2
      <4> QED BY <4>1, <4>2
    <3> QED BY <1>9, <2>3, <3>1, <3>2, <3>3, <3>4, <3>5
  <2> QED BY <2>2, <2>3
<1> QED BY <1>5, <1>10, <1>11, <1>15, <1>16, <1>17, <1>18, <1>19, <1>20, <1>21, Suffices DEF Sound

\* The drain is over.
LEMMA DrainIsOver ==
  ASSUME IInv, NEW h \in Hosts, DrainEnds(h)
  PROVE  IInv'
<1>1. ctl[h] = "flush" /\ ctl[h] \notin Walking /\ hand[h] > Len(HandlerList)
  BY DEF DrainEnds, Walking
<1>2. TypeOK /\ Sound(h) /\ hand[h] \in Nat
  BY DEF IInv, TypeOK
<1>3. /\ UNCHANGED <<cur, stack, slot, res, cells, pending, failedVar, dead, verdict, taken>>
      /\ UNCHANGED <<play, at, failure, hand, final, joined, outcome>>
      /\ \/ ctl' = [ctl EXCEPT ![h] = "done"] /\ (final[h] \/ (failure[h] /\ Fatal))
         \/ ctl' = [ctl EXCEPT ![h] = "idle"] /\ ~(final[h] \/ (failure[h] /\ Fatal))
  BY DEF DrainEnds, playVars
<1>4. \/ ctl'[h] = "done" /\ (final[h] \/ (failure[h] /\ Fatal))
      \/ ctl'[h] = "idle" /\ ~(failure[h] /\ Fatal)
  BY <1>2, <1>3 DEF TypeOK, WalkTypeOK
<1>5. TypeOK'
  <2>1. WalkTypeOK'
    BY <1>2, <1>3 DEF TypeOK, WalkTypeOK
  <2> QED BY <1>2, <1>3, <2>1 DEF TypeOK, Play
<1>6. \A g \in Hosts \ {h} : Still(g)
  BY <1>2, <1>3 DEF Still, TypeOK, WalkTypeOK
<1>7. Placed(h)'
  BY <1>1, <1>2, <1>3, <1>4 DEF Sound, Placed, Outside, Walking
<1>8. Ahead(h)' /\ Behind(h)'
  BY <1>1, <1>2, <1>3 DEF Sound, Ahead, Behind, Play, Fresh, Dispatched
<1>9. Faults(h)' /\ Over(h)'
  <2>1. \A i \in DOMAIN Play : verdict[h][Play[i]] = "failed" => failure[h] /\ ~Fatal
    BY <1>1, <1>2 DEF Sound, Faults
  <2>2. Play' = Play /\ Fatal' = Fatal
    BY <1>3 DEF Play, Fatal, Policy
  <2>3. Faults(h)'
    BY <1>3, <1>4, <2>1, <2>2 DEF Faults
  <2> QED BY <1>1, <1>2, <1>3, <1>4, <2>2, <2>3 DEF Sound, Over
<1>10. Draining(h)'
  <2>1. ~failure[h] => pending[h] \subseteq Belated(verdict[h]) \/ ~res[h].alive
    BY <1>1, <1>2, AllComing DEF Sound, Draining
  <2> QED BY <1>3, <1>4, <2>1 DEF Draining
<1> QED BY <1>3, <1>5, <1>6, <1>7, <1>8, <1>9, <1>10, Bookkeeping

\* The join loop takes a result.
LEMMA JoinsHost ==
  ASSUME IInv, NEW h \in Hosts, Join(h)
  PROVE  IInv'
<1>1. ctl[h] = "done" /\ ctl[h] \notin Walking /\ h \notin joined
  BY DEF Join, Walking
<1>2. TypeOK /\ Sound(h) /\ dead[h] \in BOOLEAN /\ failure[h] \in BOOLEAN /\ outcome[h] \in {"ok", "failed"}
  BY DEF IInv, TypeOK, WalkTypeOK
<1>3. /\ UNCHANGED <<ctl, cur, stack, slot, res, cells, pending, failedVar, verdict, taken>>
      /\ UNCHANGED <<play, at, failure, hand, final>>
      /\ joined' = joined \cup {h}
      /\ outcome' = [outcome EXCEPT ![h] = IF failure[h] THEN "failed" ELSE @]
      /\ dead' = [dead EXCEPT ![h] = @ \/ (failure[h] /\ Fatal)]
  BY DEF Join
<1>4. Fatal \in BOOLEAN
  BY DEF Fatal
<1>5. PICK d \in BOOLEAN : dead' = [dead EXCEPT ![h] = d] /\ (d <=> dead[h] \/ (failure[h] /\ Fatal))
  BY <1>2, <1>3, <1>4
<1>6. PICK o \in {"ok", "failed"} : outcome' = [outcome EXCEPT ![h] = o] /\ (failure[h] => o = "failed")
  BY <1>2, <1>3
<1>7. dead'[h] = d /\ outcome'[h] = o
  BY <1>2, <1>5, <1>6 DEF TypeOK, WalkTypeOK
<1>8. TypeOK'
  <2>1. dead' \in [Hosts -> BOOLEAN] /\ outcome' \in [Hosts -> {"ok", "failed"}]
    BY <1>2, <1>5, <1>6 DEF TypeOK, WalkTypeOK
  <2>2. WalkTypeOK'
    BY <1>2, <1>3, <2>1 DEF TypeOK, WalkTypeOK
  <2> QED BY <1>2, <1>3, <2>1, <2>2 DEF TypeOK, Play
<1>9. \A g \in Hosts \ {h} : Still(g)
  BY <1>2, <1>3, <1>5, <1>6 DEF Still, TypeOK, WalkTypeOK
<1>10. Placed(h)' /\ Ahead(h)' /\ Behind(h)'
  BY <1>1, <1>2, <1>3 DEF Sound, Placed, Outside, Walking, Ahead, Behind, Play, Fresh, Dispatched
<1>11. Faults(h)' /\ Draining(h)'
  BY <1>1, <1>2, <1>3 DEF Sound, Faults, Draining, Play, Fatal, Policy
<1>12. Over(h)'
  <2>1. Play' = Play /\ Fatal' = Fatal
    BY <1>3 DEF Play, Fatal, Policy
  <2> QED BY <1>1, <1>2, <1>3, <1>5, <1>6, <1>7, <2>1 DEF Sound, Over
<1> QED BY <1>3, <1>8, <1>9, <1>10, <1>11, <1>12, Bookkeeping

-----------------------------------------------------------------------------
(* What the strategy promises *)

\* Every step of the play keeps the invariant.
LEMMA Keeps == IInv /\ [Next]_vars => IInv'
<1> SUFFICES ASSUME IInv, [Next]_vars PROVE IInv'
  OBVIOUS
<1>1. CASE \E h \in Hosts : HostStep(h)
  <2>1. PICK h \in Hosts : HostStep(h)
    BY <1>1
  <2>2. CASE Step(h)
    BY <2>2, Walks
  <2>3. CASE PassOver(h) \/ StartTask(h)
    BY <2>3, PassesOver, StartsTask
  <2>4. CASE TaskReturns(h) \/ EndOfPlay(h)
    BY <2>4, TakesResult, EndsPlay
  <2>5. CASE Drain(h)
    BY <2>5, PassesHandler, RunsHandler
  <2>6. CASE DrainEnds(h) \/ Join(h)
    BY <2>6, DrainIsOver, JoinsHost
  <2> QED BY <2>1, <2>2, <2>3, <2>4, <2>5, <2>6 DEF HostStep
<1>2. CASE UNCHANGED vars
  <2>1. /\ UNCHANGED <<ctl, cur, stack, slot, res, cells, pending, failedVar, dead, verdict, taken>>
        /\ UNCHANGED <<play, at, failure, hand, final, joined, outcome>>
    BY <1>2 DEF vars, walkVars, playVars
  <2>2. TypeOK'
    BY <2>1 DEF IInv, TypeOK, WalkTypeOK, Play
  <2>3. \A h \in Hosts : Still(h)
    BY <2>1 DEF Still
  <2>4. \A h \in Hosts : Sound(h)'
    BY <2>1, <2>3, OthersStay DEF IInv
  <2> QED BY <2>2, <2>4 DEF IInv
<1> QED BY <1>1, <1>2 DEF Next

\* The invariant says that a host is left alone after a fatal failure.
LEMMA IsQuiet == IInv => QuietAfterFailure
<1> SUFFICES ASSUME IInv, Policy # "continue", NEW h \in Hosts, NEW i \in DOMAIN Play,
                    verdict[h][Play[i]] = "failed"
             PROVE  /\ \A j \in i + 1 .. Len(Play) : verdict[h][Play[j]] = "none"
                    /\ ctl[h] # "flush"
                    /\ h \in joined => dead[h]
  BY DEF QuietAfterFailure
<1>1. play \in Plays /\ Fatal /\ Sound(h) /\ at[h] \in Nat
  BY Policies DEF IInv, TypeOK
<1>2. i = at[h] - 1 /\ ctl[h] \in {"return", "done"}
  BY <1>1 DEF Sound, Faults
<1>3. ASSUME NEW j \in i + 1 .. Len(Play) PROVE verdict[h][Play[j]] = "none"
  <2>1. i \in Nat /\ i \in 1 .. Len(Play) /\ DOMAIN Play = 1 .. Len(Play) /\ Len(Play) \in Nat
    BY <1>1, Separate
  <2>2. j \in DOMAIN Play /\ j >= at[h]
    BY <1>1, <1>2, <2>1
  <2>3. Play[j] \in Subtree(Play[j])
    BY <1>1, <2>2, Separate
  <2> QED BY <1>1, <2>2, <2>3 DEF Sound, Ahead, Fresh
<1>4. h \in joined => dead[h]
  <2>1. h \in joined => ctl[h] = "done"
    BY <1>1 DEF Sound, Over
  <2>2. ctl[h] = "done" => failure[h]
    BY <1>1 DEF Sound, Faults
  <2> QED BY <1>1, <2>1, <2>2 DEF Sound, Over
<1> QED BY <1>2, <1>3, <1>4

\* And that an outcome of ok has a result of every task behind it.
LEMMA OkIsMeant == IInv => OkMeansVisited
<1> SUFFICES ASSUME IInv, NEW h \in joined, outcome[h] = "ok", ~(dead[h] /\ Excused(verdict[h])),
                    NEW t \in Dispatched
             PROVE  verdict[h][t] \in {"ok", "changed", "skipped"}
  BY DEF OkMeansVisited
<1>1. h \in Hosts /\ TypeOK /\ Sound(h) /\ play \in Plays /\ at[h] \in Nat
  BY DEF IInv, TypeOK
<1>2. ctl[h] = "done" /\ ~failure[h]
  BY <1>1 DEF Sound, Over
<1>3. at[h] > Len(Play)
  BY <1>1, <1>2 DEF Sound, Over
<1>4. PICK i \in DOMAIN Play : t = Play[i]
  BY DEF Dispatched, Range
<1>5. i \in 1 .. Len(Play) /\ Len(Play) \in Nat /\ t \in Tasks
  BY <1>1, <1>4, Separate
<1>6. i < at[h]
  BY <1>1, <1>3, <1>5
<1>7. verdict[h][t] # "none"
  BY <1>1, <1>2, <1>4, <1>6 DEF Sound, Behind, Walking
<1>8. verdict[h][t] # "failed"
  BY <1>1, <1>2, <1>4 DEF Sound, Faults
<1>9. verdict[h][t] \in {"none", "ok", "changed", "skipped", "failed"}
  BY <1>1, <1>5 DEF TypeOK, WalkTypeOK
<1> QED BY <1>7, <1>8, <1>9

\* The invariant of the walkers: a host is in one task of the play at a time, with
\* all before it done and nothing after it begun, and knows of its failures.
THEOREM PlaySound == Spec => []IInv
<1>1. Init => IInv
  BY Begins
<1>2. IInv /\ [Next]_vars => IInv'
  BY Keeps
<1> QED BY <1>1, <1>2, PTL DEF Spec

\* `HostOutcome` tells the truth (`run_play_per_play`), however the walkers of the
\* hosts interleave: ok, and every task came to an end or the host was lost where
\* that is excused; failed under a fatal policy, and it was left alone since.
THEOREM OutcomeIsTrue == Spec => []OutcomeTrue
<1>1. IInv => OutcomeTrue
  BY IsQuiet, OkIsMeant DEF OutcomeTrue, IInv
<1> QED BY <1>1, PlaySound, PTL

\* No handler is pending on a host without a change behind it (`enqueue_notifies`,
\* also for a broadcast), and none is left when it ends the play connected and without
\* a failure (`run_handlers_one_host`), but for those a handler block notified too late.
THEOREM NotifiedPerPlay == Spec => []Notified
<1>1. IInv => PendingJustified
  BY DEF IInv, Sound, Reasons, PendingJustified
<1>2. IInv => NotificationsServed
  BY DEF IInv, Sound, Draining, NotificationsServed
<1> QED BY <1>1, <1>2, PlaySound, PTL DEF Notified

\* block, rescue and always mean what they say on every host
\* (`run_block_on_one_host`), wherever the others are.
THEOREM BlocksMeantPerPlay == Spec => []BlocksMeant
<1>1. IInv => BlocksMeant
  <2>1. SUFFICES ASSUME IInv, NEW h \in Hosts
                 PROVE  Outside(h) \/ \E t \in Tasks : Root(t) /\ Walker(h, t)
    BY MeansBlocks
  <2>2. TypeOK /\ Sound(h)
    BY <2>1 DEF IInv
  <2>3. CASE ctl[h] \in Walking
    BY <2>2, <2>3, AtWork
  <2>4. CASE ctl[h] \notin Walking
    BY <2>2, <2>4 DEF Sound, Placed
  <2> QED BY <2>3, <2>4
<1> QED BY <1>1, PlaySound, PTL

-----------------------------------------------------------------------------
(* Slots and cells                                                         *)
(*                                                                         *)
(* Every walker counts its slots for itself, and still all of them come to  *)
(* the same cell for the same run_once task.                               *)

\* Slot `n` is that of task `i` of the play, or past the last one.
Due(n, i) ==
  /\ Min(play.slots) <= n
  /\ \A j \in DOMAIN Play : IF j < i THEN Play[j] + Size[Play[j]] <= n ELSE n <= Play[j]

\* A host stands at the slot of the next task of the play, except in the last drain.
Lined(h) ==
  /\ ctl[h] \in Walking => ~final[h] /\ Counted(ctl[h], cur[h], stack[h], slot[h])
  /\ ctl[h] = "idle" => ~final[h]
  /\ (ctl[h] = "idle" \/ (ctl[h] = "flush" /\ ~final[h])) => Due(slot[h], at[h])

\* What a cell holds the runner has published for the task that owns the slot, as it
\* ended there; and only that is taken.
Published ==
  \A u \in DOMAIN cells : cells[u] # NoCell =>
    /\ cells[u].task = u /\ Unlooped(u) /\ Runner \in Hosts
    /\ verdict[Runner][u] = Verdict(BodyResult(u, cells[u].body))
TakenWell ==
  \A h \in Hosts, u \in Tasks : taken[h][u] # NoCell =>
    h # Runner /\ u \in DOMAIN cells /\ taken[h][u] = cells[u]

SlotsInv == /\ DOMAIN cells = play.slots /\ Published /\ TakenWell
            /\ \A h \in Hosts : Lined(h)

\* The tasks of a play own its slots.
LEMMA Places ==
  ASSUME play \in Plays, NEW i \in DOMAIN Play
  PROVE  /\ Outermost(Play[i]) /\ Subtree(Play[i]) \subseteq play.slots
         /\ Play[i] \in play.slots /\ Min(play.slots) <= Play[i]
         /\ \A j \in DOMAIN Play : i < j => Play[i] + Size[Play[i]] <= Play[j]
<1>1. Play[i] \in Tasks /\ Root(Play[i]) /\ Play[i] \in Subtree(Play[i]) /\ Play[i] \in Range(Play)
  BY Separate DEF Range
<1>2. Outermost(Play[i])
  <2>1. \A u \in Tasks : Range(Play) \cap (u + 1 .. u + Size[u] - 1) = {}
    BY SlotsAssumption DEF Play
  <2> QED BY <1>1, <2>1 DEF Outermost
<1>3. Subtree(Play[i]) \subseteq play.slots
  <2>1. SUFFICES ASSUME NEW u \in Subtree(Play[i]) PROVE u \in play.slots
    OBVIOUS
  <2>2. PICK t \in Tasks : t = Play[i]
    BY <1>1
  <2>3. t .. t + Size[t] - 1 \subseteq play.slots
    BY <1>1, <2>2, PlayAssumption DEF Play
  <2>4. t \in Nat /\ Size[t] \in Nat /\ u \in Nat /\ t <= u /\ u + Size[u] <= t + Size[t] /\ Size[u] \in Nat \ {0}
    BY <2>2, Numbers DEF Subtree
  <2> QED BY <2>3, <2>4
<1>4. Min(play.slots) <= Play[i]
  BY <1>1, <1>3, FirstSlot
<1> QED BY <1>1, <1>2, <1>3, <1>4, PlayAssumption DEF Play

\* The slot that is due is the task's own,
LEMMA DueOne ==
  ASSUME play \in Plays, NEW i \in DOMAIN Play, NEW n \in Nat, Due(n, i)
  PROVE  n = Play[i]
<1>1. /\ i \in Nat /\ Play[i] \in Nat /\ Play[i] \in play.slots /\ Size[Play[i]] \in Nat \ {0}
      /\ Min(play.slots) \in Nat /\ Min(play.slots) <= n /\ n <= Play[i]
  BY Separate, Places, FirstSlot, Numbers DEF Due
<1>2. n \in play.slots
  <2>1. Min(play.slots) .. Play[i] \subseteq play.slots
    BY <1>1, SlotsAssumption
  <2> QED BY <1>1, <2>1
<1>3. PICK t \in Range(Play) : n \in t .. t + Size[t] - 1
  BY <1>2, SlotsAssumption DEF Play
<1>4. PICK j \in DOMAIN Play : t = Play[j]
  BY DEF Range
<1>5. t \in Nat /\ Size[t] \in Nat /\ j \in Nat
  BY <1>4, Separate, Numbers
<1>6. ~(j < i)
  BY <1>3, <1>4, <1>5 DEF Due
<1>7. n = t
  BY <1>3, <1>4, <1>5, <1>6 DEF Due
<1>8. ~(i < j)
  <2>1. i < j => Play[i] + Size[Play[i]] <= Play[j]
    BY <1>4, Places
  <2> QED BY <1>1, <1>4, <1>7, <2>1
<1> QED BY <1>1, <1>4, <1>5, <1>6, <1>7, <1>8

\* and past the task is the slot of the next.
LEMMA DueNext ==
  ASSUME play \in Plays, NEW i \in DOMAIN Play
  PROVE  Due(Play[i] + Size[Play[i]], i + 1)
<1>1. /\ i \in Nat /\ Play[i] \in Nat /\ Size[Play[i]] \in Nat \ {0}
      /\ Min(play.slots) \in Nat /\ Min(play.slots) <= Play[i]
  BY Separate, Places, FirstSlot, Numbers
<1>2. ASSUME NEW j \in DOMAIN Play
      PROVE  IF j < i + 1 THEN Play[j] + Size[Play[j]] <= Play[i] + Size[Play[i]]
                          ELSE Play[i] + Size[Play[i]] <= Play[j]
  <2>1. j \in Nat /\ Play[j] \in Nat /\ Size[Play[j]] \in Nat
    BY Separate, Numbers
  <2>2. CASE j < i
    BY <1>1, <2>1, <2>2, Places
  <2>3. CASE j = i
    BY <1>1, <2>3
  <2>4. CASE j > i
    BY <1>1, <2>1, <2>4, Places
  <2> QED BY <1>1, <2>1, <2>2, <2>3, <2>4
<1> QED BY <1>1, <1>2 DEF Due

\* Every slot has one value in a walker's step, and cells and broadcasts are written
\* by run_once tasks only.
LEMMA StepsOnSlots ==
  ASSUME NEW h \in Hosts, NEW runner, WalkTypeOK, WalkStep(h, runner)
  PROVE  /\ \A g \in Hosts \ {h} : slot'[g] = slot[g]
         /\ \/ cells' = cells /\ taken' = taken
            \/ h = runner /\ RunOnceRunner(h)
            \/ h # runner /\ RunOnceOther(h)
<1>1. CASE RunLeaf(h) \/ SkipBlock(h) \/ EnterBlock(h) \/ Iterate(h) \/ SkipNext(h) \/ LeaveBlock(h)
  BY <1>1 DEF RunLeaf, SkipBlock, EnterBlock, Iterate, SkipNext, LeaveBlock, WalkTypeOK
<1>2. CASE ChildReturns(h) \/ EndOfList(h) \/ BeginRescue(h) \/ BeginAlways(h) \/ EndIteration(h)
  BY <1>2 DEF ChildReturns, EndOfList, BeginRescue, BeginAlways, EndIteration
<1>3. CASE NextInList(h)
  BY <1>3 DEF NextInList, WalkTypeOK
<1>4. CASE h = runner /\ RunOnceRunner(h)
  BY <1>4 DEF RunOnceRunner, WalkTypeOK
<1>5. CASE h # runner /\ RunOnceOther(h)
  BY <1>5 DEF RunOnceOther, WalkTypeOK
<1> QED BY <1>1, <1>2, <1>3, <1>4, <1>5 DEF WalkStep, BlockStep

\* A step of another host leaves a host where it was lined up.
LEMMA LinedStays ==
  ASSUME NEW g, Lined(g), play' = play, Still(g), slot'[g] = slot[g]
  PROVE  Lined(g)'
BY DEF Lined, Still, Due, Play

\* What has ended in the play has, outside of loops.
Lasts == \A g \in Hosts, u \in play.slots :
           verdict'[g][u] = verdict[g][u] \/ verdict[g][u] = "none" \/ ~Unlooped(u)

\* What is published is a result.
LEMMA PublishedEnded ==
  ASSUME TypeOK, Published, NEW u \in DOMAIN cells, cells[u] # NoCell
  PROVE  verdict[Runner][u] \in Endings
<1>1. cells[u].body \in Bodies
  BY DEF TypeOK, WalkTypeOK, CellType
<1>2. BodyResult(u, cells[u].body) \in Results
  BY <1>1, BodyEnds
<1>3. Verdict(BodyResult(u, cells[u].body)) \in Endings
  BY <1>2, EndingOf DEF Results
<1> QED BY <1>3 DEF Published

\* What is published stays true,
LEMMA CellsLast ==
  ASSUME TypeOK, SlotsInv, play' = play, Lasts, NEW u \in DOMAIN cells, cells[u] # NoCell
  PROVE  /\ cells[u].task = u /\ Unlooped(u) /\ Runner \in Hosts /\ Runner' = Runner
         /\ verdict'[Runner][u] = Verdict(BodyResult(u, cells[u].body))
<1>1. /\ cells[u].task = u /\ Unlooped(u) /\ Runner \in Hosts
      /\ verdict[Runner][u] = Verdict(BodyResult(u, cells[u].body))
  BY DEF SlotsInv, Published
<1>2. verdict[Runner][u] # "none"
  BY PublishedEnded DEF SlotsInv, Endings
<1>3. verdict'[Runner][u] = verdict[Runner][u]
  BY <1>1, <1>2 DEF Lasts, SlotsInv
<1> QED BY <1>1, <1>3 DEF Runner

\* and nothing is if a step leaves the cells alone.
LEMMA Aside ==
  ASSUME TypeOK, SlotsInv, NEW h \in Hosts, play' = play, cells' = cells, taken' = taken, Lasts, Lined(h)',
         \A g \in Hosts \ {h} : Still(g) /\ slot'[g] = slot[g]
  PROVE  SlotsInv'
<1>1. Published'
  BY CellsLast DEF Published
<1>2. TakenWell' /\ DOMAIN cells' = play'.slots
  BY DEF SlotsInv, TakenWell, Runner
<1>3. ASSUME NEW g \in Hosts PROVE Lined(g)'
  BY LinedStays DEF SlotsInv
<1> QED BY <1>1, <1>2, <1>3 DEF SlotsInv

\* A walker stays lined up.
LEMMA LinedWalks ==
  ASSUME Straight, IInv, SlotsInv, NEW h \in Hosts, Step(h)
  PROVE  /\ Lined(h)' /\ Lasts /\ play' = play
         /\ \A g \in Hosts \ {h} : Still(g) /\ slot'[g] = slot[g]
<1>1. /\ TypeOK /\ Sound(h) /\ WalkTypeOK /\ WalkStep(h, Runner) /\ play \in Plays /\ UNCHANGED playVars
      /\ DOMAIN cells = play.slots
  BY DEF IInv, TypeOK, Step, SlotsInv
<1>2. ctl[h] \in Walking
  BY <1>1, IdleStays
<1>3. /\ at[h] - 1 \in DOMAIN Play /\ Task(h) \in Tasks /\ Root(Task(h)) /\ Walker(h, Task(h))
  BY <1>1, <1>2, AtWork
<1>4. Outermost(Task(h)) /\ Subtree(Task(h)) \subseteq DOMAIN cells
  BY <1>1, <1>3, Places DEF Task
<1>5. PICK t \in Tasks : t = Task(h) /\ Root(t) /\ Walker(h, t) /\ Outermost(t) /\ Subtree(t) \subseteq DOMAIN cells
  BY <1>3, <1>4
<1>6. ctl'[h] \in Walking /\ dead' = dead /\ Apart(h) /\ Wrote(h, t)
  <2>1. Moved(h, t)
    BY <1>1, <1>5, WalkerSteps
  <2> QED BY <2>1 DEF Moved
<1>7. ~final[h] /\ Counted(ctl[h], cur[h], stack[h], slot[h])
  BY <1>2 DEF SlotsInv, Lined
<1>8. Counted(ctl'[h], cur'[h], stack'[h], slot'[h])
  BY <1>1, <1>5, <1>7, Counts
<1>9. \A g \in Hosts \ {h} : slot'[g] = slot[g]
  BY <1>1, StepsOnSlots
<1>10. /\ play' = play /\ at' = at /\ failure' = failure /\ hand' = hand /\ final' = final
       /\ joined' = joined /\ outcome' = outcome
  BY <1>1 DEF playVars
<1>11. \A g \in Hosts \ {h} : Still(g)
  BY <1>6, <1>10 DEF Still, Apart
<1>12. Lasts
  <2>1. SUFFICES ASSUME NEW g \in Hosts, NEW u \in play.slots
                 PROVE  verdict'[g][u] = verdict[g][u] \/ verdict[g][u] = "none" \/ ~Unlooped(u)
    BY DEF Lasts
  <2>2. u \in Tasks
    BY <1>1, FirstSlot
  <2> QED BY <1>6, <2>2 DEF Wrote, Apart
<1>13. Lined(h)'
  <2>1. Counted(ctl[h], cur[h], stack[h], slot[h])'
    BY <1>8 DEF Counted, Shared
  <2> QED BY <1>6, <1>7, <1>10, <2>1 DEF Lined, Walking
<1> QED BY <1>9, <1>10, <1>11, <1>12, <1>13

\* A host that comes to a run_once task of the play stands at the task's slot, and
\* has not been there.
LEMMA AtCell ==
  ASSUME Straight, IInv, SlotsInv, NEW h \in Hosts, ctl[h] = "call", Coordinated(h)
  PROVE  /\ slot[h] = cur[h] /\ cur[h] \in DOMAIN cells /\ cur[h] \in Tasks /\ Unlooped(cur[h])
         /\ verdict[h][cur[h]] = "none"
<1>1. /\ TypeOK /\ Sound(h) /\ play \in Plays /\ ctl[h] \in Walking
  BY DEF IInv, TypeOK, Walking
<1>2. /\ at[h] - 1 \in DOMAIN Play /\ Root(Task(h)) /\ Walker(h, Task(h))
  BY <1>1, AtWork
<1>3. Outermost(Task(h))
  BY <1>1, <1>2, Places DEF Task
<1>4. Counted("call", cur[h], stack[h], slot[h])
  BY <1>1 DEF SlotsInv, Lined
<1>5. Shared(stack[h]) /\ cur[h] \in RunOnce /\ slot[h] \in DOMAIN cells
  BY DEF Coordinated
<1>6. slot[h] = cur[h] /\ Entered(stack[h])
  BY <1>4, <1>5 DEF Counted
<1>7. cur[h] \notin Looped
  BY <1>5, TreeAssumption
<1>8. Standing("call", cur[h], stack[h], res[h], verdict[h], failedVar[h], Task(h))
  BY <1>2 DEF Walker
<1>9. Control("call", cur[h], stack[h], res[h], verdict[h], Task(h))
  BY <1>8 DEF Standing
<1>10. cur[h] \in Tasks /\ Unlooped(cur[h])
  BY <1>3, <1>5, <1>6, <1>7, <1>9, SharedUnlooped
<1>11. verdict[h][cur[h]] = "none"
  BY <1>2, <1>5, <1>8, AtTask
<1> QED BY <1>5, <1>6, <1>10, <1>11

\* The runner publishes where nothing was, and its own.
LEMMA Publishes ==
  ASSUME Straight, IInv, SlotsInv, NEW h \in Hosts, Step(h), h = Runner, RunOnceRunner(h)
  PROVE  SlotsInv'
<1>1. /\ Lined(h)' /\ Lasts /\ play' = play /\ TypeOK
      /\ \A g \in Hosts \ {h} : Still(g) /\ slot'[g] = slot[g]
  BY LinedWalks DEF IInv
<1>2. PICK k : k = cur[h]
  OBVIOUS
<1>3. /\ ctl[h] = "call" /\ slot[h] = k /\ k \in DOMAIN cells /\ k \in Tasks /\ Unlooped(k) /\ verdict[h][k] = "none"
  BY <1>2, AtCell DEF RunOnceRunner
<1>4. cells[k] = NoCell
  <2>1. cells[k] # NoCell => verdict[Runner][k] \in Endings
    BY <1>1, <1>3, PublishedEnded DEF SlotsInv
  <2> QED BY <1>3, <2>1 DEF Endings
<1>5. PICK b \in BodyOn(h, k) :
        /\ verdict' = [verdict EXCEPT ![h][k] = Verdict(BodyResult(k, b))]
        /\ cells' = [cells EXCEPT ![k] = [task |-> k, body |-> b]] /\ taken' = taken
  BY <1>2, <1>3, <1>4 DEF RunOnceRunner, Return
<1>6. /\ DOMAIN cells' = DOMAIN cells /\ cells'[k] = [task |-> k, body |-> b]
      /\ \A u \in DOMAIN cells : u # k => cells'[u] = cells[u]
      /\ verdict'[h][k] = Verdict(BodyResult(k, b))
  BY <1>1, <1>3, <1>5 DEF TypeOK, WalkTypeOK
<1>7. Runner' = Runner
  BY DEF Runner
<1>8. Published'
  <2>1. SUFFICES ASSUME NEW u \in DOMAIN cells, cells'[u] # NoCell
                 PROVE  /\ cells'[u].task = u /\ Unlooped(u) /\ Runner \in Hosts
                        /\ verdict'[Runner][u] = Verdict(BodyResult(u, cells'[u].body))
    BY <1>6, <1>7 DEF Published
  <2>2. CASE u = k
    BY <1>3, <1>6, <2>2
  <2>3. CASE u # k
    BY <1>1, <1>6, <2>1, <2>3, CellsLast
  <2> QED BY <2>2, <2>3
<1>9. TakenWell'
  <2>1. SUFFICES ASSUME NEW g \in Hosts, NEW u \in Tasks, taken[g][u] # NoCell
                 PROVE  g # Runner /\ u \in DOMAIN cells' /\ taken[g][u] = cells'[u]
    BY <1>5, <1>7 DEF TakenWell
  <2>2. g # Runner /\ u \in DOMAIN cells /\ taken[g][u] = cells[u]
    BY <2>1 DEF SlotsInv, TakenWell
  <2> QED BY <1>4, <1>6, <2>1, <2>2
<1>10. ASSUME NEW g \in Hosts PROVE Lined(g)'
  BY <1>1, LinedStays DEF SlotsInv
<1> QED BY <1>1, <1>6, <1>8, <1>9, <1>10 DEF SlotsInv

\* The others take what it published for the task they have come to.
LEMMA Takes ==
  ASSUME Straight, IInv, SlotsInv, NEW h \in Hosts, Step(h), h # Runner, RunOnceOther(h)
  PROVE  SlotsInv'
<1>1. /\ Lined(h)' /\ Lasts /\ play' = play /\ TypeOK
      /\ \A g \in Hosts \ {h} : Still(g) /\ slot'[g] = slot[g]
  BY LinedWalks DEF IInv
<1>2. PICK k : k = cur[h]
  OBVIOUS
<1>3. /\ ctl[h] = "call" /\ slot[h] = k /\ k \in DOMAIN cells /\ k \in Tasks
  BY <1>2, AtCell DEF RunOnceOther
<1>4. cells' = cells /\ taken' = [taken EXCEPT ![h][k] = cells[k]]
  BY <1>2, <1>3 DEF RunOnceOther
<1>5. \A g \in Hosts, u \in Tasks : taken'[g][u] = (IF g = h /\ u = k THEN cells[k] ELSE taken[g][u])
  BY <1>1, <1>3, <1>4 DEF TypeOK, WalkTypeOK
<1>6. Published'
  BY <1>1, <1>4, CellsLast DEF Published
<1>7. TakenWell'
  BY <1>3, <1>4, <1>5 DEF SlotsInv, TakenWell, Runner
<1>8. ASSUME NEW g \in Hosts PROVE Lined(g)'
  BY <1>1, LinedStays DEF SlotsInv
<1> QED BY <1>1, <1>4, <1>6, <1>7, <1>8 DEF SlotsInv

\* A walker's step.
LEMMA WalksLined ==
  ASSUME Straight, IInv, SlotsInv, NEW h \in Hosts, Step(h)
  PROVE  SlotsInv'
<1>1. /\ Lined(h)' /\ Lasts /\ play' = play /\ TypeOK
      /\ \A g \in Hosts \ {h} : Still(g) /\ slot'[g] = slot[g]
  BY LinedWalks DEF IInv
<1>2. WalkTypeOK /\ WalkStep(h, Runner)
  BY DEF IInv, TypeOK, Step
<1>3. CASE cells' = cells /\ taken' = taken
  BY <1>1, <1>3, Aside
<1>4. CASE h = Runner /\ RunOnceRunner(h)
  BY <1>4, Publishes
<1>5. CASE h # Runner /\ RunOnceOther(h)
  BY <1>5, Takes
<1> QED BY <1>2, <1>3, <1>4, <1>5, StepsOnSlots

\* A step outside the walk: what it has to say of the slots.
LEMMA Beside ==
  ASSUME IInv, SlotsInv, NEW h \in Hosts, UNCHANGED <<play, cells, taken, verdict>>, Lined(h)',
         \A g \in Hosts \ {h} : Still(g) /\ slot'[g] = slot[g]
  PROVE  SlotsInv'
<1>1. Lasts
  BY DEF Lasts
<1> QED BY <1>1, Aside DEF IInv

LEMMA PassesLined ==
  ASSUME IInv, SlotsInv, NEW h \in Hosts, PassOver(h) \/ StartTask(h)
  PROVE  SlotsInv'
<1>1. /\ ctl[h] = "idle" /\ at[h] <= Len(Play) /\ UNCHANGED <<play, cells, taken, verdict, stack>>
      /\ UNCHANGED <<res, pending, failedVar, dead, failure, final, joined, outcome>>
      /\ at' = [at EXCEPT ![h] = @ + 1]
      /\ \/ slot' = [slot EXCEPT ![h] = @ + SizeAt(stack[h], @)] /\ cur' = cur
            /\ \/ ctl' = [ctl EXCEPT ![h] = "flush"] /\ hand' = [hand EXCEPT ![h] = 1]
               \/ ctl' = ctl /\ hand' = hand
         \/ slot' = slot /\ ctl' = [ctl EXCEPT ![h] = "call"] /\ cur' = [cur EXCEPT ![h] = Play[at[h]]]
            /\ hand' = hand
  BY DEF PassOver, StartTask
<1>2. /\ TypeOK /\ play \in Plays /\ at[h] \in 1 .. Len(Play) + 1 /\ Len(Play) \in Nat
      /\ DOMAIN Play = 1 .. Len(Play) /\ stack[h] = <<>> /\ ctl[h] \notin Walking
  BY <1>1, Resting DEF Walking
<1>3. at[h] \in DOMAIN Play /\ at[h] \in Nat /\ slot[h] \in Nat
  BY <1>1, <1>2 DEF TypeOK, WalkTypeOK
<1>4. ~final[h] /\ Due(slot[h], at[h])
  BY <1>1 DEF SlotsInv, Lined
<1>5. PICK t : t = Play[at[h]]
  OBVIOUS
<1>6. slot[h] = t
  BY <1>2, <1>3, <1>4, <1>5, DueOne
<1>7. t \in DOMAIN cells /\ at'[h] = at[h] + 1
  BY <1>1, <1>2, <1>3, <1>5, Places DEF SlotsInv, TypeOK
<1>8. SizeAt(stack[h], slot[h]) = Size[t]
  BY <1>2, <1>6, <1>7 DEF SizeAt, Shared
<1>9. Lined(h)'
  <2>1. CASE slot' = [slot EXCEPT ![h] = @ + SizeAt(stack[h], @)] /\ ctl'[h] \in {"idle", "flush"}
    <3>1. slot'[h] = t + Size[t]
      BY <1>2, <1>6, <1>8, <2>1 DEF TypeOK, WalkTypeOK
    <3>2. Due(slot'[h], at'[h])
      BY <1>2, <1>3, <1>5, <1>7, <3>1, DueNext
    <3>3. Due(slot[h], at[h])'
      BY <1>1, <3>2 DEF Due, Play
    <3> QED BY <1>1, <1>4, <2>1, <3>3 DEF Lined, Walking
  <2>2. CASE slot' = slot /\ ctl'[h] = "call" /\ cur'[h] = t
    <3>1. Entered(<<>>)
      BY DEF Entered
    <3>2. Counted("call", t, <<>>, t)
      BY <1>2, <1>3, <1>5, <3>1, Separate, Numbers DEF Counted
    <3>3. Counted(ctl[h], cur[h], stack[h], slot[h])'
      BY <1>1, <1>2, <1>6, <2>2, <3>2 DEF Counted, Shared
    <3> QED BY <1>1, <1>4, <2>2, <3>3 DEF Lined
  <2>3. \/ slot' = [slot EXCEPT ![h] = @ + SizeAt(stack[h], @)] /\ ctl'[h] \in {"idle", "flush"}
        \/ slot' = slot /\ ctl'[h] = "call" /\ cur'[h] = t
    BY <1>1, <1>2, <1>5 DEF TypeOK, WalkTypeOK
  <2> QED BY <2>1, <2>2, <2>3
<1>10. \A g \in Hosts \ {h} : Still(g) /\ slot'[g] = slot[g]
  BY <1>1, <1>2 DEF Still, TypeOK, WalkTypeOK
<1> QED BY <1>1, <1>9, <1>10, Beside

LEMMA ReturnsLined ==
  ASSUME IInv, SlotsInv, NEW h \in Hosts, TaskReturns(h) \/ EndOfPlay(h)
  PROVE  SlotsInv'
<1> DEFINE failed == failure[h] \/ res[h].out = "failed"
<1>1. /\ TypeOK /\ Sound(h) /\ play \in Plays /\ failure[h] \in BOOLEAN
  BY DEF IInv, TypeOK
<1>2. /\ UNCHANGED <<cur, stack, slot, res, cells, pending, failedVar, verdict, taken>>
      /\ UNCHANGED <<play, at, joined, outcome>>
      /\ failure' = failure \/ failure' = [failure EXCEPT ![h] = failed]
      /\ dead' = dead \/ dead' = [dead EXCEPT ![h] = dead'[h]]
      /\ \/ Finish(h, failed) \/ Finish(h, failure[h])
         \/ /\ ctl[h] = "return" /\ stack[h] = <<>>
            /\ ctl' = [ctl EXCEPT ![h] = "idle"] /\ hand' = hand /\ final' = final
  <2>1. CASE TaskReturns(h)
    BY <1>1, <2>1 DEF TaskReturns, TypeOK, WalkTypeOK
  <2>2. CASE EndOfPlay(h)
    BY <2>2 DEF EndOfPlay
  <2> QED BY <2>1, <2>2
<1>3. \/ /\ ctl' = [ctl EXCEPT ![h] = ctl'[h]] /\ ctl'[h] \in {"flush", "done"}
         /\ hand' = [hand EXCEPT ![h] = 1] /\ final' = [final EXCEPT ![h] = TRUE]
      \/ /\ ctl[h] = "return" /\ stack[h] = <<>>
         /\ ctl' = [ctl EXCEPT ![h] = "idle"] /\ hand' = hand /\ final' = final
  <2>1. ASSUME NEW f \in BOOLEAN, Finish(h, f)
        PROVE  /\ ctl' = [ctl EXCEPT ![h] = ctl'[h]] /\ ctl'[h] \in {"flush", "done"}
               /\ hand' = [hand EXCEPT ![h] = 1] /\ final' = [final EXCEPT ![h] = TRUE]
    BY <1>1, <2>1, FinishesLoop
  <2>2. failed \in BOOLEAN
    OBVIOUS
  <2> QED BY <1>1, <1>2, <2>1, <2>2
<1>4. \A g \in Hosts \ {h} : Still(g) /\ slot'[g] = slot[g]
  BY <1>1, <1>2, <1>3 DEF Still, TypeOK, WalkTypeOK
<1>5. Lined(h)'
  <2>1. CASE ctl'[h] \in {"flush", "done"} /\ final' = [final EXCEPT ![h] = TRUE]
    BY <1>1, <2>1 DEF Lined, Walking, TypeOK
  <2>2. CASE /\ ctl[h] = "return" /\ stack[h] = <<>>
             /\ ctl' = [ctl EXCEPT ![h] = "idle"] /\ hand' = hand /\ final' = final
    <3>1. ctl'[h] = "idle" /\ ctl[h] \in Walking
      BY <1>1, <2>2 DEF TypeOK, WalkTypeOK, Walking
    <3>2. /\ at[h] - 1 \in DOMAIN Play /\ at[h] \in Nat /\ Root(Task(h)) /\ Walker(h, Task(h))
      BY <1>1, <3>1, AtWork
    <3>3. cur[h] = Task(h)
      BY <2>2, <3>2, Returned
    <3>4. ~final[h] /\ Counted("return", cur[h], <<>>, slot[h])
      BY <2>2, <3>1 DEF SlotsInv, Lined
    <3>5. slot[h] = cur[h] + Size[cur[h]]
      BY <3>4 DEF Counted, Shared
    <3>6. PICK i \in DOMAIN Play : i = at[h] - 1
      BY <3>2
    <3>7. Due(slot[h], i + 1) /\ i + 1 = at[h]
      BY <1>1, <3>2, <3>3, <3>5, <3>6, DueNext DEF Task
    <3>8. Due(slot[h], at[h])'
      BY <1>2, <3>7 DEF Due, Play
    <3> QED BY <2>2, <3>1, <3>4, <3>8 DEF Lined, Walking
  <2> QED BY <1>3, <2>1, <2>2
<1> QED BY <1>2, <1>4, <1>5, Beside

LEMMA DrainsLined ==
  ASSUME IInv, SlotsInv, NEW h \in Hosts, Drain(h) \/ DrainEnds(h) \/ Join(h)
  PROVE  SlotsInv'
<1>1. TypeOK /\ play \in Plays /\ Lined(h)
  BY DEF IInv, TypeOK, SlotsInv
<1>2. /\ UNCHANGED <<cur, stack, slot, cells, failedVar, taken, play, at, final>>
      /\ \/ ctl' = ctl
         \/ ctl[h] = "flush" /\ ctl' = [ctl EXCEPT ![h] = "done"]
         \/ ctl[h] = "flush" /\ ctl' = [ctl EXCEPT ![h] = "idle"] /\ ~final[h]
  BY DEF Drain, DrainEnds, Join, playVars
<1>3. \A g \in Hosts \ {h} : Still(g) /\ slot'[g] = slot[g]
  <2>1. CASE Drain(h)
    <3>1. CASE HandlerList[hand[h]] \in pending[h]
      BY <1>1, <2>1, <3>1 DEF Drain, Still, TypeOK, WalkTypeOK
    <3>2. CASE HandlerList[hand[h]] \notin pending[h]
      BY <1>1, <2>1, <3>2 DEF Drain, Still, TypeOK, WalkTypeOK
    <3> QED BY <3>1, <3>2
  <2>2. CASE DrainEnds(h)
    BY <1>1, <2>2 DEF DrainEnds, playVars, Still, TypeOK, WalkTypeOK
  <2>3. CASE Join(h)
    BY <1>1, <2>3 DEF Join, Still, TypeOK, WalkTypeOK
  <2> QED BY <2>1, <2>2, <2>3
<1>4. Lined(h)'
  <2>1. Play' = Play /\ (Due(slot[h], at[h]) => Due(slot[h], at[h])')
    BY <1>2 DEF Due, Play
  <2>2. ctl' = ctl => Lined(h)'
    BY <1>1, <1>2, <2>1 DEF Lined
  <2>3. ctl[h] = "flush" /\ ctl' = [ctl EXCEPT ![h] = "done"] => Lined(h)'
    BY <1>1, <1>2 DEF Lined, Walking, TypeOK, WalkTypeOK
  <2>4. ctl[h] = "flush" /\ ctl' = [ctl EXCEPT ![h] = "idle"] /\ ~final[h] => Lined(h)'
    BY <1>1, <1>2, <2>1 DEF Lined, Walking, TypeOK, WalkTypeOK
  <2> QED BY <1>2, <2>2, <2>3, <2>4
<1>5. Lasts
  <2>1. SUFFICES ASSUME NEW g \in Hosts, NEW u \in play.slots PROVE verdict'[g][u] = verdict[g][u]
    BY DEF Lasts
  <2>2. CASE verdict' = verdict
    BY <2>2
  <2>3. CASE Drain(h) /\ HandlerList[hand[h]] \in pending[h]
    <3>1. HandlerList[hand[h]] \in Handlers
      BY <1>1, <2>3 DEF TypeOK, WalkTypeOK
    <3>2. u \in Tasks \ Handlers
      BY <1>1, PlayAssumption
    <3>3. PICK n, e : n = HandlerList[hand[h]] /\ verdict' = [verdict EXCEPT ![h][n] = e]
      BY <2>3 DEF Drain
    <3> QED BY <1>1, <3>1, <3>2, <3>3 DEF TypeOK, WalkTypeOK
  <2>4. verdict' = verdict \/ (Drain(h) /\ HandlerList[hand[h]] \in pending[h])
    BY DEF Drain, DrainEnds, Join
  <2> QED BY <2>2, <2>3, <2>4
<1> QED BY <1>1, <1>2, <1>3, <1>4, <1>5, Aside

\* Every step leaves slots and cells in order,
LEMMA SlotsKept ==
  ASSUME Straight, IInv, SlotsInv, [Next]_vars
  PROVE  SlotsInv'
<1>1. CASE \E h \in Hosts : HostStep(h)
  <2>1. PICK h \in Hosts : HostStep(h)
    BY <1>1
  <2> QED BY <2>1, WalksLined, PassesLined, ReturnsLined, DrainsLined DEF HostStep
<1>2. CASE UNCHANGED vars
  <2>1. /\ UNCHANGED <<ctl, cur, stack, slot, res, cells, pending, failedVar, dead, verdict, taken>>
        /\ UNCHANGED <<play, at, failure, hand, final, joined, outcome>>
    BY <1>2 DEF vars, walkVars, playVars
  <2>2. \A h \in Hosts : Lined(h)'
    BY <2>1, LinedStays DEF SlotsInv, Still
  <2>3. Published' /\ TakenWell' /\ DOMAIN cells' = play'.slots
    BY <2>1 DEF SlotsInv, Published, TakenWell, Runner
  <2> QED BY <2>2, <2>3 DEF SlotsInv
<1> QED BY <1>1, <1>2 DEF Next

\* as they are in the beginning.
LEMMA SlotsBegin ==
  ASSUME Init
  PROVE  SlotsInv
<1>1. /\ ctl = [h \in Hosts |-> "idle"] /\ slot = [h \in Hosts |-> Min(play.slots)]
      /\ cells = [s \in play.slots |-> NoCell] /\ taken = [h \in Hosts |-> [t \in Tasks |-> NoCell]]
      /\ play \in Plays /\ at = [h \in Hosts |-> 1] /\ final = [h \in Hosts |-> FALSE]
  BY DEF Init, WalkInit, Allocate
<1>2. Min(play.slots) \in Nat
  BY <1>1, FirstSlot
<1>3. \A j \in DOMAIN Play : Min(play.slots) <= Play[j] /\ ~(j < 1)
  BY <1>1, Places, Separate
<1>4. ASSUME NEW h \in Hosts PROVE Lined(h)
  BY <1>1, <1>2, <1>3 DEF Lined, Due, Walking
<1> QED BY <1>1, <1>4 DEF SlotsInv, Published, TakenWell

\* What they are in order for.
LEMMA SharesWell == IInv /\ SlotsInv => RunOnceShared
<1> SUFFICES ASSUME IInv, SlotsInv PROVE RunOnceShared
  OBVIOUS
<1>1. SlotAligned
  BY DEF SlotsInv, Lined, Counted, Walking, SlotAligned
<1>2. BroadcastFaithful
  <2>1. SUFFICES ASSUME NEW h \in Hosts, NEW t \in Tasks, taken[h][t] # NoCell
                 PROVE  /\ taken[h][t].task = t
                        /\ \E g \in Hosts : /\ taken[g][t] = NoCell
                                            /\ verdict[g][t] = Verdict(BodyResult(t, taken[h][t].body))
    BY DEF BroadcastFaithful
  <2>2. t \in DOMAIN cells /\ taken[h][t] = cells[t]
    BY <2>1 DEF SlotsInv, TakenWell
  <2>3. /\ cells[t].task = t /\ Runner \in Hosts
        /\ verdict[Runner][t] = Verdict(BodyResult(t, cells[t].body))
    BY <2>1, <2>2 DEF SlotsInv, Published
  <2>4. taken[Runner][t] = NoCell
    BY <2>3 DEF SlotsInv, TakenWell
  <2> QED BY <2>2, <2>3, <2>4
<1> QED BY <1>1, <1>2 DEF RunOnceShared

\* The run_once protocol (`RunOnceCoord`): wherever failures, skips, rescues and lost
\* connections have led the hosts of a play, outside of loops the slot counter of each
\* stands at the slot of the task it dispatches (`run_task_list_on_host` steps over what
\* an early break leaves, `dispatch_one_task` makes up for the rest), and what it takes
\* over was published by the runner for that very task, as it ended there.  Provided
\* that no block has a rescue arm and an always arm: there a host that needs no rescue
\* loses count.
THEOREM SharedPerPlay ==
  ASSUME Straight
  PROVE  Spec => []RunOnceShared
<1>1. Init => SlotsInv
  BY SlotsBegin
<1>2. IInv /\ SlotsInv /\ [Next]_vars => SlotsInv'
  BY SlotsKept
<1> QED BY <1>1, <1>2, PlaySound, SharesWell, PTL DEF Spec
=============================================================================
