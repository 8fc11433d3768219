---------------------------- MODULE PerTask_proofs ----------------------------
(***************************************************************************)
(* per_task keeps its word, for every inventory, every play and whatever    *)
(* its tasks do: the barrier, the halt under `stop`, the agents of the      *)
(* hosts that go on, the exclusion of failed ones; no notification without  *)
(* a change behind it, and none of them lost.                              *)
(*                                                                         *)
(* The loop sends walkers on only when all are back, so that what is ahead  *)
(* of it is new to every host; what a walker may do is WalkerSteps of        *)
(* HostWalk_proofs.                                                        *)
(***************************************************************************)
EXTENDS PerTask, HostWalk_proofs

-----------------------------------------------------------------------------
(* The play *)

\* The tasks of the play are roots of disjoint trees without handlers in them.
LEMMA Separate ==
  ASSUME NEW i \in DOMAIN Play
  PROVE  /\ i \in Nat /\ Play[i] \in Tasks \ Handlers /\ Root(Play[i])
         /\ Play[i] \in Subtree(Play[i]) /\ Subtree(Play[i]) \cap Handlers = {}
         /\ \A j \in DOMAIN Play \ {i} : Subtree(Play[j]) \cap Subtree(Play[i]) = {} /\ Play[j] # Play[i]
<1>1. Play \in Seq(Tasks \ Handlers) /\ DOMAIN Play = 1 .. Len(Play) /\ Len(Play) \in Nat
  BY PlayAssumption, LenProperties
<1>2. \A j \in DOMAIN Play : Play[j] \in Tasks \ Handlers /\ j \in Nat /\ Play[j] \in Range(Play)
  BY <1>1, ElementOfSeq DEF Range
<1>3. Root(Play[i])
  BY <1>2, PlayAssumption DEF Root
<1>4. Play[i] \in Subtree(Play[i])
  BY <1>2, Numbers DEF Subtree
<1>5. ASSUME NEW u \in Subtree(Play[i])
      PROVE  u \notin Handlers
  <2> DEFINE t == Play[i]
  <2>1. (t .. t + Size[t] - 1) \cap Handlers = {}
    BY <1>2, PlayAssumption
  <2>2. t \in Nat /\ Size[t] \in Nat
    BY <1>2, Numbers
  <2> HIDE DEF t
  <2>3. u \in Nat /\ t <= u /\ u + Size[u] <= t + Size[t] /\ Size[u] \in Nat \ {0}
    BY Numbers DEF Subtree, t
  <2>4. u \in t .. t + Size[t] - 1
    BY <2>2, <2>3
  <2> QED BY <2>1, <2>4
<1>6. ASSUME NEW j \in DOMAIN Play, j # i
      PROVE  Subtree(Play[j]) \cap Subtree(Play[i]) = {}
  <2>1. SUFFICES ASSUME NEW u \in Subtree(Play[j]), u \in Subtree(Play[i]) PROVE FALSE
    OBVIOUS
  <2>2. /\ Play[i] \in Nat /\ Size[Play[i]] \in Nat /\ Play[j] \in Nat /\ Size[Play[j]] \in Nat
        /\ u \in Nat /\ Size[u] \in Nat \ {0}
    BY <1>2, Numbers DEF Subtree
  <2>3. Play[i] + Size[Play[i]] <= Play[j] \/ Play[j] + Size[Play[j]] <= Play[i]
    <3>1. i < j \/ j < i
      BY <1>2, <1>6
    <3> QED BY <3>1, PlayAssumption
  <2> QED BY <2>1, <2>2, <2>3 DEF Subtree
<1>7. \A j \in DOMAIN Play : Play[j] \in Subtree(Play[j])
  BY <1>2, Numbers DEF Subtree
<1> QED BY <1>2, <1>3, <1>4, <1>5, <1>6, <1>7

\* A handler is in no block of the play, and run in one step.
LEMMA Alone ==
  ASSUME NEW n \in Nat \ {0}, n <= Len(HandlerList)
  PROVE  /\ HandlerList[n] \in Tasks \cap Handlers /\ Root(HandlerList[n])
         /\ Kind[HandlerList[n]] = "leaf"
<1> DEFINE t == HandlerList[n]
<1>1. /\ HandlerList \in Seq({u \in Tasks : Kind[u] = "leaf"})
      /\ DOMAIN HandlerList = 1 .. Len(HandlerList) /\ Len(HandlerList) \in Nat
  BY TreeAssumption, LenProperties
<1>2. n \in 1 .. Len(HandlerList)
  BY <1>1
<1>3. t \in Tasks /\ Kind[t] = "leaf"
  BY <1>1, <1>2, ElementOfSeq
<1>4. t \in Handlers
  BY <1>1, <1>2 DEF Handlers, Range
<1> QED BY <1>3, <1>4, PlayAssumption, TreeAssumption DEF Root

-----------------------------------------------------------------------------
(* The inductive invariant *)

\* A host that the task or handler was fanned out to.
Away(h) == IF hand = 0 THEN Walker(h, root) ELSE Visiting(h, root) /\ Outside(h)

\* Between fanouts no host walks; in one, those whose result is still to come,
\* and all of them are in the play.
Loop ==
  /\ TypeOK /\ unjoined \subseteq Live
  /\ phase # "fanout" => unjoined = {}
  /\ \A h \in Hosts : IF h \in unjoined THEN Away(h) ELSE ctl[h] = "idle" /\ Outside(h)

\* The loop is fanning out a task of the play.
InTask == phase = "fanout" /\ hand = 0

\* What the loop is at.
Place ==
  /\ phase = "tasks" => hand = 0
  /\ phase = "handlers" => hand # 0
  /\ (hand # 0 /\ at \in DOMAIN Play) => Kind[Play[at]] = "meta"
  /\ InTask => /\ at \in DOMAIN Play /\ root = Play[at]
               /\ Plain(root) /\ root \notin RunOnce /\ Live \subseteq running
  /\ (phase = "fanout" /\ hand # 0) => hand <= Len(HandlerList) /\ root = HandlerList[hand]

\* What is ahead of the loop no host has begun.
Future == \A h \in Hosts : \A i \in DOMAIN Play :
            i > at \/ (i = at /\ ~InTask) => Fresh(verdict[h], Play[i])

\* What is behind it every host in the play has a result for.
Past == \A h \in Live : \A i \in DOMAIN Play :
          i < at /\ Plain(Play[i]) /\ Play[i] \notin RunOnce => verdict[h][Play[i]] # "none"

\* Of the task it is at, exactly the joined hosts' results are known to it.
Present == InTask => \A h \in Hosts :
             /\ h \notin running => verdict[h][root] = "none"
             /\ h \in running \ unjoined =>
                  /\ verdict[h][root] # "none"
                  /\ verdict[h][root] = "failed" => anyFailed

\* Under `stop`, a failure is of the task the loop is at, or was its last.
Halted == policy = "stop" => \A h \in Hosts : \A i \in DOMAIN Play :
            verdict[h][Play[i]] = "failed" =>
              \/ InTask /\ i = at
              \/ phase = "over" /\ at <= i + 1

\* What is pending has a cause, and broadcasts leave a trace.
Reasons == PendingJustified /\ \A h \in Hosts : Traced(h)

\* In a flush only the handlers still to come are pending, and those notified late.
Flushing ==
  /\ (hand # 0 /\ phase \in {"handlers", "fanout"}) =>
       \A h \in Live : pending[h] \subseteq Coming(hand) \cup Belated(verdict[h])
  /\ (hand # 0 /\ phase = "fanout") => \A h \in Live \ running : root \notin pending[h]
  /\ NotificationsServed

IInv == Loop /\ Place /\ Future /\ Past /\ Present /\ Halted /\ LiveHasPool /\ Reasons /\ Flushing

\* A change of host `h` alone leaves the others away or idle.
LEMMA OthersStay ==
  ASSUME Loop, NEW h \in Hosts, Apart(h), root' = root, hand' = hand, NEW g \in Hosts \ {h}
  PROVE  IF g \in unjoined THEN Away(g)' ELSE ctl'[g] = "idle" /\ Outside(g)'
<1>1. /\ ctl'[g] = ctl[g] /\ cur'[g] = cur[g] /\ stack'[g] = stack[g] /\ res'[g] = res[g]
      /\ failedVar'[g] = failedVar[g] /\ verdict'[g] = verdict[g]
  BY DEF Apart
<1>2. Outside(g) => Outside(g)'
  BY <1>1 DEF Outside
<1>3. CASE g \in unjoined
  <2>1. Away(g)
    BY <1>3 DEF Loop
  <2>2. CASE hand = 0
    BY <1>1, <1>3, <2>1, <2>2 DEF Away, Walker
  <2>3. CASE hand # 0
    BY <1>1, <1>2, <1>3, <2>1, <2>3 DEF Away, Visiting
  <2> QED BY <2>2, <2>3
<1>4. CASE g \notin unjoined
  BY <1>1, <1>2, <1>4 DEF Loop
<1> QED BY <1>3, <1>4

\* What holds before the play begins.
LEMMA Begins == Init => IInv
<1> SUFFICES ASSUME Init PROVE IInv
  OBVIOUS
<1>1. /\ ctl = [h \in Hosts |-> "idle"] /\ cur = [h \in Hosts |-> NoTask]
      /\ stack = [h \in Hosts |-> <<>>] /\ slot = [h \in Hosts |-> 0]
      /\ res = [h \in Hosts |-> NoResult] /\ cells = [s \in {} |-> NoCell]
      /\ pending = [h \in Hosts |-> {}] /\ failedVar = [h \in Hosts |-> NoTask]
      /\ dead = [h \in Hosts |-> FALSE]
      /\ verdict = [h \in Hosts |-> [t \in Tasks |-> "none"]]
      /\ taken = [h \in Hosts |-> [t \in Tasks |-> NoCell]]
  BY DEF Init, WalkInit, Allocate
<1>2. /\ policy \in Policies /\ phase = "tasks" /\ at = 1 /\ hand = 0 /\ root = NoTask
      /\ running = {} /\ unjoined = {} /\ anyFailed = FALSE
      /\ outcome = [h \in Hosts |-> "ok"] /\ stopped = FALSE
  BY DEF Init
<1>3. NoCell \in CellType /\ NoResult \in [out : {"none", "ok", "skipped", "failed"}, changed : BOOLEAN, alive : BOOLEAN]
  BY DEF NoCell, NoResult, CellType, Bodies
<1>4. WalkTypeOK
  <2>1. DOMAIN cells \subseteq Tasks /\ cells \in [DOMAIN cells -> CellType]
    BY <1>1
  <2>2. stack \in [Hosts -> Seq(FrameType)] /\ slot \in [Hosts -> Nat]
    BY <1>1
  <2>3. taken \in [Hosts -> [Tasks -> CellType]] /\ res \in [Hosts -> [out : {"none", "ok", "skipped", "failed"}, changed : BOOLEAN, alive : BOOLEAN]]
    BY <1>1, <1>3
  <2> QED BY <1>1, <2>1, <2>2, <2>3 DEF WalkTypeOK
<1>5. TypeOK
  <2>1. 1 \in 1 .. Len(Play) + 1 /\ 0 \in 0 .. Len(HandlerList) + 1
    BY PlayAssumption, AllComing, LenProperties
  <2> QED BY <1>2, <1>4, <2>1 DEF TypeOK
<1>6. \A h \in Hosts : \A t \in Tasks : verdict[h][t] = "none"
  BY <1>1
<1>7. \A h \in Hosts : ctl[h] = "idle" /\ Outside(h)
  <2>1. ASSUME NEW h \in Hosts, NEW b \in OpenBlocks
        PROVE  Disciplined(verdict[h], b)
    <3>1. b \in Tasks /\ \A c \in Range(Arm[b].rescue) : c \in Tasks
      BY Kids DEF OpenBlocks, Arms
    <3> QED BY <1>6, <3>1 DEF Disciplined
  <2> QED BY <1>1, <2>1 DEF Outside
<1>8. Loop
  BY <1>2, <1>5, <1>7 DEF Loop
<1>9. Place /\ Present
  BY <1>2 DEF Place, Present, InTask
<1>10. Future /\ Halted /\ Past
  <2>1. \A i \in DOMAIN Play : i \in Nat \ {0} /\ Play[i] \in Tasks
    BY PlayAssumption, Separate, LenProperties
  <2> QED BY <1>2, <1>6, <2>1 DEF Future, Halted, Past, Fresh, Subtree
<1>11. LiveHasPool /\ Reasons /\ Flushing
  <2>1. \A h \in Hosts : ~dead[h] /\ pending[h] = {}
    BY <1>1
  <2>2. \A h \in Hosts : \A u \in Tasks : taken[h][u] = NoCell
    BY <1>1
  <2> QED BY <1>2, <2>1, <2>2 DEF LiveHasPool, Live, Reasons, PendingJustified, Traced, Flushing, NotificationsServed
<1> QED BY <1>8, <1>9, <1>10, <1>11 DEF IInv

-----------------------------------------------------------------------------
(* Walkers' steps *)

\* What the step of a walker does to the play.
Strides(h) ==
  /\ h \in unjoined /\ WalkTypeOK' /\ Apart(h) /\ dead' = dead /\ Away(h)'
  /\ \A u \in Tasks : verdict[h][u] # "none" => verdict'[h][u] # "none"
  /\ \A i \in DOMAIN Play : (i = at /\ InTask) \/ \A u \in Subtree(Play[i]) : verdict'[h][u] = verdict[h][u]
  /\ Traced(h)' /\ \A u \in (Tasks \ Handlers) \cup Composite : Cause(h, u) => Cause(h, u)'
  /\ \A u \in Tasks \ Handlers : verdict[h][u] = "changed" => verdict'[h][u] = "changed" \/ ~Unlooped(u)
  /\ Excused(verdict[h]) => Excused(verdict'[h])
  /\ \A n \in pending'[h] : n \in pending[h] \/ \E u \in Tasks : n \in Notify[u] /\ Cause(h, u)'
  /\ hand # 0 => \/ pending'[h] = pending[h]
                 \/ /\ root \in Composite /\ verdict'[h][root] # "none"
                    /\ pending'[h] \subseteq pending[h] \cup Notify[root]

\* In the task loop it is a walker in the tree of the task.
LEMMA TaskStrides ==
  ASSUME Loop, Place, hand = 0, NEW h \in Hosts, Traced(h), Step(h)
  PROVE  Strides(h)
<1>1. /\ phase = "fanout" /\ UNCHANGED loopVars /\ WalkStep(h, First(running)) /\ WalkTypeOK
      /\ hand' = hand /\ root' = root
  BY DEF Step, Loop, TypeOK, loopVars
<1>2. InTask /\ at \in DOMAIN Play /\ root = Play[at]
  BY <1>1 DEF InTask, Place
<1>3. Root(root)
  BY <1>2, Separate
<1>4. h \in unjoined /\ Walker(h, root)
  <2>1. ctl[h] # "idle"
    BY <1>1, IdleStays DEF Walking
  <2> QED BY <2>1 DEF Loop, Away
<1>5. PICK t : t = root
  OBVIOUS
<1>6. Moved(h, t)
  BY <1>1, <1>3, <1>4, <1>5, WalkerSteps
<1>7. WalkTypeOK' /\ Apart(h) /\ dead' = dead /\ Wrote(h, t) /\ Told(h) /\ Walker(h, t)'
  BY <1>6 DEF Moved
<1>8. Away(h)'
  <2>1. Standing(ctl'[h], cur'[h], stack'[h], res'[h], verdict'[h], failedVar'[h], root')
    BY <1>1, <1>5, <1>7 DEF Walker
  <2> QED BY <1>1, <2>1 DEF Away, Walker
<1>9. \A u \in Tasks : verdict[h][u] # "none" => verdict'[h][u] # "none"
  BY <1>7 DEF Wrote, Endings
<1>10. \A i \in DOMAIN Play : (i = at /\ InTask) \/ \A u \in Subtree(Play[i]) : verdict'[h][u] = verdict[h][u]
  <2>1. SUFFICES ASSUME NEW i \in DOMAIN Play, i # at, NEW u \in Subtree(Play[i])
                 PROVE  verdict'[h][u] = verdict[h][u]
    BY <1>2
  <2>2. u \notin Subtree(t) /\ u \in Tasks
    BY <1>2, <1>5, <2>1, Separate DEF Subtree
  <2> QED BY <1>7, <2>2 DEF Wrote
<1>11. /\ Traced(h)' /\ \A u \in Tasks : Cause(h, u) => Cause(h, u)'
       /\ Excused(verdict[h]) => Excused(verdict'[h])
  BY <1>7, Lasting
<1>12. \A u \in Tasks : verdict[h][u] = "changed" => verdict'[h][u] = "changed" \/ ~Unlooped(u)
  BY <1>7 DEF Wrote
<1>13. \A n \in pending'[h] : n \in pending[h] \/ \E u \in Tasks : n \in Notify[u] /\ Cause(h, u)'
  BY <1>7 DEF Told
<1> QED BY <1>1, <1>4, <1>7, <1>8, <1>9, <1>10, <1>11, <1>12, <1>13, CompositeTasks DEF Strides

\* In a flush it is a host that runs the handler.
LEMMA HandlerStrides ==
  ASSUME Loop, Place, hand # 0, NEW h \in Hosts, Traced(h), Step(h)
  PROVE  Strides(h)
<1>1. /\ phase = "fanout" /\ UNCHANGED loopVars /\ WalkStep(h, First(running)) /\ WalkTypeOK
      /\ hand' = hand /\ root' = root
  BY DEF Step, Loop, TypeOK, loopVars
<1>2. hand \in Nat \ {0} /\ hand <= Len(HandlerList) /\ root = HandlerList[hand]
  BY <1>1, AllComing DEF Place, Loop, TypeOK
<1>3. PICK n \in Tasks : n = root
  BY <1>2, Alone
<1>4. n \in Handlers /\ Root(n) /\ Kind[n] = "leaf"
  BY <1>2, <1>3, Alone
<1>5. h \in unjoined /\ Visiting(h, n) /\ Outside(h)
  <2>1. ctl[h] # "idle"
    BY <1>1, IdleStays DEF Walking
  <2> QED BY <1>3, <2>1 DEF Loop, Away
<1>6. /\ WalkTypeOK' /\ Apart(h) /\ dead' = dead /\ Visiting(h, n)' /\ ctl'[h] = "return"
      /\ failedVar'[h] = failedVar[h] /\ verdict'[h][n] \in Endings
      /\ \A u \in Tasks : u # n => verdict'[h][u] = verdict[h][u] /\ taken'[h][u] = taken[h][u]
      /\ pending[h] \subseteq pending'[h] /\ pending'[h] \ pending[h] \subseteq Notify[n]
  BY <1>1, <1>4, <1>5, Visits
<1>7. \/ pending'[h] = pending[h]
      \/ n \in Composite /\ verdict'[h][n] # "none" /\ pending'[h] \subseteq pending[h] \cup Notify[n]
  <2>1. CASE n \in Composite
    BY <1>6, <2>1 DEF Endings
  <2>2. CASE n \notin Composite
    <3>1. Notify[n] = {}
      BY <1>4, <2>2, HandlerAssumption
    <3> QED BY <1>6, <3>1
  <2> QED BY <2>1, <2>2
<1>8. Outside(h)'
  <2>1. \A b \in OpenBlocks : Disciplined(verdict[h], b)
    BY <1>5 DEF Outside
  <2>2. \A u \in Tasks : u # n => verdict'[h][u] = verdict[h][u]
    BY <1>6
  <2>3. \A b \in OpenBlocks : Disciplined(verdict'[h], b)
    BY <1>4, <2>1, <2>2, NobodysChild
  <2>4. stack'[h] = <<>> /\ cur'[h] = n
    BY <1>6 DEF Visiting
  <2>5. failedVar'[h] = NoTask
    BY <1>5, <1>6 DEF Outside
  <2> QED BY <1>4, <2>3, <2>4, <2>5 DEF Outside
<1>9. Away(h)'
  <2>1. Visiting(h, n)' <=> Visiting(h, root)'
    BY <1>1, <1>3 DEF Visiting
  <2> QED BY <1>1, <1>6, <1>8, <2>1 DEF Away
<1>10. \A u \in Tasks : verdict[h][u] # "none" => verdict'[h][u] # "none"
  BY <1>6 DEF Endings
<1>11. \A i \in DOMAIN Play : \A u \in Subtree(Play[i]) : verdict'[h][u] = verdict[h][u]
  <2>1. SUFFICES ASSUME NEW i \in DOMAIN Play, NEW u \in Subtree(Play[i])
                 PROVE  verdict'[h][u] = verdict[h][u]
    OBVIOUS
  <2>2. u \notin Handlers /\ u \in Tasks
    BY Separate DEF Subtree
  <2> QED BY <1>4, <1>6, <2>2
<1>12. \A u \in Tasks \ Handlers : verdict'[h][u] = verdict[h][u] /\ taken'[h][u] = taken[h][u]
  BY <1>4, <1>6
<1>13. Traced(h)'
  BY <1>6 DEF Traced, Endings
<1>14. \A u \in (Tasks \ Handlers) \cup Composite : Cause(h, u) => Cause(h, u)'
  <2>1. \A u \in Tasks \ Handlers : Cause(h, u) => Cause(h, u)'
    BY <1>12 DEF Cause
  <2>2. ASSUME NEW u \in Composite, Cause(h, u)
        PROVE  Cause(h, u)'
    <3>1. u \in Tasks
      BY CompositeTasks
    <3>2. CASE u # n
      BY <1>6, <2>2, <3>1, <3>2 DEF Cause
    <3>3. CASE u = n
      BY <1>6, <3>3 DEF Cause, Endings
    <3> QED BY <3>2, <3>3
  <2> QED BY <2>1, <2>2
<1>15. Excused(verdict[h]) => Excused(verdict'[h])
  BY <1>10 DEF Excused
<1>16. \A u \in Tasks \ Handlers : verdict[h][u] = "changed" => verdict'[h][u] = "changed" \/ ~Unlooped(u)
  BY <1>12
<1>17. /\ \A m \in pending'[h] : m \in pending[h] \/ \E u \in Tasks : m \in Notify[u] /\ Cause(h, u)'
       /\ hand # 0 => \/ pending'[h] = pending[h]
                      \/ /\ root \in Composite /\ verdict'[h][root] # "none"
                         /\ pending'[h] \subseteq pending[h] \cup Notify[root]
  <2>1. n \in Composite /\ verdict'[h][n] # "none" => Cause(h, n)'
    BY DEF Cause
  <2> QED BY <1>3, <1>7, <2>1
<1> QED BY <1>5, <1>6, <1>9, <1>10, <1>11, <1>13, <1>14, <1>15, <1>16, <1>17 DEF Strides

\* A walker's step keeps the invariant.
LEMMA Walks ==
  ASSUME IInv, NEW h \in Hosts, Step(h)
  PROVE  IInv'
<1>1. Loop /\ Place /\ Traced(h) /\ PendingJustified
  BY DEF IInv, Reasons
<1>2. Strides(h)
  BY <1>1, TaskStrides, HandlerStrides
<1>3. phase = "fanout" /\ UNCHANGED loopVars /\ Live' = Live /\ InTask' = InTask
  BY DEF Step, loopVars, Live, InTask
<1>4. \A g \in Hosts \ {h} : verdict'[g] = verdict[g] /\ taken'[g] = taken[g] /\ pending'[g] = pending[g]
  BY <1>2 DEF Strides, Apart
<1>5. h \in unjoined
  BY <1>2 DEF Strides
<1>6. Loop'
  <2>1. TypeOK'
    BY <1>1, <1>2, <1>3 DEF Strides, Loop, TypeOK, loopVars
  <2>2. Apart(h) /\ root' = root /\ hand' = hand /\ unjoined' = unjoined /\ Away(h)'
    BY <1>2, <1>3 DEF Strides, loopVars
  <2>3. ASSUME NEW g \in Hosts
        PROVE  IF g \in unjoined' THEN Away(g)' ELSE ctl'[g] = "idle" /\ Outside(g)'
    <3>1. CASE g = h
      BY <1>5, <2>2, <3>1
    <3>2. CASE g # h
      BY <1>1, <2>2, <3>2, OthersStay
    <3> QED BY <3>1, <3>2
  <2>4. unjoined' \subseteq Live' /\ (phase' # "fanout" => unjoined' = {})
    BY <1>1, <1>3 DEF Loop, loopVars
  <2> QED BY <2>1, <2>3, <2>4 DEF Loop
<1>7. Place'
  BY <1>1, <1>3 DEF Place, loopVars, Plain
<1>8. \A g \in Hosts : \A i \in DOMAIN Play : (i = at /\ InTask) \/
        \A u \in Subtree(Play[i]) : verdict'[g][u] = verdict[g][u]
  BY <1>2, <1>4 DEF Strides
<1>9. at' = at /\ at \in Nat /\ root' = root /\ running' = running /\ unjoined' = unjoined
      /\ anyFailed' = anyFailed /\ policy' = policy /\ phase' = phase /\ hand' = hand
  BY <1>1, <1>3 DEF Loop, TypeOK, loopVars
<1>10. Future'
  <2>1. SUFFICES ASSUME NEW g \in Hosts, NEW i \in DOMAIN Play, i > at \/ (i = at /\ ~InTask)
                 PROVE  Fresh(verdict'[g], Play[i])
    BY <1>3, <1>9 DEF Future
  <2>2. ~(i = at /\ InTask)
    BY <1>9, <2>1
  <2>3. Fresh(verdict[g], Play[i])
    BY <2>1 DEF IInv, Future
  <2>4. \A u \in Subtree(Play[i]) : verdict'[g][u] = verdict[g][u]
    BY <1>8, <2>2
  <2> QED BY <2>3, <2>4, FreshStays
<1>11. \A g \in Hosts : \A u \in Tasks : verdict[g][u] # "none" => verdict'[g][u] # "none"
  BY <1>2, <1>4 DEF Strides
<1>12. Past'
  <2>1. SUFFICES ASSUME NEW g \in Live, NEW i \in DOMAIN Play, i < at, Plain(Play[i]), Play[i] \notin RunOnce
                 PROVE  verdict'[g][Play[i]] # "none"
    BY <1>3, <1>9 DEF Past, Plain
  <2>2. verdict[g][Play[i]] # "none" /\ g \in Hosts
    BY <2>1 DEF IInv, Past, Live
  <2> QED BY <1>11, <2>2, Separate
<1>13. Present'
  <2>1. \A g \in Hosts : g # h => verdict'[g][root] = verdict[g][root]
    BY <1>4
  <2>2. h \in running
    BY <1>1, <1>5 DEF Loop, TypeOK
  <2> QED BY <1>3, <1>5, <1>9, <2>1, <2>2 DEF IInv, Present
<1>14. Halted'
  <2>1. SUFFICES ASSUME policy = "stop", NEW g \in Hosts, NEW i \in DOMAIN Play, verdict'[g][Play[i]] = "failed",
                        ~(InTask /\ i = at)
                 PROVE  phase = "over" /\ at <= i + 1
    BY <1>3, <1>9 DEF Halted
  <2>2. verdict[g][Play[i]] = "failed"
    BY <1>8, <2>1, Separate
  <2> QED BY <2>1, <2>2 DEF IInv, Halted
<1>15. LiveHasPool'
  <2>1. \A g \in Hosts : Excused(verdict[g]) => Excused(verdict'[g])
    BY <1>2, <1>4 DEF Strides
  <2>2. dead' = dead /\ Live \subseteq Hosts
    BY <1>2 DEF Strides, Live
  <2> QED BY <1>3, <2>1, <2>2 DEF IInv, LiveHasPool
<1>16. Reasons'
  <2>1. ASSUME NEW g \in Hosts
        PROVE  Traced(g)'
    <3>1. CASE g = h
      BY <1>2, <3>1 DEF Strides
    <3>2. CASE g # h
      BY <1>4, <3>2 DEF IInv, Reasons, Traced
    <3> QED BY <3>1, <3>2
  <2>2. \A g \in Hosts : \A u \in (Tasks \ Handlers) \cup Composite : Cause(g, u) => Cause(g, u)'
    <3>1. \A g \in Hosts \ {h} : \A u : Cause(g, u) => Cause(g, u)'
      BY <1>4 DEF Cause
    <3>2. \A u \in (Tasks \ Handlers) \cup Composite : Cause(h, u) => Cause(h, u)'
      BY <1>2 DEF Strides
    <3> QED BY <3>1, <3>2
  <2>3. \A g \in Hosts : \A u \in Tasks \ Handlers :
          verdict[g][u] = "changed" => verdict'[g][u] = "changed" \/ ~Unlooped(u)
    BY <1>2, <1>4 DEF Strides
  <2>4. ASSUME NEW g \in Hosts, NEW n \in pending'[g]
        PROVE  \E u \in Tasks : n \in Notify[u] /\ (Cause(g, u) \/ CauseElsewhere(u))'
    <3>1. CASE n \in pending[g]
      <4>1. PICK u \in Tasks : n \in Notify[u] /\ (Cause(g, u) \/ CauseElsewhere(u))
        BY <1>1, <3>1 DEF PendingJustified
      <4>2. u \in Tasks \ Handlers \/ (u \in Composite /\ u \notin RunOnce)
        BY <4>1, Notifiers
      <4>3. CASE Cause(g, u)
        BY <2>2, <4>1, <4>2, <4>3
      <4>4. CASE CauseElsewhere(u)
        <5>1. CASE Untold(u)
          BY <4>1, <4>4, <5>1 DEF CauseElsewhere
        <5>2. CASE ~Unlooped(u)
          BY <4>1, <5>2 DEF Cause
        <5>3. CASE ~Untold(u) /\ Unlooped(u)
          <6>1. \E k \in Hosts : verdict'[k][u] = "changed"
            BY <2>3, <4>2, <4>4, <5>3 DEF CauseElsewhere
          <6> QED BY <4>1, <4>4, <6>1 DEF CauseElsewhere
        <5> QED BY <5>1, <5>2, <5>3
      <4> QED BY <4>1, <4>3, <4>4
    <3>2. CASE n \notin pending[g]
      <4>1. g = h
        BY <1>4, <2>4, <3>2
      <4>2. PICK u \in Tasks : n \in Notify[u] /\ Cause(h, u)'
        BY <1>2, <2>4, <3>2, <4>1 DEF Strides
      <4> QED BY <4>1, <4>2
    <3> QED BY <3>1, <3>2
  <2> QED BY <2>1, <2>4 DEF Reasons, PendingJustified
<1>17. Flushing'
  <2>1. ASSUME hand # 0, NEW g \in Live
        PROVE  pending'[g] \subseteq Coming(hand) \cup Belated(verdict'[g])
    <3>1. g \in Hosts /\ pending[g] \subseteq Coming(hand) \cup Belated(verdict[g])
      BY <1>3, <2>1 DEF IInv, Flushing, Live
    <3>2. Belated(verdict[g]) \subseteq Belated(verdict'[g])
      BY <1>11, <3>1, BelatedStays
    <3>3. CASE pending'[g] = pending[g]
      BY <3>1, <3>2, <3>3
    <3>4. CASE pending'[g] # pending[g]
      <4>1. g = h
        BY <1>4, <3>1, <3>4
      <4>2. root \in Composite /\ verdict'[g][root] # "none" /\ pending'[g] \subseteq pending[g] \cup Notify[root]
        BY <1>2, <2>1, <3>4, <4>1 DEF Strides
      <4>3. hand \in Nat \ {0} /\ hand <= Len(HandlerList) /\ root = HandlerList[hand]
        BY <1>1, <1>3, <2>1, AllComing DEF Place, Loop, TypeOK
      <4>4. Notify[root] \subseteq Coming(hand) \cup Belated(verdict'[g])
        <5>1. PICK v : v = verdict'[g]
          OBVIOUS
        <5>2. Notify[root] \subseteq Coming(hand) \cup Belated(v)
          BY <4>2, <4>3, <5>1, NotifiesOnwards
        <5> QED BY <5>1, <5>2
      <4> QED BY <3>1, <3>2, <4>2, <4>4
    <3> QED BY <3>3, <3>4
  <2>2. \A g \in Live \ running : g \in Hosts /\ pending'[g] = pending[g]
    BY <1>1, <1>4, <1>5 DEF Live, Loop, TypeOK
  <2>3. hand # 0 => \A g \in Live : (pending[g] \subseteq Coming(hand) \cup Belated(verdict[g]))'
    BY <1>9, <2>1 DEF Coming
  <2> QED BY <1>3, <1>9, <2>2, <2>3 DEF IInv, Flushing, NotificationsServed
<1> QED BY <1>6, <1>7, <1>10, <1>12, <1>13, <1>14, <1>15, <1>16, <1>17 DEF IInv

-----------------------------------------------------------------------------
(* Results *)

\* A walker, or a host with a handler, that is back.
LEMMA Back ==
  ASSUME Loop, Place, phase = "fanout", NEW h \in unjoined, ctl[h] = "return", stack[h] = <<>>
  PROVE  /\ root \in Tasks /\ verdict[h][root] \in Endings
         /\ verdict[h][root] = "failed" <=> res[h].out = "failed"
         /\ res[h].alive \/ res[h].out = "failed" \/ Excused(verdict[h])
         /\ cur[h] = root /\ failedVar[h] = NoTask
         /\ \A b \in OpenBlocks : Disciplined(verdict[h], b)
<1>1. h \in Hosts /\ Away(h)
  BY DEF Loop, TypeOK
<1>2. CASE hand = 0
  <2>1. Root(root) /\ root \in Tasks
    BY <1>2, Separate DEF Place, InTask
  <2>2. Walker(h, root)
    BY <1>1, <1>2 DEF Away
  <2> QED BY <1>1, <2>1, <2>2, Returned
<1>3. CASE hand # 0
  <2>1. Visiting(h, root) /\ Outside(h)
    BY <1>1, <1>3 DEF Away
  <2>2. hand \in Nat \ {0} /\ hand <= Len(HandlerList) /\ root = HandlerList[hand]
    BY <1>3, AllComing DEF Place, Loop, TypeOK
  <2>3. root \in Tasks
    BY <2>2, Alone
  <2>4. verdict[h][root] = Verdict(res[h]) /\ res[h].out \in Outs
    BY <2>1 DEF Visiting
  <2>5. verdict[h][root] \in Endings /\ (verdict[h][root] = "failed" <=> res[h].out = "failed")
    BY <2>4, EndingOf
  <2> QED BY <2>1, <2>3, <2>5 DEF Visiting, Outside
<1> QED BY <1>2, <1>3

\* The result of a walker is applied.
LEMMA Applies ==
  ASSUME IInv, NEW h \in Hosts, Apply(h)
  PROVE  IInv'
<1>1. /\ phase = "fanout" /\ h \in unjoined /\ ctl[h] = "return" /\ stack[h] = <<>>
      /\ Loop /\ Place /\ WalkTypeOK /\ h \in Live /\ h \in running
  BY DEF IInv, Loop, TypeOK, Apply
<1>2. /\ UNCHANGED <<cur, stack, slot, res, cells, pending, failedVar, verdict, taken,
                     policy, phase, at, hand, root, running, stopped>>
      /\ unjoined' = unjoined \ {h} /\ ctl' = [ctl EXCEPT ![h] = "idle"]
  BY DEF Apply
<1>3. /\ root \in Tasks /\ verdict[h][root] \in Endings
      /\ verdict[h][root] = "failed" <=> res[h].out = "failed"
      /\ res[h].alive \/ res[h].out = "failed" \/ Excused(verdict[h])
      /\ cur[h] = root /\ failedVar[h] = NoTask
      /\ \A b \in OpenBlocks : Disciplined(verdict[h], b)
  BY <1>1, Back
<1>4. /\ outcome' = [outcome EXCEPT ![h] = IF res[h].out = "failed" THEN "failed" ELSE @]
      /\ anyFailed' = (anyFailed \/ res[h].out = "failed")
      /\ dead' = [dead EXCEPT ![h] = @ \/ ~res[h].alive \/ (res[h].out = "failed" /\ Fatal)]
  BY DEF Apply
<1>5. /\ outcome' \in [Hosts -> {"ok", "failed"}] /\ Live' \subseteq Live
      /\ \A g \in Live \ {h} : g \in Live'
      /\ h \in Live' => res[h].out # "failed"
  BY <1>1, <1>4 DEF Loop, TypeOK, Live
<1>6. anyFailed' \in BOOLEAN
  BY <1>1, <1>4 DEF Loop, TypeOK
<1>7. PICK d \in BOOLEAN : d = (dead[h] \/ ~res[h].alive \/ (res[h].out = "failed" /\ Fatal))
  OBVIOUS
<1>8. dead' = [dead EXCEPT ![h] = d] /\ dead \in [Hosts -> BOOLEAN]
  BY <1>1, <1>4, <1>7 DEF WalkTypeOK
<1>9. /\ dead' \in [Hosts -> BOOLEAN] /\ dead'[h] = d
      /\ \A g \in Hosts \ {h} : dead'[g] = dead[g]
  BY <1>8
<1>10. WalkTypeOK'
  <2>1. ctl' \in [Hosts -> {"idle", "call", "iterate", "list", "skip", "armDone",
                            "return", "flush", "handler", "done"}]
    BY <1>1, <1>2 DEF WalkTypeOK
  <2> QED BY <1>1, <1>2, <1>9, <2>1 DEF WalkTypeOK
<1>11. Loop'
  <2>1. TypeOK'
    BY <1>1, <1>2, <1>5, <1>6, <1>10 DEF Loop, TypeOK
  <2>2. ctl'[h] = "idle" /\ h \notin unjoined' /\ \A g \in Hosts \ {h} : ctl'[g] = ctl[g]
    BY <1>1, <1>2 DEF WalkTypeOK
  <2>3. Apart(h)
    BY <1>2, <2>2 DEF Apart
  <2>4. ASSUME NEW g \in Hosts
        PROVE  IF g \in unjoined' THEN Away(g)' ELSE ctl'[g] = "idle" /\ Outside(g)'
    <3>1. CASE g = h
      BY <1>1, <1>2, <1>3, <2>2, <3>1 DEF Outside
    <3>2. CASE g # h
      <4>1. g \in unjoined' <=> g \in unjoined
        BY <1>2, <3>2
      <4> QED BY <1>1, <1>2, <2>3, <3>2, <4>1, OthersStay
    <3> QED BY <3>1, <3>2
  <2>5. unjoined' \subseteq Live' /\ phase' = "fanout"
    BY <1>1, <1>2, <1>5 DEF Loop
  <2> QED BY <2>1, <2>4, <2>5 DEF Loop
<1>12. InTask' = InTask
  BY <1>2 DEF InTask
<1>13. Place'
  BY <1>1, <1>2, <1>5, <1>12 DEF Place, Plain
<1>14. Future' /\ Halted'
  BY <1>2, <1>12 DEF IInv, Future, Halted
<1>15. Past'
  BY <1>2, <1>5 DEF IInv, Past, Plain
<1>16. Present'
  <2>1. /\ anyFailed => anyFailed'
        /\ verdict[h][root] = "failed" => anyFailed'
    BY <1>3, <1>4
  <2>2. verdict[h][root] # "none"
    BY <1>3 DEF Endings
  <2> QED BY <1>1, <1>2, <1>12, <2>1, <2>2 DEF IInv, Present
<1>17. LiveHasPool'
  <2>1. SUFFICES ASSUME NEW g \in Live', dead'[g] PROVE Excused(verdict[g])
    BY <1>2 DEF LiveHasPool
  <2>2. CASE g = h
    <3>1. res[h].out # "failed" /\ d
      BY <1>5, <1>9, <2>1, <2>2
    <3>2. dead[h] \/ ~res[h].alive
      BY <1>7, <3>1
    <3> QED BY <1>1, <1>3, <2>2, <3>1, <3>2 DEF IInv, LiveHasPool
  <2>3. CASE g # h
    <3>1. g \in Live /\ g \in Hosts
      BY <1>5, <2>1 DEF Live
    <3> QED BY <1>9, <2>1, <2>3, <3>1 DEF IInv, LiveHasPool
  <2> QED BY <2>2, <2>3
<1>18. Reasons'
  BY <1>2 DEF IInv, Reasons, PendingJustified, Traced, Cause, CauseElsewhere
<1>19. Flushing'
  BY <1>1, <1>2, <1>5 DEF IInv, Flushing, NotificationsServed
<1> QED BY <1>11, <1>13, <1>14, <1>15, <1>16, <1>17, <1>18, <1>19 DEF IInv

-----------------------------------------------------------------------------
(* Fanouts *)

\* A fanout sends every host it is for, and only hosts in the play.
LEMMA FansOut ==
  ASSUME IInv, phase # "fanout", NEW t \in Tasks, NEW targets, targets \subseteq Live,
         Fanout(t, targets), UNCHANGED policy,
         IF hand = 0 THEN Root(t) /\ \A h \in targets : Fresh(verdict[h], t)
                     ELSE Kind[t] = "leaf"
  PROVE  Loop' /\ LiveHasPool' /\ Reasons'
<1>1. /\ phase' = "fanout" /\ root' = t /\ running' = targets /\ unjoined' = targets
      /\ anyFailed' = FALSE
      /\ UNCHANGED <<stack, res, pending, failedVar, dead, verdict, taken, at, hand, outcome, stopped>>
      /\ ctl' = [h \in Hosts |-> IF h \in targets THEN "call" ELSE ctl[h]]
      /\ cur' = [h \in Hosts |-> IF h \in targets THEN t ELSE cur[h]]
      /\ slot' = [h \in Hosts |-> IF h \in targets THEN t ELSE slot[h]]
      /\ cells' = [s \in t .. t + Size[t] - 1 |-> NoCell]
  BY DEF Fanout, Allocate
<1>2. /\ TypeOK /\ WalkTypeOK /\ unjoined = {}
      /\ \A h \in Hosts : ctl[h] = "idle" /\ Outside(h)
  BY DEF IInv, Loop, TypeOK
<1>3. WalkTypeOK'
  <2>1. DOMAIN cells' \subseteq Tasks
    <3>1. NTasks \in Nat /\ t \in Nat /\ Size[t] \in Nat /\ t + Size[t] <= NTasks
      BY TreeAssumption, PreOrderAssumption, Numbers
    <3> QED BY <1>1, <3>1 DEF Tasks
  <2>2. NoCell \in CellType
    BY DEF NoCell, CellType, Bodies
  <2>3. cells' \in [DOMAIN cells' -> CellType]
    BY <1>1, <2>2
  <2>4. ctl' \in [Hosts -> {"idle", "call", "iterate", "list", "skip", "armDone",
                            "return", "flush", "handler", "done"}]
    BY <1>1, <1>2 DEF WalkTypeOK
  <2>5. cur' \in [Hosts -> Tasks \cup {NoTask}]
    BY <1>1, <1>2 DEF WalkTypeOK
  <2>6. slot' \in [Hosts -> Nat]
    <3>1. t \in Nat
      BY Numbers
    <3> QED BY <1>1, <1>2, <3>1 DEF WalkTypeOK
  <2> QED BY <1>1, <1>2, <2>1, <2>3, <2>4, <2>5, <2>6 DEF WalkTypeOK
<1>4. ASSUME NEW h \in Hosts
      PROVE  IF h \in unjoined' THEN Away(h)' ELSE ctl'[h] = "idle" /\ Outside(h)'
  <2>1. Outside(h) /\ ctl[h] = "idle"
    BY <1>2
  <2>2. stack'[h] = <<>> /\ failedVar'[h] = NoTask /\ \A b \in OpenBlocks : Disciplined(verdict[h], b)
    BY <1>1, <2>1 DEF Outside
  <2>3. CASE h \notin targets
    BY <1>1, <2>1, <2>3 DEF Outside
  <2>4. CASE h \in targets
    <3>1. ctl'[h] = "call" /\ cur'[h] = t /\ root' = t /\ hand' = hand /\ verdict' = verdict /\ h \in unjoined'
      BY <1>1, <2>4
    <3>2. CASE hand = 0
      <4>1. Root(t) /\ Fresh(verdict[h], t)
        BY <2>4, <3>2
      <4>2. PICK r : r = res'[h]
        OBVIOUS
      <4>3. PICK v : v = verdict[h]
        OBVIOUS
      <4>4. Standing("call", t, <<>>, r, v, NoTask, t)
        BY <2>2, <4>1, <4>3, Sent
      <4>5. Walker(h, t)'
        BY <2>2, <3>1, <4>2, <4>3, <4>4 DEF Walker
      <4>6. Walker(h, root)'
        BY <2>2, <3>1, <4>5 DEF Walker
      <4> QED BY <3>1, <3>2, <4>6 DEF Away
    <3>3. CASE hand # 0
      <4>1. Visiting(h, root)' /\ Outside(h)'
        BY <2>2, <3>1 DEF Visiting, Outside
      <4> QED BY <3>1, <3>3, <4>1 DEF Away
    <3> QED BY <3>2, <3>3
  <2> QED BY <2>3, <2>4
<1>5. Live' = Live /\ Live \subseteq Hosts
  BY <1>1 DEF Live
<1>6. TypeOK'
  BY <1>1, <1>2, <1>3, <1>5 DEF TypeOK
<1>7. Loop'
  <2>1. unjoined' \subseteq Live' /\ phase' = "fanout"
    BY <1>1, <1>5
  <2> QED BY <1>4, <1>6, <2>1 DEF Loop
<1>8. LiveHasPool'
  BY <1>1, <1>5 DEF IInv, LiveHasPool
<1>9. Reasons'
  BY <1>1 DEF IInv, Reasons, PendingJustified, Traced, Cause, CauseElsewhere
<1> QED BY <1>7, <1>8, <1>9

\* A task of the play is fanned out.
LEMMA TaskFansOut ==
  ASSUME IInv, FanoutTask, UNCHANGED policy
  PROVE  IInv'
<1>1. /\ phase = "tasks" /\ hand = 0 /\ at \in DOMAIN Play /\ at \in Nat
      /\ Plain(Play[at]) /\ Play[at] \notin RunOnce /\ Fanout(Play[at], Live)
  <2>1. phase = "tasks" /\ hand = 0 /\ at \in 1 .. Len(Play) + 1 /\ at <= Len(Play)
    BY DEF FanoutTask, IInv, Loop, TypeOK, Place
  <2>2. at \in DOMAIN Play /\ at \in Nat
    BY <2>1, PlayAssumption, LenProperties
  <2> QED BY <2>1, <2>2 DEF FanoutTask, Current
<1>2. Play[at] \in Tasks /\ Root(Play[at])
  BY <1>1, Separate
<1>3. ~InTask /\ Live \subseteq Hosts
  BY <1>1 DEF InTask, Live
<1>4. \A h \in Hosts : Fresh(verdict[h], Play[at])
  BY <1>1, <1>3 DEF IInv, Future
<1>5. PICK t \in Tasks : t = Play[at]
  BY <1>2
<1>6. Loop' /\ LiveHasPool' /\ Reasons'
  <2>1. IF hand = 0 THEN Root(t) /\ \A h \in Live : Fresh(verdict[h], t) ELSE Kind[t] = "leaf"
    BY <1>1, <1>2, <1>3, <1>4, <1>5
  <2>2. Live \subseteq Live /\ Fanout(t, Live) /\ phase # "fanout"
    BY <1>1, <1>5
  <2> QED BY <2>1, <2>2, FansOut
<1>7. /\ phase' = "fanout" /\ root' = Play[at] /\ running' = Live /\ unjoined' = Live
      /\ UNCHANGED <<verdict, pending, at, hand, outcome, policy>> /\ Live' = Live
  BY <1>1 DEF Fanout, Live
<1>8. InTask'
  BY <1>1, <1>7 DEF InTask
<1>9. Place'
  BY <1>1, <1>7, <1>8 DEF Place, Plain
<1>10. Future'
  BY <1>1, <1>3, <1>7, <1>8 DEF IInv, Future
<1>11. Present'
  <2>1. \A h \in Hosts : verdict[h][Play[at]] = "none"
    BY <1>1, <1>4, Separate DEF Fresh
  <2> QED BY <1>7, <2>1 DEF Present
<1>12. Past'
  BY <1>7 DEF IInv, Past, Plain
<1>13. Halted'
  BY <1>1, <1>3, <1>7 DEF IInv, Halted
<1>14. Flushing'
  BY <1>1, <1>7 DEF Flushing, NotificationsServed
<1> QED BY <1>6, <1>9, <1>10, <1>11, <1>12, <1>13, <1>14 DEF IInv

\* So is a handler.
LEMMA HandlerFansOut ==
  ASSUME IInv, FlushHandler, UNCHANGED policy
  PROVE  IInv'
<1>1. /\ phase = "handlers" /\ hand # 0 /\ hand \in Nat \ {0} /\ hand <= Len(HandlerList)
      /\ Fanout(HandlerList[hand], Interested(HandlerList[hand]))
  BY AllComing DEF FlushHandler, IInv, Loop, TypeOK, Place
<1>2. PICK n \in Tasks : n = HandlerList[hand]
  BY <1>1, Alone
<1>3. Kind[n] = "leaf" /\ Interested(n) \subseteq Live /\ \A h \in Live \ Interested(n) : n \notin pending[h]
  BY <1>1, <1>2, Alone DEF Interested
<1>4. Loop' /\ LiveHasPool' /\ Reasons'
  <2>1. IF hand = 0 THEN Root(n) /\ \A h \in Interested(n) : Fresh(verdict[h], n) ELSE Kind[n] = "leaf"
    BY <1>1, <1>3
  <2>2. Fanout(n, Interested(n)) /\ phase # "fanout"
    BY <1>1, <1>2
  <2> QED BY <1>3, <2>1, <2>2, FansOut
<1>5. /\ phase' = "fanout" /\ root' = n /\ running' = Interested(n)
      /\ UNCHANGED <<verdict, pending, at, hand, outcome, policy>> /\ Live' = Live
  BY <1>1, <1>2 DEF Fanout, Live
<1>6. ~InTask /\ ~InTask'
  BY <1>1, <1>5 DEF InTask
<1>7. Place'
  BY <1>1, <1>2, <1>5, <1>6 DEF IInv, Place, Plain
<1>8. Future' /\ Present'
  BY <1>5, <1>6 DEF IInv, Future, Present
<1>9. Past'
  BY <1>5 DEF IInv, Past, Plain
<1>10. Halted'
  BY <1>1, <1>5, <1>6 DEF IInv, Halted
<1>11. Flushing'
  BY <1>1, <1>3, <1>5 DEF IInv, Flushing, NotificationsServed
<1> QED BY <1>4, <1>7, <1>8, <1>9, <1>10, <1>11 DEF IInv

-----------------------------------------------------------------------------
(* Between fanouts *)

\* A step of the loop itself, with no walker under way.
Rests ==
  /\ unjoined = {} /\ phase' \in {"tasks", "handlers", "over"}
  /\ UNCHANGED <<ctl, cur, stack, slot, res, cells, failedVar, taken, root, running, unjoined, anyFailed, policy>>
  /\ at' \in 1 .. Len(Play) + 1 /\ hand' \in 0 .. Len(HandlerList) + 1 /\ stopped' \in BOOLEAN

LEMMA LoopKept ==
  ASSUME Loop, Rests, pending' \in [Hosts -> SUBSET Handlers], dead' \in [Hosts -> BOOLEAN],
         verdict' \in [Hosts -> [Tasks -> Verdicts]], outcome' \in [Hosts -> {"ok", "failed"}],
         \A h \in Hosts : \A b \in OpenBlocks : Disciplined(verdict'[h], b)
  PROVE  Loop'
<1>1. Verdicts = {"none", "ok", "changed", "skipped", "failed"}
  BY DEF Verdicts, Endings
<1>2. WalkTypeOK'
  BY <1>1 DEF Loop, TypeOK, WalkTypeOK, Rests
<1>3. TypeOK'
  BY <1>2 DEF Loop, TypeOK, Rests
<1>4. \A h \in Hosts : ctl[h] = "idle" /\ Outside(h)
  BY DEF Loop, Rests
<1>5. \A h \in Hosts : h \notin unjoined' /\ ctl'[h] = "idle" /\ Outside(h)'
  BY <1>4 DEF Rests, Outside
<1>6. unjoined' = {}
  BY DEF Rests
<1> QED BY <1>3, <1>5, <1>6 DEF Loop

\* The loop goes on without a fanout: tasks dropped, flushes begun and ended.
LEMMA GoesOn ==
  ASSUME IInv, DropByTags \/ BeginFlush \/ PassHandler \/ EndFlush, UNCHANGED policy
  PROVE  IInv'
<1>1. /\ phase \in {"tasks", "handlers"} /\ unjoined = {} /\ Loop /\ Place /\ TypeOK
      /\ UNCHANGED <<walkVars, root, running, unjoined, anyFailed, outcome, stopped>>
  BY DEF DropByTags, BeginFlush, PassHandler, EndFlush, IInv, Loop
<1>2. /\ phase' \in {"tasks", "handlers", "over"}
      /\ at \in Nat \ {0} /\ hand \in Nat /\ Len(Play) \in Nat /\ DOMAIN Play = 1 .. Len(Play)
      /\ Len(HandlerList) \in Nat /\ at <= Len(Play) + 1 /\ hand <= Len(HandlerList) + 1
      /\ phase = "tasks" => hand = 0
      /\ phase = "handlers" => hand # 0
  BY <1>1, PlayAssumption, AllComing, LenProperties
     DEF DropByTags, BeginFlush, PassHandler, EndFlush, TypeOK, Place
<1>3. at' \in 1 .. Len(Play) + 1 /\ at' >= at
  <2>1. CASE DropByTags
    BY <1>2, <2>1 DEF DropByTags
  <2>2. CASE BeginFlush
    BY <1>2, <2>2 DEF BeginFlush
  <2>3. CASE PassHandler
    BY <1>2, <2>3 DEF PassHandler
  <2>4. CASE EndFlush
    BY <1>2, <2>4 DEF EndFlush
  <2> QED BY <2>1, <2>2, <2>3, <2>4
<1>4. hand' \in 0 .. Len(HandlerList) + 1
  <2>1. CASE DropByTags
    BY <1>2, <2>1 DEF DropByTags
  <2>2. CASE BeginFlush \/ EndFlush
    BY <1>2, <2>2 DEF BeginFlush, EndFlush
  <2>3. CASE PassHandler
    BY <1>2, <2>3 DEF PassHandler
  <2> QED BY <2>1, <2>2, <2>3
<1>5. /\ UNCHANGED <<ctl, cur, stack, slot, res, cells, pending, failedVar, dead, verdict, taken>>
      /\ Live' = Live /\ Live \subseteq Hosts
  BY <1>1 DEF walkVars, Live
<1>6. Loop'
  <2>1. Rests
    BY <1>1, <1>2, <1>3, <1>4, <1>5 DEF Rests, TypeOK
  <2>2. /\ pending' \in [Hosts -> SUBSET Handlers] /\ dead' \in [Hosts -> BOOLEAN]
        /\ verdict' \in [Hosts -> [Tasks -> Verdicts]] /\ outcome' \in [Hosts -> {"ok", "failed"}]
    <3>1. pending' = pending /\ dead' = dead /\ verdict' = verdict /\ outcome' = outcome
      BY <1>1, <1>5
    <3> QED BY <1>1, <3>1 DEF TypeOK, WalkTypeOK, Verdicts, Endings
  <2>3. \A h \in Hosts : \A b \in OpenBlocks : Disciplined(verdict'[h], b)
    <3>1. \A h \in Hosts : Outside(h)
      BY <1>1 DEF Loop
    <3> QED BY <1>5, <3>1 DEF Outside
  <2> QED BY <1>1, <2>1, <2>2, <2>3, LoopKept
<1>7. ~InTask /\ ~InTask'
  BY <1>1, <1>2 DEF InTask
<1>8. Place'
  <2>1. CASE DropByTags
    BY <1>1, <1>2, <1>7, <2>1 DEF DropByTags, Place
  <2>2. CASE BeginFlush
    BY <1>2, <1>7, <2>2 DEF BeginFlush, Place, Current
  <2>3. CASE PassHandler
    BY <1>1, <1>2, <1>7, <2>3 DEF PassHandler, Place
  <2>4. CASE EndFlush
    BY <1>2, <1>7, <2>4 DEF EndFlush, Place
  <2> QED BY <2>1, <2>2, <2>3, <2>4
<1>9. Future'
  <2>1. \A i \in DOMAIN Play : i > at' \/ (i = at' /\ ~InTask') => i > at \/ (i = at /\ ~InTask)
    BY <1>2, <1>3, <1>7
  <2> QED BY <1>5, <2>1 DEF IInv, Future
<1>10. Past'
  <2>1. SUFFICES ASSUME NEW h \in Live, NEW i \in DOMAIN Play, i < at',
                        Plain(Play[i]), Play[i] \notin RunOnce
                 PROVE  verdict[h][Play[i]] # "none"
    BY <1>5 DEF Past, Plain
  <2>2. CASE i < at
    BY <2>1, <2>2 DEF IInv, Past
  <2>3. CASE ~(i < at)
    <3>1. i >= at /\ at <= Len(Play)
      BY <1>2, <2>3
    <3>2. CASE DropByTags
      <4>1. at' = at + 1
        BY <3>2 DEF DropByTags
      <4>2. i = at
        BY <1>2, <2>1, <3>1, <4>1
      <4> QED BY <2>1, <3>2, <4>2 DEF DropByTags, Current, Plain
    <3>3. CASE BeginFlush
      <4>1. at' # at
        BY <1>2, <2>1, <3>1
      <4> QED BY <2>1, <3>3, <4>1 DEF BeginFlush
    <3>4. CASE PassHandler
      BY <1>2, <2>1, <2>3, <3>4 DEF PassHandler
    <3>5. CASE EndFlush
      <4>1. at' = at + 1 /\ hand # 0
        BY <1>2, <3>1, <3>5 DEF EndFlush
      <4>2. i = at
        BY <1>2, <2>1, <3>1, <4>1
      <4> QED BY <1>1, <2>1, <4>1, <4>2 DEF Place, Plain
    <3> QED BY <3>2, <3>3, <3>4, <3>5
  <2> QED BY <2>2, <2>3
<1>11. Present'
  BY <1>7 DEF Present
<1>12. Halted'
  BY <1>1, <1>5, <1>7 DEF IInv, Halted
<1>13. LiveHasPool' /\ Reasons'
  BY <1>5 DEF IInv, LiveHasPool, Reasons, PendingJustified, Traced, Cause, CauseElsewhere
<1>14. Flushing'
  <2>1. CASE DropByTags
    BY <1>2, <2>1 DEF DropByTags, Flushing, NotificationsServed
  <2>2. CASE BeginFlush
    <3>1. hand' = 1 /\ phase' = "handlers"
      BY <2>2 DEF BeginFlush
    <3>2. \A h \in Live : pending[h] \subseteq Coming(1) \cup Belated(verdict[h])
      BY <1>1, <1>5, AllComing DEF TypeOK, WalkTypeOK
    <3> QED BY <1>5, <3>1, <3>2 DEF Flushing, NotificationsServed
  <2>3. CASE PassHandler
    <3>1. phase' = "handlers" /\ hand' = hand + 1 /\ hand \in Nat \ {0} /\ hand <= Len(HandlerList)
          /\ phase = "handlers"
      BY <1>2, <2>3 DEF PassHandler
    <3>2. \A h \in Live : HandlerList[hand] \notin pending[h]
      BY <2>3 DEF PassHandler, Interested
    <3>3. \A h \in Live : pending[h] \subseteq Coming(hand) \cup Belated(verdict[h])
      BY <3>1 DEF IInv, Flushing
    <3>4. Coming(hand) \ {HandlerList[hand]} \subseteq Coming(hand + 1)
      BY <3>1, AllComing
    <3>5. \A h \in Live : pending[h] \subseteq Coming(hand + 1) \cup Belated(verdict[h])
      BY <3>2, <3>3, <3>4
    <3> QED BY <1>5, <3>1, <3>5 DEF Flushing, NotificationsServed
  <2>4. CASE EndFlush
    <3>1. phase = "handlers" /\ hand > Len(HandlerList) /\ hand' = 0 /\ hand # 0
      BY <1>2, <2>4 DEF EndFlush
    <3>2. Coming(hand) = {}
      BY <1>2, <3>1, AllComing
    <3>3. \A h \in Live : pending[h] \subseteq Belated(verdict[h])
      BY <3>1, <3>2 DEF IInv, Flushing
    <3> QED BY <1>5, <3>1, <3>3 DEF Flushing, NotificationsServed
  <2> QED BY <2>1, <2>2, <2>3, <2>4
<1> QED BY <1>6, <1>8, <1>9, <1>10, <1>11, <1>12, <1>13, <1>14 DEF IInv

\* All results are in: the loop goes on, or the play is halted.
LEMMA Joins ==
  ASSUME IInv, Joined, UNCHANGED policy
  PROVE  IInv'
<1>1. /\ phase = "fanout" /\ unjoined = {} /\ Loop /\ Place /\ TypeOK
      /\ stopped' = (anyFailed /\ policy = "stop")
      /\ phase' = IF stopped' THEN "over" ELSE IF hand > 0 THEN "handlers" ELSE "tasks"
      /\ at' = IF hand = 0 THEN at + 1 ELSE at
      /\ hand' = IF hand > 0 THEN hand + 1 ELSE hand
      /\ UNCHANGED <<ctl, cur, stack, slot, res, cells, failedVar, dead, verdict, taken,
                     root, running, unjoined, anyFailed, outcome>>
      /\ pending' = [h \in Hosts |->
           IF hand > 0 /\ h \in running THEN pending[h] \ {root} ELSE pending[h]]
  BY DEF Joined, IInv, Loop
<1>2. hand \in Nat /\ at \in Nat \ {0} /\ Live' = Live /\ Live \subseteq Hosts
      /\ Len(Play) \in Nat /\ DOMAIN Play = 1 .. Len(Play) /\ Len(HandlerList) \in Nat
      /\ at <= Len(Play) + 1 /\ hand <= Len(HandlerList) + 1
  BY <1>1, PlayAssumption, AllComing, LenProperties DEF TypeOK, Live
<1>3. phase' = IF anyFailed /\ policy = "stop" THEN "over" ELSE IF hand > 0 THEN "handlers" ELSE "tasks"
  BY <1>1
<1>4. hand = 0 => InTask /\ at \in DOMAIN Play
  BY <1>1 DEF InTask, Place
<1>5. hand # 0 => hand \in Nat \ {0} /\ hand <= Len(HandlerList) /\ root = HandlerList[hand]
  BY <1>1, <1>2 DEF Place
<1>6. Loop'
  <2>1. at' \in 1 .. Len(Play) + 1 /\ hand' \in 0 .. Len(HandlerList) + 1
    BY <1>1, <1>2, <1>4, <1>5
  <2>2. stopped' \in BOOLEAN /\ phase' \in {"tasks", "handlers", "over"}
    BY <1>1, <1>3
  <2>3. Rests
    BY <1>1, <2>1, <2>2 DEF Rests
  <2>4. pending' \in [Hosts -> SUBSET Handlers]
    BY <1>1 DEF TypeOK, WalkTypeOK
  <2>5. dead' \in [Hosts -> BOOLEAN] /\ verdict' \in [Hosts -> [Tasks -> Verdicts]]
        /\ outcome' \in [Hosts -> {"ok", "failed"}]
    <3>1. dead' = dead /\ verdict' = verdict /\ outcome' = outcome
      BY <1>1
    <3> QED BY <1>1, <3>1 DEF TypeOK, WalkTypeOK, Verdicts, Endings
  <2>6. \A h \in Hosts : \A b \in OpenBlocks : Disciplined(verdict'[h], b)
    <3>1. \A h \in Hosts : Outside(h)
      BY <1>1 DEF Loop
    <3> QED BY <1>1, <3>1 DEF Outside
  <2> QED BY <1>1, <2>3, <2>4, <2>5, <2>6, LoopKept
<1>7. ~InTask' /\ (InTask <=> hand = 0)
  BY <1>1 DEF InTask
<1>8. Place'
  BY <1>1, <1>2, <1>7 DEF Place
<1>9. Present'
  BY <1>7 DEF Present
<1>10. Future'
  <2>1. \A i \in DOMAIN Play : i > at' \/ (i = at' /\ ~InTask') => i > at \/ (i = at /\ ~InTask)
    BY <1>1, <1>2, <1>7
  <2> QED BY <1>1, <2>1 DEF IInv, Future
<1>11. Past'
  <2>1. SUFFICES ASSUME NEW h \in Live, NEW i \in DOMAIN Play, i < at',
                        Plain(Play[i]), Play[i] \notin RunOnce
                 PROVE  verdict[h][Play[i]] # "none"
    BY <1>1, <1>2 DEF Past, Plain
  <2>2. CASE i < at
    BY <2>1, <2>2 DEF IInv, Past
  <2>3. CASE ~(i < at)
    <3>1. hand = 0 /\ i = at
      BY <1>1, <1>2, <2>1, <2>3
    <3>2. h \in running \ unjoined /\ root = Play[at] /\ h \in Hosts
      BY <1>1, <1>2, <1>7, <3>1 DEF Place
    <3> QED BY <1>7, <3>1, <3>2 DEF IInv, Present
  <2> QED BY <2>2, <2>3
<1>12. Halted'
  <2>1. SUFFICES ASSUME policy = "stop", NEW h \in Hosts, NEW i \in DOMAIN Play,
                        verdict[h][Play[i]] = "failed"
                 PROVE  phase' = "over" /\ at' <= i + 1
    BY <1>1 DEF Halted
  <2>2. InTask /\ i = at /\ root = Play[at]
    BY <1>1, <2>1 DEF IInv, Halted, Place
  <2>3. h \in running /\ anyFailed
    BY <1>1, <2>1, <2>2 DEF IInv, Present
  <2>4. phase' = "over" /\ at' = at + 1
    BY <1>1, <1>3, <1>7, <2>1, <2>2, <2>3
  <2> QED BY <1>2, <2>2, <2>4
<1>13. LiveHasPool'
  BY <1>1, <1>2 DEF IInv, LiveHasPool
<1>14. \A h \in Hosts : pending'[h] \subseteq pending[h]
  BY <1>1
<1>15. Reasons'
  <2>1. ASSUME NEW h \in Hosts, NEW n \in pending'[h]
        PROVE  \E t \in Tasks : n \in Notify[t] /\ (Cause(h, t) \/ CauseElsewhere(t))'
    <3>1. n \in pending[h]
      BY <1>14, <2>1
    <3>2. PICK t \in Tasks : n \in Notify[t] /\ (Cause(h, t) \/ CauseElsewhere(t))
      BY <3>1 DEF IInv, Reasons, PendingJustified
    <3> QED BY <1>1, <3>2 DEF Cause, CauseElsewhere
  <2>2. \A h \in Hosts : Traced(h)'
    BY <1>1 DEF IInv, Reasons, Traced
  <2> QED BY <2>1, <2>2 DEF Reasons, PendingJustified
<1>16. Flushing'
  <2>1. CASE hand = 0
    BY <1>1, <1>3, <2>1 DEF Flushing, NotificationsServed
  <2>2. CASE hand # 0
    <3>1. hand > 0 /\ hand' = hand + 1
      BY <1>1, <1>2, <2>2
    <3>2. \A h \in Live : pending[h] \subseteq Coming(hand) \cup Belated(verdict[h])
      BY <1>1, <2>2 DEF IInv, Flushing
    <3>3. \A h \in Live : root \notin pending'[h]
      BY <1>1, <1>2, <2>2, <3>1 DEF IInv, Flushing
    <3>4. Coming(hand) \ {HandlerList[hand]} \subseteq Coming(hand + 1)
      BY <1>5, <2>2, AllComing
    <3>5. \A h \in Live : pending'[h] \subseteq Coming(hand + 1) \cup Belated(verdict[h])
      BY <1>2, <1>5, <1>14, <2>2, <3>2, <3>3, <3>4
    <3> QED BY <1>1, <1>2, <1>3, <3>1, <3>5 DEF Flushing, NotificationsServed
  <2> QED BY <2>1, <2>2
<1> QED BY <1>6, <1>8, <1>9, <1>10, <1>11, <1>12, <1>13, <1>15, <1>16 DEF IInv

\* A run_once task writes the verdict of its runner, and tells the others.
LEMMA RunsOnce ==
  ASSUME IInv, RunOnceTask, UNCHANGED policy
  PROVE  IInv'
<1>1. /\ phase = "tasks" /\ hand = 0 /\ at \in DOMAIN Play /\ at \in Nat \ {0} /\ at <= Len(Play)
      /\ Len(Play) \in Nat /\ Play[at] \in RunOnce /\ First(Live) \in Live /\ unjoined = {} /\ at' = at + 1
      /\ UNCHANGED <<ctl, cur, stack, slot, res, cells, failedVar, taken,
                     hand, root, running, unjoined, anyFailed, policy>>
      /\ Loop /\ TypeOK /\ DOMAIN Play \subseteq Nat
  <2>1. phase = "tasks" /\ hand = 0 /\ at \in 1 .. Len(Play) + 1 /\ at <= Len(Play) /\ unjoined = {}
        /\ Loop /\ TypeOK
    BY DEF RunOnceTask, IInv, Loop, TypeOK, Place
  <2>2. at \in DOMAIN Play /\ at \in Nat \ {0} /\ Len(Play) \in Nat /\ DOMAIN Play \subseteq Nat
    BY <2>1, PlayAssumption, LenProperties
  <2> QED BY <2>1, <2>2 DEF RunOnceTask, Current
<1>2. PICK t \in Tasks : t = Play[at]
  BY <1>1, Separate
<1>3. PICK runner \in Live : runner = First(Live)
  BY <1>1
<1>4. /\ runner \in Hosts /\ t \in RunOnce /\ Root(t) /\ t \in Subtree(t)
      /\ \A h \in Hosts : verdict[h][t] = "none"
  <2>1. runner \in Hosts /\ t \in RunOnce /\ Root(t) /\ t \in Subtree(t)
    BY <1>1, <1>2, <1>3, Separate DEF Live
  <2>2. ~InTask
    BY <1>1 DEF InTask
  <2>3. \A h \in Hosts : Fresh(verdict[h], t)
    BY <1>1, <1>2, <2>2 DEF IInv, Future
  <2> QED BY <2>1, <2>3 DEF Fresh
<1>5. PICK b \in BodyOn(runner, t) :
        /\ verdict' = [verdict EXCEPT ![runner][t] = Verdict(BodyResult(t, b))]
        /\ pending' = [h \in Hosts |->
             IF \/ h = runner /\ b = "changed"
                \/ h \in Live \ {runner} /\ BroadcastNotifies(t, b)
               THEN pending[h] \cup Notify[t] ELSE pending[h]]
        /\ outcome' = [outcome EXCEPT ![runner] = IF BodyResult(t, b).out = "failed" THEN "failed" ELSE @]
        /\ dead' = [dead EXCEPT ![runner] =
             @ \/ ~BodyResult(t, b).alive \/ (BodyResult(t, b).out = "failed" /\ Fatal)]
        /\ stopped' = (BodyResult(t, b).out = "failed" /\ policy = "stop")
        /\ phase' = IF stopped' THEN "over" ELSE phase
  <2>1. PICK b \in BodyOn(First(Live), Play[at]) :
          LET r == BodyResult(Play[at], b)
              failed == r.out = "failed"
          IN /\ verdict' = [verdict EXCEPT ![First(Live)][Play[at]] = Verdict(r)]
             /\ pending' = [h \in Hosts |->
                  IF \/ h = First(Live) /\ b = "changed"
                     \/ h \in Live \ {First(Live)} /\ BroadcastNotifies(Play[at], b)
                    THEN pending[h] \cup Notify[Play[at]] ELSE pending[h]]
             /\ outcome' = [outcome EXCEPT ![First(Live)] = IF failed THEN "failed" ELSE @]
             /\ dead' = [dead EXCEPT ![First(Live)] = @ \/ ~r.alive \/ (failed /\ Fatal)]
             /\ stopped' = (failed /\ policy = "stop")
             /\ phase' = IF stopped' THEN "over" ELSE phase
    BY DEF RunOnceTask, Current
  <2> QED BY <1>2, <1>3, <2>1
<1>6. b \in Bodies /\ (b = "lost" => t \in Composite)
  BY <1>4, BodiesOf
<1>7. PICK r \in Results : r = BodyResult(t, b)
  BY <1>6, BodyEnds
<1>8. /\ verdict' = [verdict EXCEPT ![runner][t] = Verdict(r)]
      /\ outcome' = [outcome EXCEPT ![runner] = IF r.out = "failed" THEN "failed" ELSE @]
      /\ dead' = [dead EXCEPT ![runner] = @ \/ ~r.alive \/ (r.out = "failed" /\ Fatal)]
      /\ stopped' = (r.out = "failed" /\ policy = "stop")
      /\ phase' = IF r.out = "failed" /\ policy = "stop" THEN "over" ELSE "tasks"
  BY <1>1, <1>5, <1>7
<1>9. /\ r.out \in Outs /\ Verdict(r) \in Endings /\ (Verdict(r) = "failed" <=> r.out = "failed")
      /\ r.alive \/ r.out = "failed" \/ Excusable(t)
  <2>1. r.out \in Outs
    BY <1>7 DEF Results
  <2>2. r.alive \/ r.out = "failed" \/ Excusable(t)
    BY <1>6, <1>7, BodyEnds
  <2> QED BY <2>1, <2>2, EndingOf
<1>10. /\ verdict \in [Hosts -> [Tasks -> Verdicts]] /\ dead \in [Hosts -> BOOLEAN]
       /\ outcome \in [Hosts -> {"ok", "failed"}] /\ pending \in [Hosts -> SUBSET Handlers]
  BY <1>1 DEF TypeOK, WalkTypeOK, Verdicts, Endings
<1>11. /\ verdict' \in [Hosts -> [Tasks -> Verdicts]] /\ verdict'[runner][t] = Verdict(r)
       /\ \A h \in Hosts : \A u \in Tasks : u # t \/ h # runner => verdict'[h][u] = verdict[h][u]
  BY <1>4, <1>8, <1>9, <1>10 DEF Verdicts
<1>12. /\ outcome' \in [Hosts -> {"ok", "failed"}] /\ Live' \subseteq Live
       /\ runner \in Live' => r.out # "failed"
  BY <1>4, <1>8, <1>10 DEF Live
<1>13. PICK d \in BOOLEAN : d = (dead[runner] \/ ~r.alive \/ (r.out = "failed" /\ Fatal))
  OBVIOUS
<1>14. /\ dead' \in [Hosts -> BOOLEAN] /\ dead'[runner] = d
       /\ \A h \in Hosts \ {runner} : dead'[h] = dead[h]
  <2>1. dead' = [dead EXCEPT ![runner] = d]
    BY <1>8, <1>13
  <2> QED BY <1>4, <1>10, <2>1
<1>15. pending' \in [Hosts -> SUBSET Handlers]
  <2>1. Notify[t] \subseteq Handlers
    BY TreeAssumption
  <2>2. \A h \in Hosts : pending[h] \subseteq Handlers
    BY <1>10
  <2> QED BY <1>5, <2>1, <2>2
<1>16. Loop'
  <2>1. at' \in 1 .. Len(Play) + 1 /\ hand' \in 0 .. Len(HandlerList) + 1
    BY <1>1, AllComing
  <2>2. stopped' \in BOOLEAN /\ phase' \in {"tasks", "handlers", "over"}
    BY <1>8
  <2>3. Rests
    BY <1>1, <2>1, <2>2 DEF Rests
  <2>4. ASSUME NEW h \in Hosts, NEW c \in OpenBlocks
        PROVE  Disciplined(verdict'[h], c)
    <3>1. \A e \in OpenBlocks : Disciplined(verdict[h], e)
      BY <1>1 DEF Loop, Outside
    <3>2. \A u \in Tasks : u # t => verdict'[h][u] = verdict[h][u]
      BY <1>11
    <3>3. \A e \in OpenBlocks : Disciplined(verdict'[h], e)
      BY <1>4, <3>1, <3>2, NobodysChild
    <3> QED BY <3>3
  <2> QED BY <1>1, <1>11, <1>12, <1>14, <1>15, <2>3, <2>4, LoopKept
<1>17. phase' # "fanout" /\ phase' \in {"tasks", "over"} /\ ~InTask /\ ~InTask'
  BY <1>1, <1>8 DEF InTask
<1>18. Place' /\ Present'
  BY <1>1, <1>17 DEF Place, Present
<1>19. \A h \in Hosts : \A u \in Tasks : verdict[h][u] # "none" => verdict'[h][u] = verdict[h][u]
  BY <1>4, <1>11
<1>20. Future'
  <2>1. SUFFICES ASSUME NEW h \in Hosts, NEW i \in DOMAIN Play, i > at + 1 \/ i = at + 1
                 PROVE  Fresh(verdict'[h], Play[i])
    BY <1>1 DEF Future
  <2>2. i > at /\ i # at
    BY <1>1, <2>1
  <2>3. Fresh(verdict[h], Play[i])
    BY <2>2 DEF IInv, Future
  <2>4. ASSUME NEW u \in Subtree(Play[i])
        PROVE  verdict'[h][u] = verdict[h][u]
    <3>1. u # t /\ u \in Tasks
      BY <1>1, <1>2, <1>4, <2>2, Separate DEF Subtree
    <3> QED BY <1>11, <3>1
  <2> QED BY <2>3, <2>4, FreshStays
<1>21. Past'
  <2>1. SUFFICES ASSUME NEW h \in Live, NEW i \in DOMAIN Play, i < at + 1,
                        Plain(Play[i]), Play[i] \notin RunOnce
                 PROVE  verdict'[h][Play[i]] # "none"
    BY <1>1, <1>12 DEF Past, Plain
  <2>2. i # at
    BY <1>1, <2>1
  <2>3. i < at
    BY <1>1, <2>1, <2>2
  <2>4. verdict[h][Play[i]] # "none" /\ h \in Hosts
    BY <2>1, <2>3 DEF IInv, Past, Live
  <2> QED BY <1>19, <2>4, Separate
<1>22. Halted'
  <2>1. SUFFICES ASSUME policy = "stop", NEW h \in Hosts, NEW i \in DOMAIN Play,
                        verdict'[h][Play[i]] = "failed"
                 PROVE  phase' = "over" /\ at + 1 <= i + 1
    BY <1>1 DEF Halted
  <2>2. verdict[h][Play[i]] # "failed"
    BY <1>1, <1>17, <2>1 DEF IInv, Halted
  <2>3. Play[i] = t /\ h = runner
    BY <1>11, <2>1, <2>2, Separate
  <2>4. i = at
    BY <1>1, <1>2, <2>3, Separate
  <2>5. phase' = "over"
    BY <1>8, <1>9, <1>11, <2>1, <2>3
  <2> QED BY <1>1, <2>4, <2>5
<1>23. LiveHasPool'
  <2>1. \A h \in Hosts : \A u \in Tasks : verdict[h][u] # "none" => verdict'[h][u] # "none"
    BY <1>19
  <2>2. \A h \in Hosts : Excused(verdict[h]) => Excused(verdict'[h])
    BY <2>1 DEF Excused
  <2>3. SUFFICES ASSUME NEW h \in Live', dead'[h] PROVE Excused(verdict'[h])
    BY DEF LiveHasPool
  <2>4. h \in Live /\ h \in Hosts
    BY <1>12, <2>3 DEF Live
  <2>5. CASE dead[h]
    BY <2>2, <2>4, <2>5 DEF IInv, LiveHasPool
  <2>6. CASE ~dead[h]
    <3>1. h = runner
      BY <1>14, <2>3, <2>4, <2>6
    <3>2. Excusable(t)
      BY <1>9, <1>12, <1>13, <1>14, <2>3, <2>6, <3>1
    <3>3. verdict'[h][t] # "none"
      BY <1>9, <1>11, <3>1 DEF Endings
    <3> QED BY <3>2, <3>3 DEF Excused
  <2> QED BY <2>5, <2>6
<1>24. \A h \in Hosts : \A n \in pending'[h] : n \in pending[h] \/
         /\ n \in Notify[t]
         /\ (h = runner /\ b = "changed") \/ BroadcastNotifies(t, b)
  BY <1>5
<1>25. b = "changed" => verdict'[runner][t] = "changed"
  BY <1>6, <1>7, <1>11, BodyEnds
<1>26. BroadcastNotifies(t, b) => CauseElsewhere(t)'
  <2>1. SUFFICES ASSUME BroadcastNotifies(t, b), ~Untold(t) PROVE verdict'[runner][t] = "changed"
    BY <1>4 DEF CauseElsewhere
  <2>2. Verdict([BodyResult(t, b) EXCEPT !.alive = TRUE]) = "changed"
    BY <1>6, <2>1, BroadcastTells
  <2>3. Verdict([BodyResult(t, b) EXCEPT !.alive = TRUE]) = Verdict(r)
    BY <1>7 DEF Verdict, BodyResult
  <2> QED BY <1>11, <2>2, <2>3
<1>27. Reasons'
  <2>1. ASSUME NEW h \in Hosts, NEW n \in pending'[h]
        PROVE  \E u \in Tasks : n \in Notify[u] /\ (Cause(h, u) \/ CauseElsewhere(u))'
    <3>1. CASE n \in pending[h]
      <4>1. PICK u \in Tasks : n \in Notify[u] /\ (Cause(h, u) \/ CauseElsewhere(u))
        BY <3>1 DEF IInv, Reasons, PendingJustified
      <4>2. \A g \in Hosts : verdict[g][u] = "changed" => verdict'[g][u] = "changed"
        BY <1>19
      <4>3. verdict[h][u] # "none" => verdict'[h][u] # "none"
        BY <1>9, <1>11, <4>1 DEF Endings
      <4> QED BY <1>1, <4>1, <4>2, <4>3 DEF Cause, CauseElsewhere
    <3>2. CASE n \notin pending[h]
      <4>1. n \in Notify[t] /\ ((h = runner /\ b = "changed") \/ BroadcastNotifies(t, b))
        BY <1>24, <2>1, <3>2
      <4>2. CASE h = runner /\ b = "changed"
        <5>1. Cause(h, t)'
          BY <1>25, <4>2 DEF Cause
        <5> QED BY <4>1, <5>1
      <4>3. CASE BroadcastNotifies(t, b)
        BY <1>26, <4>1, <4>3
      <4> QED BY <4>1, <4>2, <4>3
    <3> QED BY <3>1, <3>2
  <2>2. ASSUME NEW h \in Hosts
        PROVE  Traced(h)'
    BY <1>1, <1>19 DEF IInv, Reasons, Traced
  <2> QED BY <2>1, <2>2 DEF Reasons, PendingJustified
<1>28. Flushing'
  BY <1>1, <1>8, <1>17 DEF Flushing, NotificationsServed
<1> QED BY <1>16, <1>18, <1>20, <1>21, <1>22, <1>23, <1>27, <1>28 DEF IInv

-----------------------------------------------------------------------------
(* What the strategy promises *)

\* Every step of the play keeps the invariant.
LEMMA Keeps == IInv /\ [Next]_vars => IInv'
<1> SUFFICES ASSUME IInv, [Next]_vars PROVE IInv'
  OBVIOUS
<1>1. CASE LoopStep
  BY <1>1, TaskFansOut, HandlerFansOut, RunsOnce, GoesOn, Joins DEF LoopStep
<1>2. CASE \E h \in Hosts : Step(h) \/ Apply(h)
  BY <1>2, Walks, Applies
<1>3. CASE UNCHANGED vars
  <2>1. /\ UNCHANGED <<ctl, cur, stack, slot, res, cells, pending, failedVar, dead, verdict, taken>>
        /\ UNCHANGED <<policy, phase, at, hand, root, running, unjoined, anyFailed, outcome, stopped>>
        /\ Live' = Live /\ InTask' = InTask
    BY <1>3 DEF vars, walkVars, loopVars, Live, InTask
  <2>2. TypeOK'
    BY <2>1 DEF IInv, Loop, TypeOK, WalkTypeOK
  <2>3. \A h \in Hosts : IF h \in unjoined' THEN Away(h)' ELSE ctl'[h] = "idle" /\ Outside(h)'
    BY <2>1 DEF IInv, Loop, Away, Walker, Visiting, Outside
  <2>4. Loop'
    BY <2>1, <2>2, <2>3 DEF IInv, Loop
  <2>5. Place' /\ Future' /\ Past' /\ Present' /\ Halted'
    BY <2>1 DEF IInv, Place, Future, Past, Present, Halted, Plain
  <2>6. LiveHasPool' /\ Reasons'
    BY <2>1 DEF IInv, LiveHasPool, Reasons, PendingJustified, Traced, Cause, CauseElsewhere
  <2>7. Flushing'
    BY <2>1 DEF IInv, Flushing, NotificationsServed
  <2> QED BY <2>4, <2>5, <2>6, <2>7 DEF IInv
<1> QED BY <1>1, <1>2, <1>3 DEF Next

\* What has begun is no later than where the loop is.
LEMMA BegunIsReached ==
  ASSUME IInv, NEW h \in Hosts, NEW j \in DOMAIN Play, Began(h, Play[j])
  PROVE  j < at \/ (j = at /\ InTask)
<1>1. j \in Nat /\ at \in Nat /\ Play[j] \in Subtree(Play[j]) /\ Play[j] \notin Handlers
  BY Separate DEF IInv, Loop, TypeOK
<1>2. CASE verdict[h][Play[j]] # "none"
  <2>1. ~Fresh(verdict[h], Play[j])
    BY <1>1, <1>2 DEF Fresh
  <2>2. ~(j > at \/ (j = at /\ ~InTask))
    BY <2>1 DEF IInv, Future
  <2> QED BY <1>1, <2>2
<1>3. CASE h \in unjoined /\ root = Play[j]
  <2>1. phase = "fanout"
    BY <1>3 DEF IInv, Loop
  <2>2. CASE hand = 0
    <3>1. InTask /\ at \in DOMAIN Play /\ root = Play[at]
      BY <2>1, <2>2 DEF InTask, IInv, Place
    <3> QED BY <1>3, <3>1, Separate
  <2>3. CASE hand # 0
    <3>1. hand \in Nat \ {0} /\ hand <= Len(HandlerList) /\ root = HandlerList[hand]
      BY <2>1, <2>3, AllComing DEF IInv, Loop, TypeOK, Place
    <3> QED BY <1>1, <1>3, <3>1, Alone
  <2> QED BY <2>2, <2>3
<1> QED BY <1>2, <1>3 DEF Began

\* The invariant says what the barrier and the halt promise.
LEMMA Says == IInv => InStep
<1> SUFFICES ASSUME IInv PROVE InStep
  OBVIOUS
<1>1. DOMAIN Play \subseteq Nat /\ at \in Nat /\ DOMAIN Play = 1 .. Len(Play) /\ Len(Play) \in Nat
  BY PlayAssumption, LenProperties DEF IInv, Loop, TypeOK
<1>2. Barrier
  <2>1. SUFFICES ASSUME NEW i \in DOMAIN Play, NEW j \in DOMAIN Play, i < j,
                        Plain(Play[i]), Play[i] \notin RunOnce,
                        NEW h \in Hosts, Began(h, Play[j]), NEW g \in Live
                 PROVE  verdict[g][Play[i]] # "none"
    BY DEF Barrier
  <2>2. j < at \/ j = at
    BY <2>1, BegunIsReached
  <2>3. i < at
    BY <1>1, <2>1, <2>2
  <2> QED BY <2>1, <2>3 DEF IInv, Past
<1>3. StopHalts
  <2>1. SUFFICES ASSUME policy = "stop", NEW h \in Hosts, NEW i \in DOMAIN Play,
                        verdict[h][Play[i]] = "failed", NEW g \in Hosts
                 PROVE  /\ \A j \in i + 1 .. Len(Play) : ~Began(g, Play[j])
                        /\ phase # "handlers"
    BY DEF StopHalts
  <2>2. \/ InTask /\ i = at
        \/ phase = "over" /\ at <= i + 1
    BY <2>1 DEF IInv, Halted
  <2>3. phase # "handlers" /\ at <= i + 1 /\ (at = i + 1 => ~InTask)
    BY <1>1, <2>2 DEF InTask
  <2>4. ASSUME NEW j \in i + 1 .. Len(Play), Began(g, Play[j])
        PROVE  FALSE
    <3>1. j \in DOMAIN Play /\ j >= i + 1 /\ i \in Nat
      BY <1>1
    <3>2. j < at \/ (j = at /\ InTask)
      BY <2>4, <3>1, BegunIsReached
    <3> QED BY <1>1, <2>3, <3>1, <3>2
  <2> QED BY <2>3, <2>4
<1> QED BY <1>2, <1>3 DEF InStep, IInv, Loop

\* A failed host takes no part in any step, and nothing brings it back.
LEMMA SitsOut ==
  ASSUME IInv, Next, NEW h \in Hosts, outcome[h] = "failed"
  PROVE  outcome'[h] = "failed" /\ h \notin unjoined' /\ verdict'[h] = verdict[h]
<1>1. h \notin Live /\ h \notin unjoined /\ ctl[h] = "idle" /\ Loop /\ Place
      /\ outcome \in [Hosts -> {"ok", "failed"}]
  BY DEF IInv, Loop, TypeOK, Live
<1>2. CASE FanoutTask \/ FlushHandler
  BY <1>1, <1>2 DEF FanoutTask, FlushHandler, Fanout, Interested
<1>3. CASE DropByTags \/ BeginFlush \/ PassHandler \/ EndFlush \/ Joined
  BY <1>1, <1>3 DEF DropByTags, BeginFlush, PassHandler, EndFlush, Joined, walkVars
<1>4. CASE RunOnceTask
  <2> DEFINE runner == First(Live)
  <2>1. PICK v, o : /\ verdict' = [verdict EXCEPT ![runner][Current] = v]
                    /\ outcome' = [outcome EXCEPT ![runner] = o]
    BY <1>4 DEF RunOnceTask
  <2>2. runner \in Live /\ unjoined' = unjoined
    BY <1>4 DEF RunOnceTask
  <2> HIDE DEF runner
  <2>3. verdict'[h] = verdict[h] /\ outcome'[h] = outcome[h]
    BY <1>1, <2>1, <2>2 DEF Loop, TypeOK, WalkTypeOK
  <2> QED BY <1>1, <2>2, <2>3
<1>5. CASE \E g \in Hosts : Step(g)
  <2>1. PICK g \in Hosts : Step(g)
    BY <1>5
  <2>2. Strides(g) /\ UNCHANGED loopVars
    <3>1. Traced(g)
      BY DEF IInv, Reasons
    <3> QED BY <1>1, <2>1, <3>1, TaskStrides, HandlerStrides DEF Step
  <2>3. g # h /\ verdict'[h] = verdict[h]
    BY <1>1, <2>2 DEF Strides, Apart
  <2> QED BY <1>1, <2>2, <2>3 DEF loopVars
<1>6. CASE \E g \in Hosts : Apply(g)
  BY <1>1, <1>6 DEF Apply, Loop, TypeOK
<1> QED BY <1>2, <1>3, <1>4, <1>5, <1>6 DEF Next, LoopStep

\* The invariant of the loop: no host walks but in a fanout; what is ahead of the
\* loop is untouched, what is behind it done; what is pending has its reasons.
THEOREM LoopSound == Spec => []IInv
<1>1. Init => IInv
  BY Begins
<1>2. IInv /\ [Next]_vars => IInv'
  BY Keeps
<1> QED BY <1>1, <1>2, PTL DEF Spec

\* `run_play_per_task` is a barrier, whatever the number of hosts and tasks: none
\* begins a task before all hosts still in the play have a result for each
\* earlier one; under on_failure: stop none begins one after a failure; and the
\* hosts it goes on with have their agents.
THEOREM InStepAtEveryTask == Spec => []InStep
<1>1. IInv => InStep
  BY Says
<1> QED BY <1>1, LoopSound, PTL

\* No handler is pending without a change behind it (`enqueue_notifies`), and when
\* the play ends unhalted none is left (`flush_handlers`), but for those a handler
\* block notified too late.
THEOREM NotifiedForAReason == Spec => []Notified
<1>1. IInv => Notified
  BY DEF IInv, Reasons, Flushing, Notified
<1> QED BY <1>1, LoopSound, PTL

\* Under per_task too block, rescue and always mean what they say
\* (`run_block_on_one_host`), whatever happens to the other hosts.
THEOREM BlocksMeantPerTask == Spec => []BlocksMeant
<1>1. IInv => BlocksMeant
  <2>1. SUFFICES ASSUME IInv, NEW h \in Hosts
                 PROVE  Outside(h) \/ \E t \in Tasks : Root(t) /\ Walker(h, t)
    BY MeansBlocks
  <2>2. CASE h \notin unjoined \/ hand # 0
    BY <2>1, <2>2 DEF IInv, Loop, Away
  <2>3. CASE h \in unjoined /\ hand = 0
    <3>1. InTask /\ at \in DOMAIN Play /\ root = Play[at]
      BY <2>1, <2>3 DEF IInv, Loop, Place, InTask
    <3>2. Root(root) /\ root \in Tasks
      BY <3>1, Separate
    <3>3. Walker(h, root)
      BY <2>1, <2>3 DEF IInv, Loop, Away
    <3> QED BY <3>2, <3>3
  <2> QED BY <2>2, <2>3
<1> QED BY <1>1, LoopSound, PTL

\* A host marked failed (`apply_per_host_result`) is never fanned out to again,
\* and nothing changes its results.
THEOREM FailedHostsSitOut == Spec => FailedSitOut
<1>1. IInv /\ [Next]_vars =>
        [\A h \in Hosts : outcome[h] = "failed" =>
            /\ outcome'[h] = "failed"
            /\ h \notin unjoined' /\ verdict'[h] = verdict[h]]_vars
  BY SitsOut
<1> QED BY <1>1, LoopSound, PTL DEF Spec, FailedSitOut
=============================================================================
