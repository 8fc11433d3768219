---------------------------- MODULE HostWalk_proofs ----------------------------
(***************************************************************************)
(* What a walker does with the subtree it was sent into, for every tree of  *)
(* tasks, whatever they do, loops and lost connections included: it writes  *)
(* only verdicts of that subtree, that of its root as its last act; blocks  *)
(* mean what they say; a failure is absorbed only where it may be.          *)
(*                                                                         *)
(* The predicates are about the state of one host, given as values; the     *)
(* strategies' proofs (PerTask_proofs, PerPlay_proofs) use the lemma         *)
(* WalkerSteps at the end.                                                  *)
(***************************************************************************)
EXTENDS HostWalk, SequenceTheorems, TLAPS

-----------------------------------------------------------------------------
(* The state of a walker *)

\* A task and all that is nested in it.
Subtree(t) == {b \in Tasks : t <= b /\ b + Size[b] <= t + Size[t]}

\* The task its list is at.
TaskOf(f) == List(f)[f.next - 1]

\* The frames of the blocks from `t` inwards: each is at the task of the next
\* outer one, and none has a coord from the first looped block on.
Nest(s, t) ==
  /\ s \in Seq(FrameType)
  /\ \A i \in 1 .. Len(s) :
       /\ s[i].block \in Subtree(t) /\ Kind[s[i].block] = "block"
       /\ s[i].next \in 1 .. Len(List(s[i])) + 1
       /\ s[i].coord <=> \A j \in i .. Len(s) : s[j].block \notin Looped
       /\ i = Len(s) => s[i].block = t
       /\ i < Len(s) => s[i].block = TaskOf(s[i + 1])
       /\ \A j \in i + 1 .. Len(s) :
            s[j].next > 1 /\ s[j].failed = NoTask /\ s[i].block \in Subtree(TaskOf(s[j]))

Walking == {"call", "iterate", "list", "skip", "armDone", "return"}
Outs == {"ok", "skipped", "failed"}

\* Where the walker sent into `t` stands: `c`, `k`, `s`, `r` and `v` are its ctl, cur,
\* stack, res and verdict.
Control(c, k, s, r, v, t) ==
  /\ c \in Walking /\ Nest(s, t)
  /\ s = <<>> => k = t /\ c \in {"call", "return"}
  /\ s # <<>> /\ c \in {"call", "return"} => Head(s).next > 1 /\ k = TaskOf(Head(s))
  /\ s # <<>> /\ c \in {"call", "return", "list"} => Head(s).failed = NoTask
  /\ s # <<>> /\ c = "iterate" => Head(s).arm = "tasks" /\ Head(s).next = 1 /\ Head(s).failed = NoTask
  /\ s # <<>> /\ c \in {"skip", "armDone"} /\ Head(s).failed # NoTask =>
       Head(s).failed \in Range(List(Head(s))) /\ v[Head(s).failed] = "failed"
  /\ s # <<>> /\ c = "skip" => Head(s).next > 1
  /\ s # <<>> /\ c = "armDone" => Head(s).next > Len(List(Head(s)))
  /\ c = "return" => r.out \in Outs /\ v[k] = Verdict(r)

-----------------------------------------------------------------------------
(* What its frames say of the verdicts *)

\* No task in the subtree of `c` has ended.
Fresh(v, c) == \A u \in Subtree(c) : v[u] = "none"

Fails(v, s) == \E c \in Range(s) : v[c] = "failed"
Lost(v, b) == Fails(v, Arm[b].tasks) /\ (Arm[b].rescue = <<>> \/ Fails(v, Arm[b].rescue))

\* The always arm of `b` has been tried, as far as that leaves a trace.
Tried(v, b) ==
  (Arm[b].always # <<>> /\ Kind[Arm[b].always[1]] # "meta") => v[Arm[b].always[1]] # "none"

\* A block in no loop has been through `done` tasks of the list that it is at, has
\* gone into those up to `next` and into none further.
Midway(f, v, done) ==
  LET b == f.block IN
     /\ f.left = 0
     /\ \A i \in f.next .. Len(List(f)) : Fresh(v, List(f)[i])
     /\ \A i \in 1 .. done : v[List(f)[i]] = "failed" => f.failed # NoTask
     /\ f.arm = "tasks" => ~f.over /\ \A c \in Range(Arm[b].rescue) \cup Range(Arm[b].always) : Fresh(v, c)
     /\ f.arm = "rescue" => ~f.over /\ Fails(v, Arm[b].tasks) /\ \A c \in Range(Arm[b].always) : Fresh(v, c)
     /\ f.arm = "rescue" => Arm[b].rescue # <<>>
     /\ f.arm = "always" => (f.over <=> Lost(v, b)) /\ (done > 0 => Tried(v, b))

\* Between two of its tasks, and with the walker in one of them.
Between(f, v) == Midway(f, v, f.next - 1)
Within(f, v) == Midway(f, v, f.next - 2)

\* Before and after its only iteration.
Around(f, v) ==
  LET b == f.block IN
  \/ /\ f.left = 1 /\ ~f.over /\ f.alive
     /\ \A c \in Range(Children(b)) : Fresh(v, c)
  \/ /\ f.left = 0 /\ (f.over <=> Lost(v, b) \/ Fails(v, Arm[b].always)) /\ Tried(v, b)

\* Rescue arms are only for failures.
Disciplined(v, b) == (\E c \in Range(Arm[b].rescue) : v[c] # "none") => Fails(v, Arm[b].tasks)

\* A block that ends, ends as its children say.
Meant(v, b, r) ==
  (\E c \in Range(Children(b)) : v[c] # "none") =>
    /\ r.out = "failed" <=> (Lost(v, b) \/ Fails(v, Arm[b].always)) /\ b \notin Ignore
    /\ Tried(v, b)

OpenBlocks == {b \in Tasks : Kind[b] = "block" /\ Unlooped(b)}

Meaning(c, k, s, r, v) ==
  /\ \A b \in OpenBlocks : Disciplined(v, b)
  /\ \A i \in 1 .. Len(s) : s[i].coord =>
       /\ i > 1 => Within(s[i], v) /\ v[TaskOf(s[i])] = "none"
       /\ i = 1 => CASE c = "iterate" -> Around(s[1], v)
                     [] c \in {"call", "return"} -> Within(s[1], v)
                     [] OTHER -> Between(s[1], v)
  /\ c = "call" /\ Shared(s) => Fresh(v, k)
  /\ c = "return" /\ k \in OpenBlocks => Meant(v, k, r)

\* From frame `n` on, `x` is the failed task of the innermost rescue arm.
Blames(s, n, v, x) ==
  /\ (\A i \in n .. Len(s) : s[i].arm # "rescue") => x = NoTask
  /\ \A i \in n .. Len(s) :
       s[i].arm = "rescue" /\ (\A j \in n .. i - 1 : s[j].arm # "rescue")
         => x \in Range(Arm[s[i].block].tasks) /\ v[x] = "failed"

\* So is the variable, and what each rescue arm has saved for those around it.
Scoped(s, v, x) ==
  /\ Blames(s, 1, v, x)
  /\ \A i \in 1 .. Len(s) : s[i].arm = "rescue" => Blames(s, i + 1, v, s[i].saved)

\* A lost connection comes with a failure, or one that is excused.
Owned(c, s, r, v) ==
  /\ \A i \in 1 .. Len(s) : s[i].alive \/ s[i].failed # NoTask \/ s[i].over
                            \/ Arm[s[i].block].rescue # <<>> \/ Excused(v)
  /\ c = "return" => r.alive \/ r.out = "failed" \/ Excused(v)

\* The task it was sent into ends last.
Rooted(c, s, v, t) == (c = "return" /\ s = <<>>) \/ v[t] = "none"

\* A walker sent into `t`, which blames `x`.
Standing(c, k, s, r, v, x, t) ==
  /\ Control(c, k, s, r, v, t) /\ Meaning(c, k, s, r, v) /\ Rooted(c, s, v, t)
  /\ Scoped(s, v, x) /\ Owned(c, s, r, v)

\* The walker of `h`.
Walker(h, t) == Standing(ctl[h], cur[h], stack[h], res[h], verdict[h], failedVar[h], t)

-----------------------------------------------------------------------------
(* Trees of tasks *)

\* Tasks are numbers, and their sizes are positive.
LEMMA Numbers == \A t \in Tasks : t \in Nat /\ Size[t] \in Nat \ {0}
BY TreeAssumption, PreOrderAssumption DEF Tasks

\* A task of an arm is nested in its block.
LEMMA Nested ==
  ASSUME NEW b \in Tasks, NEW a \in Arms, NEW i \in 1 .. Len(Arm[b][a])
  PROVE  /\ Arm[b][a][i] \in Tasks /\ Arm[b][a][i] \in Range(Arm[b][a])
         /\ b < Arm[b][a][i] /\ Arm[b][a][i] + Size[Arm[b][a][i]] <= b + Size[b]
<1>1. Arm[b][a] \in Seq(Tasks)
  BY TreeAssumption
<1>2. Arm[b][a][i] \in Tasks /\ Arm[b][a][i] \in Range(Arm[b][a])
  <2>1. Range(Arm[b][a]) = {Arm[b][a][j] : j \in 1 .. Len(Arm[b][a])}
    BY <1>1, RangeEquality
  <2>2. Arm[b][a][i] \in Tasks
    BY <1>1, ElementOfSeq
  <2> QED BY <2>1, <2>2
<1> QED BY <1>2, PreOrderAssumption

\* What a list holds are its elements.
LEMMA Elements ==
  ASSUME NEW b \in Tasks, NEW a \in Arms
  PROVE  /\ Len(Arm[b][a]) \in Nat
         /\ Range(Arm[b][a]) = {Arm[b][a][i] : i \in 1 .. Len(Arm[b][a])}
         /\ Arm[b][a] = <<>> <=> Len(Arm[b][a]) = 0
<1>1. Arm[b][a] \in Seq(Tasks)
  BY TreeAssumption
<1> QED BY <1>1, LenProperties, EmptySeq DEF Range

\* The children of a block are those of its arms.
LEMMA ChildrenOf ==
  ASSUME NEW b \in Tasks
  PROVE  Range(Children(b)) = Range(Arm[b].tasks) \cup Range(Arm[b].rescue) \cup Range(Arm[b].always)
<1> DEFINE p == Arm[b].tasks
           q == Arm[b].rescue
           o == Arm[b].always
<1>1. p \in Seq(Tasks) /\ q \in Seq(Tasks) /\ o \in Seq(Tasks)
  BY TreeAssumption DEF Arms
<1> HIDE DEF p, q, o
<1>2. p \o q \in Seq(Tasks) /\ Range(p \o q) = Range(p) \cup Range(q)
  BY <1>1, ConcatProperties, RangeConcatenation
<1> DEFINE pq == p \o q
<1>3. pq \in Seq(Tasks)
  BY <1>2
<1> HIDE DEF pq
<1>4. Range(pq \o o) = Range(pq) \cup Range(o)
  BY <1>1, <1>3, RangeConcatenation
<1> QED BY <1>2, <1>4 DEF Children, p, q, o, pq

\* Nesting is transitive.
LEMMA Deeper ==
  ASSUME NEW t \in Tasks, NEW c \in Subtree(t), NEW u \in Subtree(c)
  PROVE  u \in Subtree(t) /\ (u = t => c = t)
<1>1. /\ t \in Nat /\ c \in Nat /\ u \in Nat
      /\ Size[t] \in Nat /\ Size[c] \in Nat /\ Size[u] \in Nat
  BY Numbers DEF Subtree
<1> QED BY <1>1 DEF Subtree

\* Children are nested in their block, which is not nested in them.
LEMMA ChildNested ==
  ASSUME NEW b \in Tasks, NEW a \in Arms, NEW i \in 1 .. Len(Arm[b][a])
  PROVE  /\ Arm[b][a][i] \in Subtree(b) /\ Arm[b][a][i] # b /\ Arm[b][a][i] \in Subtree(Arm[b][a][i])
         /\ \A u \in Subtree(Arm[b][a][i]) : u \in Subtree(b) /\ u # b
<1> DEFINE c == Arm[b][a][i]
<1>1. c \in Tasks /\ b < c /\ c + Size[c] <= b + Size[b]
  BY Nested
<1> HIDE DEF c
<1>2. c \in Subtree(b) /\ c # b /\ c \in Subtree(c)
  BY <1>1, Numbers DEF Subtree
<1> QED BY <1>2, Deeper DEF c

\* So is every element of its arms.
LEMMA Kids ==
  ASSUME NEW b \in Tasks
  PROVE  /\ \A a \in Arms : \A c \in Range(Arm[b][a]) : c \in Tasks /\ c # b /\ c \in Subtree(c) /\ c \in Subtree(b)
         /\ \A c \in Range(Children(b)) : c \in Tasks /\ c # b /\ c \in Subtree(c) /\ c \in Subtree(b)
<1>1. ASSUME NEW a \in Arms, NEW c \in Range(Arm[b][a])
      PROVE  c \in Tasks /\ c # b /\ c \in Subtree(c) /\ c \in Subtree(b)
  <2>1. PICK i \in 1 .. Len(Arm[b][a]) : c = Arm[b][a][i]
    <3>1. Range(Arm[b][a]) = {Arm[b][a][i] : i \in 1 .. Len(Arm[b][a])}
      BY Elements
    <3> QED BY <3>1
  <2>2. Arm[b][a][i] \in Tasks
    BY Nested
  <2>3. Arm[b][a][i] \in Subtree(b) /\ Arm[b][a][i] # b /\ Arm[b][a][i] \in Subtree(Arm[b][a][i])
    BY ChildNested
  <2> QED BY <2>1, <2>2, <2>3
<1>2. Range(Children(b)) = Range(Arm[b].tasks) \cup Range(Arm[b].rescue) \cup Range(Arm[b].always)
  BY ChildrenOf
<1> QED BY <1>1, <1>2 DEF Arms

\* No task is in the subtrees of two of them.
LEMMA Siblings ==
  ASSUME NEW b \in Tasks, NEW a \in Arms, NEW i \in 1 .. Len(Arm[b][a]),
         NEW d \in Arms, NEW j \in 1 .. Len(Arm[b][d]), a # d \/ i # j
  PROVE  Subtree(Arm[b][a][i]) \cap Subtree(Arm[b][d][j]) = {}
<1> DEFINE c == Arm[b][a][i]
           e == Arm[b][d][j]
<1>a. c \in Tasks /\ c \in Range(Arm[b][a])
  BY Nested
<1>b. e \in Tasks /\ e \in Range(Arm[b][d])
  BY Nested
<1>1. /\ c \in Tasks /\ c \in Range(Arm[b][a])
      /\ e \in Tasks /\ e \in Range(Arm[b][d])
  BY <1>a, <1>b
<1>2. c + Size[c] <= e \/ e + Size[e] <= c
  <2>1. CASE a = d
    <3>1. i \in DOMAIN Arm[b][a] /\ j \in DOMAIN Arm[b][a] /\ i \in Int /\ j \in Int /\ i # j
      BY <2>1, TreeAssumption, LenProperties
    <3>2. i < j \/ j < i
      BY <3>1
    <3> QED BY <2>1, <3>1, <3>2, PreOrderAssumption
  <2>2. CASE a # d
    BY <1>1, <2>2, PreOrderAssumption DEF Arms
  <2> QED BY <2>1, <2>2
<1> HIDE DEF c, e
<1>3. Subtree(c) \cap Subtree(e) = {}
  <2>1. SUFFICES ASSUME NEW u, u \in Subtree(c), u \in Subtree(e) PROVE FALSE
    OBVIOUS
  <2>2. /\ u \in Nat /\ c \in Nat /\ e \in Nat
        /\ Size[u] \in Nat \ {0} /\ Size[c] \in Nat /\ Size[e] \in Nat
    BY <1>1, <2>1, Numbers DEF Subtree
  <2> QED BY <1>2, <2>1, <2>2 DEF Subtree
<1> QED BY <1>3 DEF c, e

-----------------------------------------------------------------------------
(* Stacks of frames *)

\* What a frame is.
LEMMA Spot ==
  ASSUME NEW t \in Tasks, NEW s, Nest(s, t), NEW i \in 1 .. Len(s)
  PROVE  /\ s[i] \in FrameType /\ Len(s) \in Nat
         /\ s[i].block \in Tasks /\ s[i].arm \in Arms /\ s[i].next \in Nat
         /\ s[i].next > 1 => /\ s[i].next - 1 \in 1 .. Len(List(s[i]))
                             /\ TaskOf(s[i]) \in Tasks
                             /\ TaskOf(s[i]) \in Range(Arm[s[i].block][s[i].arm])
                             /\ TaskOf(s[i]) \in Subtree(s[i].block)
                             /\ \A u \in Subtree(TaskOf(s[i])) :
                                  u \in Subtree(s[i].block) /\ u # s[i].block
<1> DEFINE f == s[i]
<1>1. s \in Seq(FrameType) /\ f.next \in 1 .. Len(List(f)) + 1
  BY DEF Nest
<1>2. f \in FrameType /\ Len(s) \in Nat
  BY <1>1, ElementOfSeq, LenProperties
<1> HIDE DEF f
<1>3. f.block \in Tasks /\ f.arm \in Arms /\ f.next \in Nat
  BY <1>2 DEF FrameType
<1>4. Len(List(f)) \in Nat /\ List(f) = Arm[f.block][f.arm]
  BY <1>3, Elements DEF List
<1>5. ASSUME f.next > 1
      PROVE  /\ f.next - 1 \in 1 .. Len(List(f)) /\ TaskOf(f) \in Tasks
             /\ TaskOf(f) \in Range(Arm[f.block][f.arm]) /\ TaskOf(f) \in Subtree(f.block)
             /\ \A u \in Subtree(TaskOf(f)) : u \in Subtree(f.block) /\ u # f.block
  <2>1. f.next - 1 \in 1 .. Len(List(f))
    BY <1>1, <1>3, <1>4, <1>5
  <2>2. TaskOf(f) = Arm[f.block][f.arm][f.next - 1] /\ f.next - 1 \in 1 .. Len(Arm[f.block][f.arm])
    BY <1>4, <2>1 DEF TaskOf
  <2>3. TaskOf(f) \in Tasks /\ TaskOf(f) \in Range(Arm[f.block][f.arm])
    BY <1>3, <2>2, Nested
  <2>4. TaskOf(f) \in Subtree(f.block) /\ \A u \in Subtree(TaskOf(f)) : u \in Subtree(f.block) /\ u # f.block
    BY <1>3, <2>2, ChildNested
  <2> QED BY <2>1, <2>3, <2>4
<1> QED BY <1>2, <1>3, <1>5 DEF f

\* What is nested in the task of the innermost frame is nested in those of all.
LEMMA Inside ==
  ASSUME NEW t \in Tasks, NEW s, Nest(s, t), s # <<>>, Head(s).next > 1,
         NEW u \in Subtree(TaskOf(Head(s)))
  PROVE  /\ u \in Subtree(t) /\ u # t
         /\ \A i \in 1 .. Len(s) : /\ s[i].next > 1 /\ u \in Subtree(TaskOf(s[i]))
                                   /\ i > 1 => u # TaskOf(s[i])
<1>1. s \in Seq(FrameType)
  BY DEF Nest
<1>2. Head(s) = s[1] /\ 1 \in 1 .. Len(s) /\ Len(s) \in Nat
  BY <1>1, EmptySeq, LenProperties
<1> DEFINE b == s[1].block
<1>3. u \in Subtree(b) /\ u # b
  BY <1>2, Spot
<1>4. b \in Subtree(t)
  BY <1>2 DEF Nest
<1>5. ASSUME NEW i \in 1 .. Len(s), i # 1
      PROVE  s[i].next > 1 /\ u \in Subtree(TaskOf(s[i])) /\ u # TaskOf(s[i])
  <2>1. i \in 1 + 1 .. Len(s)
    BY <1>2, <1>5
  <2>2. s[i].next > 1 /\ b \in Subtree(TaskOf(s[i]))
    BY <1>2, <2>1 DEF Nest
  <2>3. TaskOf(s[i]) \in Tasks
    BY <2>2, Spot
  <2> QED BY <1>3, <2>2, <2>3, Deeper
<1>6. u \in Subtree(t) /\ u # t
  BY <1>3, <1>4, Deeper
<1> QED BY <1>2, <1>5, <1>6

\* A stack and a frame on it.
LEMMA OnTop ==
  ASSUME NEW s \in Seq(FrameType), NEW f \in FrameType
  PROVE  /\ <<f>> \o s \in Seq(FrameType) /\ <<f>> \o s # <<>>
         /\ Len(<<f>> \o s) = Len(s) + 1 /\ Len(s) \in Nat
         /\ Head(<<f>> \o s) = f /\ Tail(<<f>> \o s) = s
         /\ (<<f>> \o s)[1] = f /\ \A i \in 2 .. Len(s) + 1 : (<<f>> \o s)[i] = s[i - 1]
<1> DEFINE u == <<f>> \o s
<1>1. /\ u \in Seq(FrameType) /\ Len(u) = Len(s) + 1 /\ Len(s) \in Nat
      /\ u[1] = f /\ \A i \in 2 .. Len(s) + 1 : u[i] = s[i - 1]
  BY ConcatProperties, LenProperties
<1> HIDE DEF u
<1>2. u # <<>> /\ Head(u) = f
  BY <1>1, EmptySeq
<1>3. Tail(u) \in Seq(FrameType) /\ Len(Tail(u)) = Len(s) /\ \A i \in 1 .. Len(s) : Tail(u)[i] = s[i]
  <2>1. /\ Tail(u) \in Seq(FrameType) /\ Len(Tail(u)) = Len(u) - 1
        /\ \A i \in 1 .. Len(Tail(u)) : Tail(u)[i] = u[i + 1]
    BY <1>1, <1>2, HeadTailProperties
  <2>2. ASSUME NEW i \in 1 .. Len(s)
        PROVE  Tail(u)[i] = s[i]
    <3>1. i + 1 \in 2 .. Len(s) + 1 /\ i + 1 - 1 = i
      BY <1>1
    <3> QED BY <1>1, <2>1, <3>1
  <2> QED BY <1>1, <2>1, <2>2
<1>4. Tail(u) = s
  BY <1>3, SeqEqual
<1> QED BY <1>1, <1>2, <1>4 DEF u

\* A stack without its innermost frame.
LEMMA OffTop ==
  ASSUME NEW s \in Seq(FrameType), s # <<>>
  PROVE  /\ Tail(s) \in Seq(FrameType) /\ Len(Tail(s)) = Len(s) - 1 /\ Len(s) \in Nat \ {0}
         /\ Head(s) = s[1] /\ Head(s) \in FrameType
         /\ \A i \in 1 .. Len(s) - 1 : Tail(s)[i] = s[i + 1]
         /\ Tail(s) = <<>> <=> Len(s) = 1
<1>1. Len(s) \in Nat \ {0} /\ Head(s) = s[1]
  BY EmptySeq, LenProperties
<1>2. Tail(s) \in Seq(FrameType) /\ Len(Tail(s)) = Len(s) - 1 /\ \A i \in 1 .. Len(Tail(s)) : Tail(s)[i] = s[i + 1]
  BY HeadTailProperties
<1>3. Tail(s) = <<>> <=> Len(Tail(s)) = 0
  BY <1>2, EmptySeq
<1>4. s[1] \in FrameType
  BY <1>1, ElementOfSeq
<1>5. Len(Tail(s)) = 0 <=> Len(s) = 1
  BY <1>1, <1>2
<1> QED BY <1>1, <1>2, <1>3, <1>4, <1>5

\* Nothing is nested in nothing.
LEMMA NestNone == ASSUME NEW t PROVE Nest(<<>>, t)
<1>1. <<>> \in Seq(FrameType) /\ 1 .. Len(<<>>) = {}
  BY EmptySeq
<1> QED BY <1>1 DEF Nest

\* A block that is entered.
LEMMA NestPushed ==
  ASSUME NEW t \in Tasks, NEW s, Nest(s, t), NEW f \in FrameType,
         f.block \in Subtree(t), Kind[f.block] = "block", f.next = 1,
         f.coord <=> Shared(s) /\ f.block \notin Looped,
         s = <<>> => f.block = t,
         s # <<>> => Head(s).next > 1 /\ Head(s).failed = NoTask /\ f.block = TaskOf(Head(s))
  PROVE  Nest(<<f>> \o s, t)
<1> DEFINE u == <<f>> \o s
<1>1. s \in Seq(FrameType)
  BY DEF Nest
<1>2. /\ u \in Seq(FrameType) /\ Len(u) = Len(s) + 1 /\ Len(s) \in Nat
      /\ u[1] = f /\ \A i \in 2 .. Len(s) + 1 : u[i] = s[i - 1]
  BY <1>1, OnTop
<1>3. s = <<>> <=> Len(s) = 0
  BY <1>1, EmptySeq
<1> HIDE DEF u
<1>4. ASSUME NEW i \in 1 .. Len(u), i # 1
      PROVE  i - 1 \in 1 .. Len(s) /\ u[i] = s[i - 1]
  <2>1. i \in 2 .. Len(s) + 1 /\ i - 1 \in 1 .. Len(s)
    BY <1>2, <1>4
  <2> QED BY <1>2, <2>1
<1>5. ASSUME NEW i \in 1 .. Len(u)
      PROVE  u[i].block \in Subtree(t) /\ Kind[u[i].block] = "block" /\ u[i].next \in 1 .. Len(List(u[i])) + 1
  <2>1. CASE i = 1
    <3>1. f.block \in Tasks /\ f.arm \in Arms
      BY DEF FrameType
    <3>2. Len(List(f)) \in Nat
      BY <3>1, Elements DEF List
    <3> QED BY <1>2, <2>1, <3>2
  <2>2. CASE i # 1
    BY <1>4, <2>2 DEF Nest
  <2> QED BY <2>1, <2>2
<1>6. ASSUME NEW i \in 1 .. Len(u)
      PROVE  /\ i = Len(u) => u[i].block = t
             /\ i < Len(u) => u[i].block = TaskOf(u[i + 1])
  <2>1. CASE i = 1
    <3>1. CASE s = <<>>
      BY <1>2, <1>3, <2>1, <3>1
    <3>2. CASE s # <<>>
      <4>1. Head(s) = s[1] /\ Len(s) \in Nat \ {0}
        BY <1>1, <3>2, OffTop
      <4>2. u[2] = s[1]
        BY <1>2, <4>1
      <4> QED BY <1>2, <2>1, <3>2, <4>1, <4>2
    <3> QED BY <3>1, <3>2
  <2>2. CASE i # 1
    <3>1. i - 1 \in 1 .. Len(s) /\ u[i] = s[i - 1] /\ (i = Len(u) <=> i - 1 = Len(s)) /\ i \in Nat
      BY <1>2, <1>4, <2>2
    <3>2. i < Len(u) => i - 1 < Len(s) /\ u[i + 1] = s[i - 1 + 1]
      BY <1>2, <3>1
    <3> QED BY <3>1, <3>2 DEF Nest
  <2> QED BY <2>1, <2>2
<1>7. ASSUME NEW i \in 1 .. Len(u), NEW j \in i + 1 .. Len(u)
      PROVE  u[j].next > 1 /\ u[j].failed = NoTask /\ u[i].block \in Subtree(TaskOf(u[j]))
  <2>1. j \in 1 .. Len(u) /\ j # 1 /\ j - 1 \in 1 .. Len(s) /\ u[j] = s[j - 1]
    BY <1>2
  <2>2. CASE i = 1
    <3>1. s # <<>> /\ Head(s) = s[1] /\ 1 \in 1 .. Len(s)
      BY <1>1, <1>2, <1>3, <2>1, OffTop
    <3>2. f.block \in Subtree(f.block)
      BY Numbers DEF FrameType, Subtree
    <3>3. s[j - 1].next > 1 /\ f.block \in Subtree(TaskOf(s[j - 1]))
      BY <2>1, <3>1, <3>2, Inside
    <3>4. s[j - 1].failed = NoTask
      <4>1. CASE j - 1 = 1
        BY <3>1, <4>1
      <4>2. CASE j - 1 # 1
        <5>1. j - 1 \in 1 + 1 .. Len(s)
          BY <2>1, <4>2
        <5> QED BY <3>1, <5>1 DEF Nest
      <4> QED BY <4>1, <4>2
    <3> QED BY <1>2, <2>1, <2>2, <3>3, <3>4
  <2>3. CASE i # 1
    <3>1. i - 1 \in 1 .. Len(s) /\ u[i] = s[i - 1] /\ j - 1 \in (i - 1) + 1 .. Len(s)
      BY <1>2, <1>4, <2>3
    <3> QED BY <2>1, <3>1 DEF Nest
  <2> QED BY <2>2, <2>3
<1>8. ASSUME NEW i \in 1 .. Len(u)
      PROVE  u[i].coord <=> \A j \in i .. Len(u) : u[j].block \notin Looped
  <2>1. ASSUME NEW k \in 1 .. Len(s)
        PROVE  (\A j \in k + 1 .. Len(u) : u[j].block \notin Looped) <=> s[k].coord
    <3>1. s[k].coord <=> \A j \in k .. Len(s) : s[j].block \notin Looped
      BY DEF Nest
    <3>2. ASSUME NEW j \in k .. Len(s) PROVE j + 1 \in k + 1 .. Len(u) /\ u[j + 1] = s[j]
      BY <1>2
    <3>3. ASSUME NEW j \in k + 1 .. Len(u) PROVE j - 1 \in k .. Len(s) /\ u[j] = s[j - 1]
      BY <1>2
    <3> QED BY <3>1, <3>2, <3>3
  <2>2. CASE i # 1
    <3>1. i - 1 \in 1 .. Len(s) /\ u[i] = s[i - 1] /\ (i - 1) + 1 = i
      BY <1>2, <1>4, <2>2
    <3> QED BY <2>1, <3>1
  <2>3. CASE i = 1
    <3>1. Shared(s) <=> \A j \in 2 .. Len(u) : u[j].block \notin Looped
      <4>1. CASE s = <<>>
        BY <1>2, <1>3, <4>1 DEF Shared
      <4>2. CASE s # <<>>
        <5>1. Head(s) = s[1] /\ 1 \in 1 .. Len(s) /\ 1 + 1 = 2
          BY <1>1, <4>2, OffTop
        <5> QED BY <2>1, <4>2, <5>1 DEF Shared
      <4> QED BY <4>1, <4>2
    <3>2. (\A j \in 1 .. Len(u) : u[j].block \notin Looped)
            <=> f.block \notin Looped /\ \A j \in 2 .. Len(u) : u[j].block \notin Looped
      <4>1. \A j \in 1 .. Len(u) : j = 1 \/ j \in 2 .. Len(u)
        BY <1>2
      <4>2. 1 \in 1 .. Len(u) /\ 2 .. Len(u) \subseteq 1 .. Len(u)
        BY <1>2
      <4> QED BY <1>2, <4>1, <4>2
    <3> QED BY <1>2, <2>3, <3>1, <3>2
  <2> QED BY <2>2, <2>3
<1> QED BY <1>2, <1>5, <1>6, <1>7, <1>8 DEF Nest, u

\* A block that is left: the walker is back at it in the list around.
LEMMA NestPopped ==
  ASSUME NEW t \in Tasks, NEW s, Nest(s, t), s # <<>>
  PROVE  /\ Nest(Tail(s), t)
         /\ Tail(s) = <<>> => Head(s).block = t
         /\ Tail(s) # <<>> => /\ Head(Tail(s)).next > 1 /\ Head(Tail(s)).failed = NoTask
                              /\ Head(s).block = TaskOf(Head(Tail(s)))
<1> DEFINE u == Tail(s)
<1>1. s \in Seq(FrameType)
  BY DEF Nest
<1>2. /\ u \in Seq(FrameType) /\ Len(u) = Len(s) - 1 /\ Len(s) \in Nat \ {0}
      /\ Head(s) = s[1] /\ \A i \in 1 .. Len(s) - 1 : u[i] = s[i + 1]
      /\ u = <<>> <=> Len(s) = 1
  BY <1>1, OffTop
<1> HIDE DEF u
<1>3. ASSUME NEW i \in 1 .. Len(u)
      PROVE  i + 1 \in 1 .. Len(s) /\ u[i] = s[i + 1]
  BY <1>2
<1>4. ASSUME NEW i \in 1 .. Len(u)
      PROVE  /\ u[i].block \in Subtree(t) /\ Kind[u[i].block] = "block"
             /\ u[i].next \in 1 .. Len(List(u[i])) + 1
             /\ i = Len(u) => u[i].block = t
             /\ i < Len(u) => u[i].block = TaskOf(u[i + 1])
  <2>1. i + 1 \in 1 .. Len(s) /\ u[i] = s[i + 1] /\ (i = Len(u) <=> i + 1 = Len(s))
    BY <1>2, <1>3
  <2>2. i < Len(u) => i + 1 < Len(s) /\ u[i + 1] = s[i + 1 + 1]
    BY <1>2, <2>1
  <2> QED BY <2>1, <2>2 DEF Nest
<1>5. ASSUME NEW i \in 1 .. Len(u), NEW j \in i + 1 .. Len(u)
      PROVE  u[j].next > 1 /\ u[j].failed = NoTask /\ u[i].block \in Subtree(TaskOf(u[j]))
  <2>1. /\ i + 1 \in 1 .. Len(s) /\ u[i] = s[i + 1]
        /\ j + 1 \in (i + 1) + 1 .. Len(s) /\ u[j] = s[j + 1]
    BY <1>2, <1>3
  <2> QED BY <2>1 DEF Nest
<1>6. ASSUME NEW i \in 1 .. Len(u)
      PROVE  u[i].coord <=> \A j \in i .. Len(u) : u[j].block \notin Looped
  <2>1. s[i + 1].coord <=> \A j \in i + 1 .. Len(s) : s[j].block \notin Looped
    BY <1>3 DEF Nest
  <2>2. ASSUME NEW j \in i .. Len(u) PROVE j + 1 \in i + 1 .. Len(s) /\ u[j] = s[j + 1]
    BY <1>2
  <2>3. ASSUME NEW j \in i + 1 .. Len(s) PROVE j - 1 \in i .. Len(u) /\ u[j - 1] = s[j]
    BY <1>2
  <2> QED BY <1>3, <2>1, <2>2, <2>3
<1>7. u = <<>> => Head(s).block = t
  BY <1>2 DEF Nest
<1>8. ASSUME u # <<>>
      PROVE  /\ Head(u).next > 1 /\ Head(u).failed = NoTask /\ Head(s).block = TaskOf(Head(u))
  <2>1. Head(u) = u[1] /\ u[1] = s[2] /\ 1 < Len(s) /\ 2 \in 1 + 1 .. Len(s) /\ 1 \in 1 .. Len(s)
    BY <1>2, <1>8, OffTop
  <2>2. s[1].block = TaskOf(s[1 + 1]) /\ s[2].next > 1 /\ s[2].failed = NoTask
    BY <2>1 DEF Nest
  <2> QED BY <1>2, <2>1, <2>2
<1> QED BY <1>2, <1>4, <1>5, <1>6, <1>7, <1>8 DEF Nest, u

\* A stack with another frame on top.
LEMMA Swapped ==
  ASSUME NEW s \in Seq(FrameType), s # <<>>, NEW f \in FrameType
  PROVE  /\ <<f>> \o Tail(s) \in Seq(FrameType) /\ <<f>> \o Tail(s) # <<>>
         /\ Head(<<f>> \o Tail(s)) = f /\ Tail(<<f>> \o Tail(s)) = Tail(s)
         /\ Len(<<f>> \o Tail(s)) = Len(s) /\ Len(s) \in Nat \ {0} /\ Head(s) = s[1]
         /\ (<<f>> \o Tail(s))[1] = f /\ \A i \in 2 .. Len(s) : (<<f>> \o Tail(s))[i] = s[i]
<1> DEFINE u == <<f>> \o Tail(s)
<1>1. /\ Tail(s) \in Seq(FrameType) /\ Len(Tail(s)) = Len(s) - 1 /\ Len(s) \in Nat \ {0}
      /\ Head(s) = s[1] /\ \A i \in 1 .. Len(s) - 1 : Tail(s)[i] = s[i + 1]
  BY OffTop
<1>2. /\ u \in Seq(FrameType) /\ u # <<>> /\ Len(u) = Len(Tail(s)) + 1
      /\ Head(u) = f /\ Tail(u) = Tail(s)
      /\ u[1] = f /\ \A i \in 2 .. Len(Tail(s)) + 1 : u[i] = Tail(s)[i - 1]
  BY <1>1, OnTop
<1> HIDE DEF u
<1>3. ASSUME NEW i \in 2 .. Len(s) PROVE u[i] = s[i]
  <2>1. i \in 2 .. Len(Tail(s)) + 1 /\ i - 1 \in 1 .. Len(s) - 1 /\ i - 1 + 1 = i
    BY <1>1
  <2> QED BY <1>1, <1>2, <2>1
<1>4. Len(u) = Len(s)
  BY <1>1, <1>2
<1> QED BY <1>1, <1>2, <1>3, <1>4 DEF u

\* A change of the innermost frame.
LEMMA NestReplaced ==
  ASSUME NEW t \in Tasks, NEW s, Nest(s, t), s # <<>>, NEW f \in FrameType,
         f.block = Head(s).block, f.coord = Head(s).coord, f.next <= Len(List(f)) + 1, f.next # 0
  PROVE  Nest(<<f>> \o Tail(s), t)
<1> DEFINE u == <<f>> \o Tail(s)
<1>1. s \in Seq(FrameType)
  BY DEF Nest
<1>2. /\ u \in Seq(FrameType) /\ Len(s) \in Nat \ {0} /\ Head(s) = s[1] /\ u[1] = f
  BY <1>1, Swapped
<1>3. Len(u) = Len(s) /\ \A i \in 2 .. Len(s) : u[i] = s[i]
  BY <1>1, Swapped
<1> HIDE DEF u
<1>4. \A i \in 1 .. Len(s) :
        u[i].block = s[i].block /\ u[i].coord = s[i].coord /\ (i # 1 => u[i] = s[i])
  <2>1. \A i \in 1 .. Len(s) : i = 1 \/ i \in 2 .. Len(s)
    BY <1>2
  <2> QED BY <1>2, <1>3, <2>1
<1>5. f.next \in 1 .. Len(List(f)) + 1
  <2>1. f.block \in Tasks /\ f.arm \in Arms /\ f.next \in Nat
    BY DEF FrameType
  <2>2. Len(List(f)) \in Nat
    BY <2>1, Elements DEF List
  <2> QED BY <2>1, <2>2
<1>6. ASSUME NEW i \in 1 .. Len(s)
      PROVE  u[i].next \in 1 .. Len(List(u[i])) + 1
  BY <1>2, <1>4, <1>5 DEF Nest
<1>7. ASSUME NEW i \in 1 .. Len(s)
      PROVE  u[i].coord <=> \A j \in i .. Len(s) : u[j].block \notin Looped
  <2>1. s[i].coord <=> \A j \in i .. Len(s) : s[j].block \notin Looped
    BY DEF Nest
  <2>2. \A j \in i .. Len(s) : u[j].block = s[j].block
    BY <1>2, <1>4
  <2>3. u[i].coord = s[i].coord
    BY <1>4
  <2> QED BY <2>1, <2>2, <2>3
<1>8. ASSUME NEW i \in 1 .. Len(s), i < Len(s)
      PROVE  u[i].block = TaskOf(u[i + 1])
  <2>1. i + 1 \in 2 .. Len(s)
    BY <1>2, <1>8
  <2>2. u[i + 1] = s[i + 1] /\ u[i].block = s[i].block
    BY <1>3, <1>4, <2>1
  <2>3. s[i].block = TaskOf(s[i + 1])
    BY <1>8 DEF Nest
  <2> QED BY <2>2, <2>3
<1>9. ASSUME NEW i \in 1 .. Len(s), NEW j \in i + 1 .. Len(s)
       PROVE  u[j].next > 1 /\ u[j].failed = NoTask /\ u[i].block \in Subtree(TaskOf(u[j]))
  <2>1. j \in 2 .. Len(s)
    BY <1>2
  <2>2. u[j] = s[j] /\ u[i].block = s[i].block
    BY <1>3, <1>4, <2>1
  <2>3. s[j].next > 1 /\ s[j].failed = NoTask /\ s[i].block \in Subtree(TaskOf(s[j]))
    BY DEF Nest
  <2> QED BY <2>2, <2>3
<1>10. ASSUME NEW i \in 1 .. Len(s)
       PROVE  /\ u[i].block \in Subtree(t) /\ Kind[u[i].block] = "block"
              /\ i = Len(s) => u[i].block = t
  <2>1. u[i].block = s[i].block
    BY <1>4
  <2>2. /\ s[i].block \in Subtree(t) /\ Kind[s[i].block] = "block"
        /\ i = Len(s) => s[i].block = t
    BY DEF Nest
  <2> QED BY <2>1, <2>2
<1> QED BY <1>2, <1>3, <1>6, <1>7, <1>8, <1>9, <1>10 DEF Nest, u

-----------------------------------------------------------------------------
(* Verdicts of siblings *)

\* What happens in one task of a block leaves the others alone.
LEMMA Elsewhere ==
  ASSUME NEW b \in Tasks, NEW a \in Arms, NEW k \in 1 .. Len(Arm[b][a]), NEW v, NEW w,
         \A u \in Tasks \ Subtree(Arm[b][a][k]) : w[u] = v[u]
  PROVE  /\ w[b] = v[b]
         /\ \A i \in 1 .. Len(Arm[b][a]) : i # k =>
              w[Arm[b][a][i]] = v[Arm[b][a][i]] /\ (Fresh(v, Arm[b][a][i]) => Fresh(w, Arm[b][a][i]))
         /\ \A d \in Arms : d # a =>
              /\ \A c \in Range(Arm[b][d]) : w[c] = v[c] /\ (Fresh(v, c) => Fresh(w, c))
              /\ Fails(w, Arm[b][d]) <=> Fails(v, Arm[b][d])
<1>1. ASSUME NEW d \in Arms, NEW i \in 1 .. Len(Arm[b][d]), d # a \/ i # k
      PROVE  w[Arm[b][d][i]] = v[Arm[b][d][i]] /\ (Fresh(v, Arm[b][d][i]) => Fresh(w, Arm[b][d][i]))
  <2> DEFINE c == Arm[b][d][i]
  <2>1. Subtree(c) \cap Subtree(Arm[b][a][k]) = {}
    BY <1>1, Siblings
  <2>2. c \in Subtree(c)
    BY ChildNested
  <2>3. \A u \in Subtree(c) : w[u] = v[u]
    BY <2>1 DEF Subtree
  <2> QED BY <2>2, <2>3 DEF Fresh
<1>2. ASSUME NEW d \in Arms, d # a
      PROVE  /\ \A c \in Range(Arm[b][d]) : w[c] = v[c] /\ (Fresh(v, c) => Fresh(w, c))
             /\ Fails(w, Arm[b][d]) <=> Fails(v, Arm[b][d])
  <2>1. Range(Arm[b][d]) = {Arm[b][d][i] : i \in 1 .. Len(Arm[b][d])}
    BY Elements
  <2>2. \A c \in Range(Arm[b][d]) : w[c] = v[c] /\ (Fresh(v, c) => Fresh(w, c))
    BY <1>1, <1>2, <2>1
  <2> QED BY <2>2 DEF Fails
<1>3. w[b] = v[b]
  BY ChildNested
<1> QED BY <1>1, <1>2, <1>3

\* A frame with the walker inside its task says nothing about that task.
LEMMA Undisturbed ==
  ASSUME NEW f \in FrameType, f.next - 1 \in 1 .. Len(List(f)), NEW v, NEW w,
         \A u \in Tasks \ Subtree(TaskOf(f)) : w[u] = v[u], Within(f, v)
  PROVE  Within(f, w)
<1> DEFINE b == f.block
           a == f.arm
           k == f.next - 1
           L == Arm[b][a]
<1>1. b \in Tasks /\ a \in Arms /\ f.next \in Nat /\ List(f) = L /\ k \in 1 .. Len(L) /\ TaskOf(f) = L[k]
  BY DEF FrameType, List, TaskOf
<1>2. Len(L) \in Nat
  BY <1>1, Elements
<1> HIDE DEF b, a, k, L
<1>a. \A u \in Tasks \ Subtree(Arm[b][a][k]) : w[u] = v[u]
  BY <1>1 DEF L
<1>3. /\ \A i \in 1 .. Len(L) : i # k => w[L[i]] = v[L[i]] /\ (Fresh(v, L[i]) => Fresh(w, L[i]))
      /\ \A d \in Arms : d # a =>
           /\ \A c \in Range(Arm[b][d]) : w[c] = v[c] /\ (Fresh(v, c) => Fresh(w, c))
           /\ Fails(w, Arm[b][d]) <=> Fails(v, Arm[b][d])
  <2>1. k \in 1 .. Len(Arm[b][a]) /\ b \in Tasks /\ a \in Arms
    BY <1>1 DEF L
  <2>2. /\ \A i \in 1 .. Len(Arm[b][a]) : i # k =>
             w[Arm[b][a][i]] = v[Arm[b][a][i]] /\ (Fresh(v, Arm[b][a][i]) => Fresh(w, Arm[b][a][i]))
        /\ \A d \in Arms : d # a =>
             /\ \A c \in Range(Arm[b][d]) : w[c] = v[c] /\ (Fresh(v, c) => Fresh(w, c))
             /\ Fails(w, Arm[b][d]) <=> Fails(v, Arm[b][d])
    BY <1>a, <2>1, Elsewhere
  <2> QED BY <2>2 DEF L
<1>4. \A i \in f.next .. Len(List(f)) : Fresh(w, List(f)[i])
  <2>1. \A i \in f.next .. Len(L) : i \in 1 .. Len(L) /\ i # k /\ Fresh(v, L[i])
    BY <1>1, <1>2 DEF Within, Between, Midway, k
  <2> QED BY <1>1, <1>3, <2>1
<1>5. \A i \in 1 .. f.next - 2 : w[List(f)[i]] = "failed" => f.failed # NoTask
  <2>1. \A i \in 1 .. f.next - 2 : i \in 1 .. Len(L) /\ i # k /\ (v[L[i]] = "failed" => f.failed # NoTask)
    BY <1>1, <1>2 DEF Within, Between, Midway, k
  <2> QED BY <1>1, <1>3, <2>1
<1>6. a = "tasks" => ~f.over /\ \A c \in Range(Arm[b].rescue) \cup Range(Arm[b].always) : Fresh(w, c)
  BY <1>3 DEF Within, Between, Midway, Arms, a, b
<1>7. a = "rescue" => ~f.over /\ Fails(w, Arm[b].tasks) /\ \A c \in Range(Arm[b].always) : Fresh(w, c)
  BY <1>3 DEF Within, Between, Midway, Arms, a, b
<1>8. ASSUME a = "always"
      PROVE  (f.over <=> Lost(w, b)) /\ (f.next - 2 > 0 => Tried(w, b))
  <2>1. f.over <=> Lost(v, b)
    BY <1>8 DEF Within, Between, Midway, a, b
  <2>2. Lost(v, b) <=> Lost(w, b)
    BY <1>3, <1>8 DEF Lost, Arms
  <2>3. ASSUME f.next - 2 > 0
        PROVE  Tried(w, b)
    <3>1. 1 \in 1 .. Len(L) /\ 1 # k
      BY <1>1, <1>2, <2>3 DEF k
    <3>2. w[L[1]] = v[L[1]] /\ L = Arm[b].always
      BY <1>3, <1>8, <3>1 DEF L
    <3>3. Tried(v, b)
      BY <1>8, <2>3 DEF Within, Between, Midway, a, b
    <3> QED BY <3>2, <3>3 DEF Tried
  <2> QED BY <2>1, <2>2, <2>3
<1>9. f.left = 0 /\ (a = "rescue" => Arm[b].rescue # <<>>)
  BY DEF Within, Between, Midway, a, b
<1> QED BY <1>4, <1>5, <1>6, <1>7, <1>8, <1>9 DEF Within, Between, Midway, a, b

\* What the verdicts say of a block, those of its children say.
LEMMA OfChildren ==
  ASSUME NEW b \in Tasks, NEW v, NEW w, \A c \in Range(Children(b)) : w[c] = v[c]
  PROVE  /\ \A a \in Arms : Fails(w, Arm[b][a]) <=> Fails(v, Arm[b][a])
         /\ Lost(w, b) <=> Lost(v, b)
         /\ Tried(w, b) <=> Tried(v, b)
         /\ Disciplined(w, b) <=> Disciplined(v, b)
         /\ \A r : Meant(w, b, r) <=> Meant(v, b, r)
<1>1. Range(Children(b)) = Range(Arm[b].tasks) \cup Range(Arm[b].rescue) \cup Range(Arm[b].always)
  BY ChildrenOf
<1>2. \A a \in Arms : \A c \in Range(Arm[b][a]) : w[c] = v[c]
  BY <1>1 DEF Arms
<1>3. \A a \in Arms : Fails(w, Arm[b][a]) <=> Fails(v, Arm[b][a])
  BY <1>2 DEF Fails
<1>4. Lost(w, b) <=> Lost(v, b)
  BY <1>3 DEF Lost, Arms
<1>5. Tried(w, b) <=> Tried(v, b)
  <2>1. CASE Arm[b].always = <<>>
    BY <2>1 DEF Tried
  <2>2. CASE Arm[b].always # <<>>
    <3>1. 1 \in 1 .. Len(Arm[b].always)
      BY <2>2, Elements DEF Arms
    <3>2. Arm[b].always[1] \in Range(Arm[b].always)
      BY <3>1, Nested DEF Arms
    <3> QED BY <1>1, <3>2 DEF Tried
  <2> QED BY <2>1, <2>2
<1>6. Disciplined(w, b) <=> Disciplined(v, b)
  BY <1>2, <1>3 DEF Disciplined, Arms
<1>7. ASSUME NEW r
      PROVE  Meant(w, b, r) <=> Meant(v, b, r)
  <2>1. Fails(w, Arm[b].always) <=> Fails(v, Arm[b].always)
    BY <1>3 DEF Arms
  <2> QED BY <1>4, <1>5, <2>1 DEF Meant
<1> QED BY <1>3, <1>4, <1>5, <1>6, <1>7

\* A walker in a task outside all loops has a coord.
LEMMA OpenShared ==
  ASSUME NEW t \in Tasks, NEW s, Nest(s, t), s # <<>>, NEW u \in Subtree(Head(s).block), Unlooped(u)
  PROVE  Head(s).coord /\ Shared(s)
<1>1. s \in Seq(FrameType)
  BY DEF Nest
<1>2. Head(s) = s[1] /\ 1 \in 1 .. Len(s) /\ Len(s) \in Nat
  BY <1>1, OffTop
<1>3. ASSUME NEW j \in 1 .. Len(s)
      PROVE  s[j].block \notin Looped
  <2> DEFINE l == s[j].block
  <2>1. s[1].block \in Subtree(l)
    <3>1. CASE j = 1
      <4>1. l \in Tasks
        BY Spot
      <4> QED BY <3>1, <4>1, Numbers DEF Subtree
    <3>2. CASE j # 1
      <4>1. j \in 1 + 1 .. Len(s)
        BY <1>2, <3>2
      <4>2. s[j].next > 1 /\ s[1].block \in Subtree(TaskOf(s[j]))
        BY <1>2, <4>1 DEF Nest
      <4> QED BY <4>2, Spot
    <3> QED BY <3>1, <3>2
  <2>2. l \in Tasks
    BY Spot
  <2> HIDE DEF l
  <2>3. u \in Subtree(l)
    BY <1>2, <2>1, <2>2, Deeper
  <2>4. u \in Nat /\ l \in Nat /\ Size[u] \in Nat \ {0} /\ Size[l] \in Nat \ {0}
    BY <2>2, <2>3, Numbers DEF Subtree
  <2>5. u \in l .. l + Size[l] - 1
    BY <2>3, <2>4 DEF Subtree
  <2>6. l \notin Looped
    BY <2>5 DEF Unlooped
  <2> QED BY <2>6 DEF l
<1>4. s[1].coord
  BY <1>2, <1>3 DEF Nest
<1> QED BY <1>2, <1>4 DEF Shared

Endings == {"ok", "changed", "skipped", "failed"}
Verdicts == Endings \cup {"none"}

\* An ending is "failed" exactly for a failed result.
LEMMA EndingOf ==
  ASSUME NEW r, r.out \in Outs
  PROVE  Verdict(r) \in Endings /\ (Verdict(r) = "failed" <=> r.out = "failed")
BY DEF Verdict, Outs, Endings

\* The list that a block is at is one that its discipline admits.
LEMMA StaysDisciplined ==
  ASSUME NEW f \in FrameType, f.next - 1 \in 1 .. Len(List(f)), NEW v, NEW w,
         \A u \in Tasks \ Subtree(TaskOf(f)) : w[u] = v[u], Within(f, v),
         Disciplined(v, f.block)
  PROVE  Disciplined(w, f.block)
<1>1. PICK b \in Tasks, e \in Arms : b = f.block /\ e = f.arm
  BY DEF FrameType
<1>2. PICK n \in 1 .. Len(Arm[b][e]) : \A u \in Tasks \ Subtree(Arm[b][e][n]) : w[u] = v[u]
  BY <1>1 DEF TaskOf, List
<1>3. \A d \in Arms : d # e =>
        /\ \A c \in Range(Arm[b][d]) : w[c] = v[c] /\ (Fresh(v, c) => Fresh(w, c))
        /\ Fails(w, Arm[b][d]) <=> Fails(v, Arm[b][d])
  BY <1>2, Elsewhere
<1>4. CASE e = "tasks"
  <2>1. \A c \in Range(Arm[b].rescue) : Fresh(v, c)
    BY <1>1, <1>4 DEF Within, Between, Midway
  <2>2. \A c \in Range(Arm[b].rescue) : c \in Subtree(c)
    BY Kids DEF Arms
  <2>3. \A c \in Range(Arm[b].rescue) : v[c] = "none"
    BY <2>1, <2>2 DEF Fresh
  <2> QED BY <1>1, <1>3, <1>4, <2>3 DEF Disciplined, Arms
<1>5. CASE e = "rescue"
  <2>1. Fails(v, Arm[b].tasks)
    BY <1>1, <1>5 DEF Within, Between, Midway
  <2> QED BY <1>1, <1>3, <1>5, <2>1 DEF Disciplined, Arms
<1>6. CASE e = "always"
  BY <1>1, <1>3, <1>6 DEF Disciplined, Arms
<1> QED BY <1>4, <1>5, <1>6 DEF Arms

\* A task that ends, be it a leaf, a block that is skipped or one that is left.
LEMMA Ends ==
  ASSUME NEW t \in Tasks, \A b \in Tasks : t \notin Range(Children(b)),
         NEW s, Nest(s, t), NEW k \in Tasks, s = <<>> => k = t,
         s # <<>> => Head(s).next > 1 /\ Head(s).failed = NoTask /\ k = TaskOf(Head(s)),
         NEW v, NEW r, r.out \in Outs,
         NEW w, w[k] = Verdict(r), \A u \in Tasks : u # k => w[u] = v[u],
         \A i \in 1 .. Len(s) : s[i].coord => Within(s[i], v) /\ v[TaskOf(s[i])] = "none",
         \A b \in OpenBlocks : Disciplined(v, b),
         k \in OpenBlocks => Meant(v, k, r)
  PROVE  Control("return", k, s, r, w, t) /\ Meaning("return", k, s, r, w)
<1>1. /\ w[k] = Verdict(r) /\ \A u \in Tasks : u # k => w[u] = v[u]
  OBVIOUS
<1>2. Control("return", k, s, r, w, t)
  BY <1>1 DEF Control, Walking
<1>3. s \in Seq(FrameType) /\ k \in Subtree(k)
  BY Numbers DEF Nest, Subtree
<1>4. ASSUME NEW i \in 1 .. Len(s)
      PROVE  /\ s \in Seq(FrameType) /\ s # <<>> /\ Head(s) = s[1] /\ s[i] \in FrameType
             /\ s[i].next > 1 /\ s[i].next - 1 \in 1 .. Len(List(s[i])) /\ TaskOf(s[i]) \in Tasks
             /\ k \in Subtree(TaskOf(s[i])) /\ (i > 1 => k # TaskOf(s[i]))
  <2>1. s # <<>> /\ Head(s) = s[1]
    BY <1>3, EmptySeq
  <2>2. s[i].next > 1 /\ k \in Subtree(TaskOf(s[i])) /\ (i > 1 => k # TaskOf(s[i]))
    <3>1. Head(s).next > 1 /\ k \in Subtree(TaskOf(Head(s)))
      BY <1>3, <2>1
    <3> QED BY <2>1, <3>1, Inside
  <2> QED BY <1>3, <2>1, <2>2, Spot
<1>5. ASSUME NEW i \in 1 .. Len(s), s[i].coord
      PROVE  Within(s[i], w) /\ (i > 1 => w[TaskOf(s[i])] = "none")
  <2>1. \A u \in Tasks \ Subtree(TaskOf(s[i])) : w[u] = v[u]
    BY <1>1, <1>4
  <2>2. Within(s[i], w)
    BY <1>4, <1>5, <2>1, Undisturbed
  <2> QED BY <1>1, <1>4, <1>5, <2>2
<1>6. ASSUME NEW b \in OpenBlocks
      PROVE  Disciplined(w, b)
  <2>1. b \in Tasks /\ Unlooped(b) /\ Disciplined(v, b)
    BY <1>6 DEF OpenBlocks
  <2>2. CASE k \notin Range(Children(b))
    <3>1. \A c \in Range(Children(b)) : c \in Tasks
      BY <2>1, Kids
    <3>2. \A c \in Range(Children(b)) : w[c] = v[c]
      BY <1>1, <2>2, <3>1
    <3> QED BY <2>1, <3>2, OfChildren
  <2>3. CASE k \in Range(Children(b))
    <3> DEFINE f == Head(s)
    <3>1. s # <<>> /\ k = TaskOf(f)
      BY <2>1, <2>3
    <3>2. 1 \in 1 .. Len(s) /\ f = s[1]
      BY <1>3, <3>1, EmptySeq
    <3>3. /\ f \in FrameType /\ f.block \in Tasks /\ f.arm \in Arms /\ f.next - 1 \in 1 .. Len(List(f))
          /\ k \in Range(Arm[f.block][f.arm])
      BY <3>1, <3>2, <1>4, Spot
    <3>4. k \in Range(Children(f.block))
      BY <3>3, ChildrenOf DEF Arms
    <3>5. f.block = b
      BY <2>1, <2>3, <3>3, <3>4, PreOrderAssumption
    <3>6. b \in Subtree(b)
      BY <2>1, Numbers DEF Subtree
    <3>7. f.coord
      BY <2>1, <3>1, <3>5, <3>6, OpenShared
    <3>8. Within(f, v) /\ v[k] = "none"
      BY <3>1, <3>2, <3>7
    <3> HIDE DEF f
    <3>9. \A u \in Tasks \ Subtree(TaskOf(f)) : w[u] = v[u]
      BY <1>1, <1>3, <3>1
    <3> QED BY <2>1, <3>3, <3>5, <3>8, <3>9, StaysDisciplined
  <2> QED BY <2>2, <2>3
<1>7. ASSUME k \in OpenBlocks
      PROVE  Meant(w, k, r)
  <2>1. \A c \in Range(Children(k)) : c \in Tasks /\ c # k
    BY Kids
  <2>2. \A c \in Range(Children(k)) : w[c] = v[c]
    BY <1>1, <2>1
  <2> QED BY <1>7, <2>2, OfChildren
<1> QED BY <1>2, <1>5, <1>6, <1>7 DEF Meaning

-----------------------------------------------------------------------------
(* `ansible_failed_task` *)

\* The innermost frame decides, unless it is in no rescue arm.
LEMMA BlamesTop ==
  ASSUME NEW s \in Seq(FrameType), NEW n \in 1 .. Len(s), NEW v, NEW x
  PROVE  Blames(s, n, v, x) <=> IF s[n].arm = "rescue"
                                  THEN x \in Range(Arm[s[n].block].tasks) /\ v[x] = "failed"
                                  ELSE Blames(s, n + 1, v, x)
<1>1. Len(s) \in Nat /\ n \in n .. Len(s) /\ \A j \in n .. n - 1 : FALSE
  BY LenProperties
<1>2. \A i \in n .. Len(s) : i = n \/ (i \in n + 1 .. Len(s) /\ n \in n .. i - 1)
  BY <1>1
<1>3. \A i \in n + 1 .. Len(s) : i \in n .. Len(s) /\ \A j \in n + 1 .. i - 1 : j \in n .. i - 1
  BY <1>1
<1>4. CASE s[n].arm = "rescue"
  BY <1>1, <1>2, <1>4 DEF Blames
<1>5. CASE s[n].arm # "rescue"
  <2>1. \A i \in n + 1 .. Len(s) : \A j \in n .. i - 1 : j = n \/ j \in n + 1 .. i - 1
    BY <1>1
  <2>2. (\A i \in n .. Len(s) : s[i].arm # "rescue") <=> (\A i \in n + 1 .. Len(s) : s[i].arm # "rescue")
    BY <1>2, <1>3, <1>5
  <2>3. \A i \in n + 1 .. Len(s) :
          (\A j \in n .. i - 1 : s[j].arm # "rescue") <=> (\A j \in n + 1 .. i - 1 : s[j].arm # "rescue")
    BY <1>3, <1>5, <2>1
  <2>4. Blames(s, n, v, x) => Blames(s, n + 1, v, x)
    BY <1>3, <2>2, <2>3 DEF Blames
  <2>5. Blames(s, n + 1, v, x) => Blames(s, n, v, x)
    BY <1>2, <1>5, <2>2, <2>3 DEF Blames
  <2> QED BY <1>5, <2>4, <2>5
<1> QED BY <1>4, <1>5

\* The frames from `n` on elsewhere, with the failures of their tasks kept.
LEMMA BlamesAlike ==
  ASSUME NEW s \in Seq(FrameType), NEW u \in Seq(FrameType), NEW d \in Int, NEW n \in Int,
         Len(u) = Len(s) + d, NEW v, NEW w, NEW x,
         \A i \in n .. Len(s) : u[i + d].arm = s[i].arm /\ u[i + d].block = s[i].block,
         \A i \in n .. Len(s) : s[i].arm = "rescue" =>
           \A y \in Range(Arm[s[i].block].tasks) : v[y] = "failed" => w[y] = "failed",
         Blames(s, n, v, x)
  PROVE  Blames(u, n + d, w, x)
<1> DEFINE m == n + d
<1>1. Len(s) \in Nat /\ Len(u) \in Nat /\ m \in Int
  BY LenProperties
<1>2. ASSUME NEW i \in n .. Len(s)
      PROVE  i + d \in m .. Len(u) /\ (i + d) - d = i
  BY <1>1
<1>3. ASSUME NEW i \in m .. Len(u)
      PROVE  i - d \in n .. Len(s) /\ (i - d) + d = i
  BY <1>1
<1>4. ASSUME \A i \in m .. Len(u) : u[i].arm # "rescue"
      PROVE  x = NoTask
  <2>1. \A i \in n .. Len(s) : s[i].arm # "rescue"
    BY <1>2, <1>4
  <2> QED BY <2>1 DEF Blames
<1>5. ASSUME NEW i \in m .. Len(u), u[i].arm = "rescue", \A j \in m .. i - 1 : u[j].arm # "rescue"
      PROVE  x \in Range(Arm[u[i].block].tasks) /\ w[x] = "failed"
  <2> DEFINE k == i - d
  <2>1. k \in n .. Len(s) /\ k + d = i
    BY <1>3
  <2>2. u[i].arm = s[k].arm /\ u[i].block = s[k].block
    BY <2>1
  <2>3. ASSUME NEW j \in n .. k - 1
        PROVE  s[j].arm # "rescue"
    <3>1. j \in n .. Len(s) /\ j + d \in m .. i - 1
      BY <1>1, <2>1
    <3>2. u[j + d].arm = s[j].arm /\ u[j + d].arm # "rescue"
      BY <1>5, <3>1
    <3> QED BY <3>2
  <2>4. s[k].arm = "rescue"
    BY <1>5, <2>2
  <2> HIDE DEF k
  <2>5. x \in Range(Arm[s[k].block].tasks) /\ v[x] = "failed"
    BY <2>1, <2>3, <2>4 DEF Blames
  <2>6. w[x] = "failed"
    BY <2>1, <2>4, <2>5
  <2> QED BY <2>2, <2>5, <2>6
<1> QED BY <1>4, <1>5 DEF Blames

\* A task that ends is in no list that has failed already.
LEMMA ScopedEnds ==
  ASSUME NEW t \in Tasks, NEW s, Nest(s, t), NEW k \in Tasks,
         s # <<>> => Head(s).next > 1 /\ k = TaskOf(Head(s)),
         NEW v, NEW w, \A u \in Tasks : u # k => w[u] = v[u], NEW x, Scoped(s, v, x)
  PROVE  Scoped(s, w, x)
<1>1. s \in Seq(FrameType) /\ Len(s) \in Nat /\ k \in Subtree(k)
  BY LenProperties, Numbers DEF Nest, Subtree
<1>2. ASSUME NEW i \in 1 .. Len(s), s[i].arm = "rescue", NEW y \in Range(Arm[s[i].block].tasks), v[y] = "failed"
      PROVE  w[y] = "failed"
  <2>1. s # <<>>
    BY <1>1, EmptySeq
  <2>2. s[i].next > 1 /\ k \in Subtree(TaskOf(s[i]))
    BY <1>1, <2>1, Inside
  <2>3. PICK b \in Tasks, q \in Arms, p \in Arms : b = s[i].block /\ q = "rescue" /\ p = "tasks"
    BY Spot DEF Arms
  <2>4. PICK n \in 1 .. Len(Arm[b][q]) : k \in Subtree(Arm[b][q][n])
    <3>1. s[i].next - 1 \in 1 .. Len(List(s[i]))
      BY <2>2, Spot
    <3> QED BY <1>2, <2>2, <2>3, <3>1 DEF TaskOf, List
  <2>5. PICK m \in 1 .. Len(Arm[b][p]) : y = Arm[b][p][m]
    <3>1. Range(Arm[b][p]) = {Arm[b][p][m] : m \in 1 .. Len(Arm[b][p])}
      BY Elements
    <3> QED BY <1>2, <2>3, <3>1
  <2>6. Subtree(Arm[b][q][n]) \cap Subtree(Arm[b][p][m]) = {}
    <3>1. q # p
      BY <2>3
    <3> QED BY <3>1, Siblings
  <2>7. y \in Subtree(y) /\ y \in Tasks
    BY <2>5, ChildNested, Nested
  <2>8. y # k
    BY <2>4, <2>5, <2>6, <2>7
  <2> QED BY <1>2, <2>7, <2>8
<1>3. ASSUME NEW n \in Int, n >= 1, NEW y, Blames(s, n, v, y)
      PROVE  Blames(s, n, w, y)
  <2>1. Len(s) = Len(s) + 0 /\ n + 0 = n /\ \A i \in n .. Len(s) : i \in 1 .. Len(s) /\ i + 0 = i
    BY <1>1, <1>3
  <2>2. \A i \in n .. Len(s) : s[i + 0].arm = s[i].arm /\ s[i + 0].block = s[i].block
    BY <2>1
  <2>3. \A i \in n .. Len(s) : s[i].arm = "rescue" =>
          \A z \in Range(Arm[s[i].block].tasks) : v[z] = "failed" => w[z] = "failed"
    BY <1>2, <2>1
  <2>4. 0 \in Int
    OBVIOUS
  <2>5. Blames(s, n + 0, w, y)
    BY <1>1, <1>3, <2>1, <2>2, <2>3, <2>4, BlamesAlike
  <2> QED BY <2>1, <2>5
<1>4. Blames(s, 1, w, x)
  BY <1>3 DEF Scoped
<1>5. \A i \in 1 .. Len(s) : i + 1 \in Int /\ i + 1 >= 1
  BY <1>1
<1>6. \A i \in 1 .. Len(s) : s[i].arm = "rescue" => Blames(s, i + 1, w, s[i].saved)
  BY <1>3, <1>5 DEF Scoped
<1> QED BY <1>4, <1>6 DEF Scoped

\* What the frames outside of the innermost one say, they say without it.
LEMMA ScopedTail ==
  ASSUME NEW s \in Seq(FrameType), NEW u \in Seq(FrameType), NEW d \in Int, NEW n \in Int, n >= 1,
         Len(u) = Len(s) + d, n + d >= 1, NEW v,
         \A i \in n .. Len(s) : u[i + d] = s[i],
         \A i \in n .. Len(s) : s[i].arm = "rescue" => Blames(s, i + 1, v, s[i].saved)
  PROVE  /\ \A x : Blames(s, n, v, x) => Blames(u, n + d, v, x)
         /\ \A i \in n + d .. Len(u) : u[i].arm = "rescue" => Blames(u, i + 1, v, u[i].saved)
<1>1. Len(s) \in Nat /\ Len(u) \in Nat /\ n + d \in Int
  BY LenProperties
<1>2. ASSUME NEW m \in Int, m >= n, NEW x, Blames(s, m, v, x)
      PROVE  Blames(u, m + d, v, x)
  <2>1. \A i \in m .. Len(s) : i \in n .. Len(s)
    BY <1>1, <1>2
  <2>2. \A i \in m .. Len(s) : u[i + d].arm = s[i].arm /\ u[i + d].block = s[i].block
    BY <2>1
  <2> QED BY <1>2, <2>2, BlamesAlike
<1>3. \A x : Blames(s, n, v, x) => Blames(u, n + d, v, x)
  BY <1>2
<1>4. ASSUME NEW i \in n + d .. Len(u), u[i].arm = "rescue"
      PROVE  Blames(u, i + 1, v, u[i].saved)
  <2> DEFINE j == i - d
  <2>1. j \in n .. Len(s) /\ j + d = i /\ j + 1 \in Int /\ j + 1 >= n /\ (j + 1) + d = i + 1
    BY <1>1
  <2>2. u[i] = s[j]
    BY <2>1
  <2> HIDE DEF j
  <2>3. Blames(s, j + 1, v, s[j].saved)
    BY <1>4, <2>1, <2>2
  <2>4. Blames(u, (j + 1) + d, v, s[j].saved)
    BY <1>2, <2>1, <2>3
  <2> QED BY <2>1, <2>2, <2>4
<1> QED BY <1>3, <1>4

\* What a stack is scoped to outside of its innermost frame.
Outer(s, x) == IF Head(s).arm = "rescue" THEN Head(s).saved ELSE x

\* A stack is well scoped if it is without its innermost frame, and that frame
\* blames a failure if it is in its rescue arm.
LEMMA ScopedTop ==
  ASSUME NEW s \in Seq(FrameType), s # <<>>, NEW v, NEW x
  PROVE  Scoped(s, v, x) <=>
           /\ Head(s).arm = "rescue" => x \in Range(Arm[Head(s).block].tasks) /\ v[x] = "failed"
           /\ Blames(s, 2, v, Outer(s, x))
           /\ \A i \in 2 .. Len(s) : s[i].arm = "rescue" => Blames(s, i + 1, v, s[i].saved)
<1>1. Head(s) = s[1] /\ Len(s) \in Nat /\ 1 \in 1 .. Len(s) /\ 1 + 1 = 2
  BY OffTop
<1>2. Blames(s, 1, v, x) <=> IF s[1].arm = "rescue"
                               THEN x \in Range(Arm[s[1].block].tasks) /\ v[x] = "failed"
                               ELSE Blames(s, 1 + 1, v, x)
  BY <1>1, BlamesTop
<1>3. \A i \in 1 .. Len(s) : i = 1 \/ i \in 2 .. Len(s)
  BY <1>1
<1>4. \A i \in 2 .. Len(s) : i \in 1 .. Len(s)
  BY <1>1
<1>5. (\A i \in 1 .. Len(s) : s[i].arm = "rescue" => Blames(s, i + 1, v, s[i].saved))
        <=> /\ s[1].arm = "rescue" => Blames(s, 2, v, s[1].saved)
            /\ \A i \in 2 .. Len(s) : s[i].arm = "rescue" => Blames(s, i + 1, v, s[i].saved)
  BY <1>1, <1>3, <1>4
<1> QED BY <1>1, <1>2, <1>5 DEF Scoped, Outer

\* Entering a block, outside of its rescue arm.
LEMMA ScopedPushed ==
  ASSUME NEW s \in Seq(FrameType), NEW f \in FrameType, f.arm # "rescue", NEW v, NEW x, Scoped(s, v, x)
  PROVE  Scoped(<<f>> \o s, v, x)
<1> DEFINE u == <<f>> \o s
<1>1. /\ u \in Seq(FrameType) /\ u # <<>> /\ Len(u) = Len(s) + 1 /\ Len(s) \in Nat /\ Head(u) = f
      /\ \A i \in 2 .. Len(s) + 1 : u[i] = s[i - 1]
  BY OnTop
<1> HIDE DEF u
<1>2. \A i \in 1 .. Len(s) : u[i + 1] = s[i]
  <2>1. \A i \in 1 .. Len(s) : i + 1 \in 2 .. Len(s) + 1 /\ (i + 1) - 1 = i
    BY <1>1
  <2> QED BY <1>1, <2>1
<1>3. /\ \A y : Blames(s, 1, v, y) => Blames(u, 2, v, y)
      /\ \A i \in 2 .. Len(u) : u[i].arm = "rescue" => Blames(u, i + 1, v, u[i].saved)
  <2>1. 1 \in Int /\ 1 >= 1 /\ 1 + 1 = 2 /\ 1 + 1 >= 1
    OBVIOUS
  <2>2. \A i \in 1 .. Len(s) : s[i].arm = "rescue" => Blames(s, i + 1, v, s[i].saved)
    BY DEF Scoped
  <2>3. /\ \A y : Blames(s, 1, v, y) => Blames(u, 1 + 1, v, y)
        /\ \A i \in 1 + 1 .. Len(u) : u[i].arm = "rescue" => Blames(u, i + 1, v, u[i].saved)
    BY <1>1, <1>2, <2>1, <2>2, ScopedTail
  <2> QED BY <2>1, <2>3
<1>4. Blames(u, 2, v, x)
  BY <1>3 DEF Scoped
<1>5. Outer(u, x) = x
  BY <1>1 DEF Outer
<1>6. Scoped(u, v, x) <=>
           /\ Head(u).arm = "rescue" => x \in Range(Arm[Head(u).block].tasks) /\ v[x] = "failed"
           /\ Blames(u, 2, v, Outer(u, x))
           /\ \A i \in 2 .. Len(u) : u[i].arm = "rescue" => Blames(u, i + 1, v, u[i].saved)
  BY <1>1, ScopedTop
<1> QED BY <1>1, <1>3, <1>4, <1>5, <1>6 DEF u

\* Moving from arm to arm: entering the rescue arm saves the variable, leaving it
\* puts it back.
LEMMA ScopedReplaced ==
  ASSUME NEW s \in Seq(FrameType), s # <<>>, NEW f \in FrameType, NEW v, NEW x, NEW y, Scoped(s, v, x),
         Outer(<<f>> \o Tail(s), y) = Outer(s, x),
         f.arm = "rescue" => y \in Range(Arm[f.block].tasks) /\ v[y] = "failed"
  PROVE  Scoped(<<f>> \o Tail(s), v, y)
<1> DEFINE u == <<f>> \o Tail(s)
<1>1. /\ u \in Seq(FrameType) /\ u # <<>> /\ Len(u) = Len(s) /\ Len(s) \in Nat /\ Head(u) = f
      /\ \A i \in 2 .. Len(s) : u[i] = s[i]
  BY Swapped
<1> HIDE DEF u
<1>2. Scoped(s, v, x) <=>
           /\ Head(s).arm = "rescue" => x \in Range(Arm[Head(s).block].tasks) /\ v[x] = "failed"
           /\ Blames(s, 2, v, Outer(s, x))
           /\ \A i \in 2 .. Len(s) : s[i].arm = "rescue" => Blames(s, i + 1, v, s[i].saved)
  BY <1>1, ScopedTop
<1>3. /\ \A z : Blames(s, 2, v, z) => Blames(u, 2, v, z)
      /\ \A i \in 2 .. Len(u) : u[i].arm = "rescue" => Blames(u, i + 1, v, u[i].saved)
  <2>1. /\ 2 \in Int /\ 0 \in Int /\ 2 >= 1 /\ 2 + 0 = 2 /\ 2 + 0 >= 1 /\ Len(u) = Len(s) + 0
        /\ \A i \in 2 .. Len(s) : i + 0 = i
    BY <1>1
  <2>2. \A i \in 2 .. Len(s) : u[i + 0] = s[i]
    BY <1>1, <2>1
  <2>3. /\ \A z : Blames(s, 2, v, z) => Blames(u, 2 + 0, v, z)
        /\ \A i \in 2 + 0 .. Len(u) : u[i].arm = "rescue" => Blames(u, i + 1, v, u[i].saved)
    BY <1>1, <1>2, <2>1, <2>2, ScopedTail
  <2> QED BY <2>1, <2>3
<1>4. Blames(u, 2, v, Outer(u, y))
  BY <1>2, <1>3 DEF u
<1>5. Scoped(u, v, y) <=>
           /\ Head(u).arm = "rescue" => y \in Range(Arm[Head(u).block].tasks) /\ v[y] = "failed"
           /\ Blames(u, 2, v, Outer(u, y))
           /\ \A i \in 2 .. Len(u) : u[i].arm = "rescue" => Blames(u, i + 1, v, u[i].saved)
  BY <1>1, ScopedTop
<1> QED BY <1>1, <1>3, <1>4, <1>5 DEF u

\* Leaving a block, outside of its rescue arm.
LEMMA ScopedPopped ==
  ASSUME NEW s \in Seq(FrameType), s # <<>>, Head(s).arm # "rescue", NEW v, NEW x, Scoped(s, v, x)
  PROVE  Scoped(Tail(s), v, x)
<1> DEFINE u == Tail(s)
<1>1. /\ u \in Seq(FrameType) /\ Len(u) = Len(s) - 1 /\ Len(s) \in Nat \ {0}
      /\ \A i \in 1 .. Len(s) - 1 : u[i] = s[i + 1]
  BY OffTop
<1> HIDE DEF u
<1>2. Scoped(s, v, x) <=>
           /\ Head(s).arm = "rescue" => x \in Range(Arm[Head(s).block].tasks) /\ v[x] = "failed"
           /\ Blames(s, 2, v, Outer(s, x))
           /\ \A i \in 2 .. Len(s) : s[i].arm = "rescue" => Blames(s, i + 1, v, s[i].saved)
  BY <1>1, ScopedTop
<1>3. Blames(s, 2, v, x)
  BY <1>2 DEF Outer
<1>4. \A i \in 2 .. Len(s) : u[i + (-1)] = s[i]
  <2>1. \A i \in 2 .. Len(s) : i - 1 \in 1 .. Len(s) - 1 /\ (i - 1) + 1 = i /\ i + (-1) = i - 1
    BY <1>1
  <2> QED BY <1>1, <2>1
<1>5. /\ \A z : Blames(s, 2, v, z) => Blames(u, 1, v, z)
      /\ \A i \in 1 .. Len(u) : u[i].arm = "rescue" => Blames(u, i + 1, v, u[i].saved)
  <2>1. 2 \in Int /\ -1 \in Int /\ 2 >= 1 /\ 2 + (-1) = 1 /\ 2 + (-1) >= 1 /\ Len(u) = Len(s) + (-1)
    BY <1>1
  <2>2. /\ \A z : Blames(s, 2, v, z) => Blames(u, 2 + (-1), v, z)
        /\ \A i \in 2 + (-1) .. Len(u) : u[i].arm = "rescue" => Blames(u, i + 1, v, u[i].saved)
    BY <1>1, <1>2, <1>4, <2>1, ScopedTail
  <2> QED BY <2>1, <2>2
<1> QED BY <1>3, <1>5 DEF Scoped, u

-----------------------------------------------------------------------------
(* The steps of a walker *)

\* A root of the play is in no block.
Root(t) == t \in Tasks /\ \A b \in Tasks : t \notin Range(Children(b))

\* Endings excuse no less than before.
LEMMA ExcusedMore ==
  ASSUME NEW v, NEW w, NEW k \in Tasks, NEW e \in Endings,
         w[k] = e, \A u \in Tasks : u # k => w[u] = v[u]
  PROVE  (Excused(v) => Excused(w)) /\ (Excusable(k) => Excused(w))
<1>1. w[k] # "none"
  BY DEF Endings
<1> QED BY <1>1 DEF Excused

\* A task ends where the walker stands: a leaf that has run, a block that is skipped.
LEMMA StandsAtEnd ==
  ASSUME NEW t, Root(t), NEW k \in Tasks, NEW s, NEW q, NEW v, NEW x,
         Standing("call", k, s, q, v, x, t),
         NEW r, r.out \in Outs, r.alive \/ r.out = "failed" \/ Excusable(k),
         NEW w, w[k] = Verdict(r), \A u \in Tasks : u # k => w[u] = v[u]
  PROVE  Standing("return", k, s, r, w, x, t)
<1>1. /\ t \in Tasks /\ Nest(s, t) /\ s \in Seq(FrameType) /\ k \in Subtree(k)
      /\ s = <<>> => k = t
      /\ s # <<>> => Head(s).next > 1 /\ Head(s).failed = NoTask /\ k = TaskOf(Head(s))
  BY Numbers DEF Standing, Control, Root, Nest, Subtree
<1>2. Shared(s) => Fresh(v, k)
  BY DEF Standing, Meaning
<1>3. \A u \in Tasks : u # k => w[u] = v[u]
  OBVIOUS
<1>4. w[k] = Verdict(r) /\ Verdict(r) \in Endings
  BY EndingOf
<1>5. ASSUME NEW i \in 1 .. Len(s), s[i].coord
      PROVE  Within(s[i], v) /\ v[TaskOf(s[i])] = "none"
  <2>1. CASE i > 1
    BY <1>5, <2>1 DEF Standing, Meaning
  <2>2. CASE ~(i > 1)
    <3>1. i = 1 /\ s # <<>> /\ Head(s) = s[1]
      BY <1>1, <2>2, EmptySeq
    <3>2. Within(s[1], v)
      BY <1>5, <3>1 DEF Standing, Meaning
    <3>3. v[k] = "none"
      BY <1>1, <1>2, <1>5, <3>1 DEF Shared, Fresh
    <3> QED BY <1>1, <3>1, <3>2, <3>3
  <2> QED BY <2>1, <2>2
<1>6. ASSUME k \in OpenBlocks
      PROVE  Meant(v, k, r)
  <2>1. Fresh(v, k)
    <3>1. CASE s = <<>>
      BY <1>2, <3>1 DEF Shared
    <3>2. CASE s # <<>>
      <4>1. k \in Subtree(Head(s).block) /\ Unlooped(k)
        <5>1. 1 \in 1 .. Len(s) /\ Head(s) = s[1]
          BY <1>1, <3>2, OffTop
        <5>2. TaskOf(s[1]) \in Subtree(s[1].block)
          BY <1>1, <3>2, <5>1, Spot
        <5> QED BY <1>1, <1>6, <3>2, <5>1, <5>2 DEF OpenBlocks
      <4>2. Shared(s)
        BY <1>1, <3>2, <4>1, OpenShared
      <4> QED BY <1>2, <4>2
    <3> QED BY <3>1, <3>2
  <2>2. \A c \in Range(Children(k)) : c \in Subtree(k)
    BY Kids
  <2> QED BY <2>1, <2>2 DEF Fresh, Meant
<1>7. \A b \in OpenBlocks : Disciplined(v, b)
  BY DEF Standing, Meaning
<1>8. Control("return", k, s, r, w, t) /\ Meaning("return", k, s, r, w)
  BY <1>1, <1>5, <1>6, <1>7, Ends DEF Root
<1>9. Scoped(s, w, x)
  <2>1. Scoped(s, v, x)
    BY DEF Standing
  <2> QED BY <1>1, <1>3, <2>1, ScopedEnds
<1>10. (Excused(v) => Excused(w)) /\ (Excusable(k) => Excused(w))
  BY <1>3, <1>4, ExcusedMore
<1>11. Owned("return", s, r, w)
  BY <1>10 DEF Standing, Owned
<1>12. Rooted("return", s, w, t)
  <2>1. s # <<>> => k # t
    BY <1>1, Inside
  <2>2. v[t] = "none"
    BY DEF Standing, Rooted
  <2> QED BY <1>1, <1>3, <2>1, <2>2 DEF Rooted
<1> QED BY <1>8, <1>9, <1>11, <1>12 DEF Standing

\* A block is entered.
LEMMA StandsInBlock ==
  ASSUME NEW t, Root(t), NEW k \in Tasks, NEW s, NEW r, NEW v, NEW x,
         Standing("call", k, s, r, v, x, t), Kind[k] = "block",
         NEW f \in FrameType, f.block = k, f.arm = "tasks", f.next = 1, f.failed = NoTask,
         f.alive, ~f.over, f.coord <=> Shared(s) /\ k \notin Looped, k \notin Looped => f.left = 1
  PROVE  Standing("iterate", k, <<f>> \o s, r, v, x, t)
<1> DEFINE u == <<f>> \o s
<1>1. /\ t \in Tasks /\ Nest(s, t) /\ s \in Seq(FrameType) /\ k \in Subtree(k)
      /\ s = <<>> => k = t
      /\ s # <<>> => Head(s).next > 1 /\ Head(s).failed = NoTask /\ k = TaskOf(Head(s))
  BY Numbers DEF Standing, Control, Root, Nest, Subtree
<1>2. /\ u \in Seq(FrameType) /\ u # <<>> /\ Len(u) = Len(s) + 1 /\ Len(s) \in Nat /\ Head(u) = f
      /\ u[1] = f /\ \A i \in 2 .. Len(s) + 1 : u[i] = s[i - 1]
  BY <1>1, OnTop
<1>3. k \in Subtree(t)
  BY <1>1, Inside
<1>4. Nest(u, t)
  BY <1>1, <1>3, NestPushed
<1>5. Scoped(u, v, x)
  <2>1. Scoped(s, v, x)
    BY DEF Standing
  <2> QED BY <1>1, <2>1, ScopedPushed
<1> HIDE DEF u
<1>6. Control("iterate", k, u, r, v, t)
  BY <1>2, <1>4 DEF Control, Walking
<1>7. ASSUME NEW i \in 1 .. Len(u), i > 1
      PROVE  i - 1 \in 1 .. Len(s) /\ u[i] = s[i - 1]
  <2>1. i \in 2 .. Len(s) + 1 /\ i - 1 \in 1 .. Len(s)
    BY <1>2, <1>7
  <2> QED BY <1>2, <2>1
<1>8. Meaning("iterate", k, u, r, v)
  <2>1. ASSUME NEW i \in 1 .. Len(u), u[i].coord, i > 1
        PROVE  Within(u[i], v) /\ v[TaskOf(u[i])] = "none"
    <3> DEFINE j == i - 1
    <3>1. j \in 1 .. Len(s) /\ u[i] = s[j]
      BY <1>7, <2>1
    <3>2. CASE j > 1
      <4> HIDE DEF j
      <4> QED BY <2>1, <3>1, <3>2 DEF Standing, Meaning
    <3>3. CASE ~(j > 1)
      <4>1. j = 1 /\ s # <<>> /\ Head(s) = s[1]
        BY <1>1, <3>1, <3>3, EmptySeq
      <4>2. s[1].coord
        BY <2>1, <3>1, <4>1
      <4>3. Within(s[1], v)
        BY <3>1, <4>1, <4>2 DEF Standing, Meaning
      <4>4. Shared(s)
        BY <4>1, <4>2 DEF Shared
      <4>5. Fresh(v, k)
        BY <4>4 DEF Standing, Meaning
      <4>6. v[k] = "none"
        BY <1>1, <4>5 DEF Fresh
      <4> QED BY <1>1, <3>1, <4>1, <4>3, <4>6
    <3> QED BY <3>2, <3>3
  <2>2. ASSUME f.coord
        PROVE  Around(f, v)
    <3>1. Fresh(v, k)
      BY <2>2 DEF Standing, Meaning
    <3>2. \A c \in Range(Children(k)) : c \in Subtree(k)
      BY Kids
    <3>3. \A c \in Range(Children(k)) : Fresh(v, c)
      BY <3>1, <3>2, Deeper DEF Fresh
    <3> QED BY <2>2, <3>3 DEF Around
  <2>3. \A b \in OpenBlocks : Disciplined(v, b)
    BY DEF Standing, Meaning
  <2> QED BY <1>2, <2>1, <2>2, <2>3 DEF Meaning
<1>9. Owned("iterate", u, r, v)
  <2>1. ASSUME NEW i \in 1 .. Len(u)
        PROVE  \/ u[i].alive \/ u[i].failed # NoTask \/ u[i].over
               \/ Arm[u[i].block].rescue # <<>> \/ Excused(v)
    <3>1. CASE i > 1
      BY <1>7, <3>1 DEF Standing, Owned
    <3>2. CASE ~(i > 1)
      <4>1. i = 1
        BY <1>2, <3>2
      <4> QED BY <1>2, <4>1
    <3> QED BY <3>1, <3>2
  <2> QED BY <2>1 DEF Owned
<1>10. Rooted("iterate", u, v, t)
  BY DEF Standing, Rooted
<1> QED BY <1>5, <1>6, <1>8, <1>9, <1>10 DEF Standing, u

\* The innermost frame moves on.
LEMMA StandsMoved ==
  ASSUME NEW t, Root(t), NEW c, NEW k, NEW s, s # <<>>, NEW r, NEW v, NEW x, Standing(c, k, s, r, v, x, t),
         NEW f \in FrameType, f.block = Head(s).block, f.coord = Head(s).coord,
         f.next <= Len(List(f)) + 1, f.next # 0,
         NEW d \in Walking, d # "return", NEW j, NEW y,
         d = "call" => f.next > 1 /\ j = TaskOf(f) /\ f.failed = NoTask /\ (f.coord => Fresh(v, j)),
         d = "list" => f.failed = NoTask,
         d = "skip" => f.next > 1,
         d = "armDone" => f.next > Len(List(f)),
         d = "iterate" => f.arm = "tasks" /\ f.next = 1 /\ f.failed = NoTask,
         f.failed # NoTask => f.failed \in Range(List(f)) /\ v[f.failed] = "failed",
         f.coord => CASE d = "iterate" -> Around(f, v) [] d = "call" -> Within(f, v) [] OTHER -> Between(f, v),
         Outer(<<f>> \o Tail(s), y) = Outer(s, x),
         f.arm = "rescue" => y \in Range(Arm[f.block].tasks) /\ v[y] = "failed",
         f.alive \/ f.failed # NoTask \/ f.over \/ Arm[f.block].rescue # <<>> \/ Excused(v)
  PROVE  Standing(d, j, <<f>> \o Tail(s), r, v, y, t)
<1> DEFINE u == <<f>> \o Tail(s)
<1>1. t \in Tasks /\ Nest(s, t) /\ s \in Seq(FrameType)
  BY DEF Standing, Control, Root, Nest
<1>2. /\ u \in Seq(FrameType) /\ u # <<>> /\ Len(u) = Len(s) /\ Len(s) \in Nat /\ Head(u) = f
      /\ u[1] = f /\ \A i \in 2 .. Len(s) : u[i] = s[i]
  BY <1>1, Swapped
<1>3. Nest(u, t)
  BY <1>1, NestReplaced
<1>4. Scoped(u, v, y)
  <2>1. Scoped(s, v, x)
    BY DEF Standing
  <2> QED BY <1>1, <2>1, ScopedReplaced
<1> HIDE DEF u
<1>5. Control(d, j, u, r, v, t)
  BY <1>2, <1>3 DEF Control
<1>6. ASSUME NEW i \in 1 .. Len(u), i > 1
      PROVE  i \in 1 .. Len(s) /\ u[i] = s[i]
  BY <1>2, <1>6
<1>7. \A i \in 1 .. Len(u) : i > 1 \/ i = 1
  BY <1>2
<1>8. Meaning(d, j, u, r, v)
  <2>1. ASSUME NEW i \in 1 .. Len(u), u[i].coord, i > 1
        PROVE  Within(u[i], v) /\ v[TaskOf(u[i])] = "none"
    <3>1. i \in 1 .. Len(s) /\ u[i] = s[i]
      BY <1>6, <2>1
    <3>2. s[i].coord => Within(s[i], v) /\ v[TaskOf(s[i])] = "none"
      BY <2>1, <3>1 DEF Standing, Meaning
    <3> QED BY <2>1, <3>1, <3>2
  <2>2. \A b \in OpenBlocks : Disciplined(v, b)
    BY DEF Standing, Meaning
  <2>3. d = "call" /\ Shared(u) => Fresh(v, j)
    BY <1>2 DEF Shared
  <2>4. ASSUME NEW i \in 1 .. Len(u), i = 1, u[i].coord
        PROVE  CASE d = "iterate" -> Around(u[1], v)
                 [] d \in {"call", "return"} -> Within(u[1], v)
                 [] OTHER -> Between(u[1], v)
    BY <1>2, <2>4
  <2> QED BY <1>7, <2>1, <2>2, <2>3, <2>4 DEF Meaning
<1>9. Owned(d, u, r, v)
  <2>1. ASSUME NEW i \in 1 .. Len(u)
        PROVE  \/ u[i].alive \/ u[i].failed # NoTask \/ u[i].over
               \/ Arm[u[i].block].rescue # <<>> \/ Excused(v)
    <3>1. CASE i > 1
      BY <1>6, <3>1 DEF Standing, Owned
    <3>2. CASE i = 1
      BY <1>2, <3>2
    <3> QED BY <1>7, <3>1, <3>2
  <2> QED BY <2>1 DEF Owned
<1>10. Rooted(d, u, v, t)
  BY DEF Standing, Rooted
<1> QED BY <1>4, <1>5, <1>8, <1>9, <1>10 DEF Standing, u

\* A block is left.
LEMMA StandsOutside ==
  ASSUME NEW t, Root(t), NEW k, NEW s, s # <<>>, NEW q, NEW v, NEW x,
         Standing("iterate", k, s, q, v, x, t), Head(s).left = 0 \/ ~Head(s).alive,
         NEW r, r.out = (IF Head(s).over /\ Head(s).block \notin Ignore THEN "failed" ELSE "ok"),
         r.alive = Head(s).alive,
         NEW w, w[Head(s).block] = Verdict(r), \A u \in Tasks : u # Head(s).block => w[u] = v[u]
  PROVE  Standing("return", Head(s).block, Tail(s), r, w, x, t)
<1> DEFINE f == Head(s)
           b == f.block
           u == Tail(s)
<1>1. /\ t \in Tasks /\ Nest(s, t) /\ s \in Seq(FrameType)
      /\ f.arm = "tasks" /\ f.failed = NoTask
  BY DEF Standing, Control, Root, Nest
<1>2. /\ u \in Seq(FrameType) /\ Len(u) = Len(s) - 1 /\ Len(s) \in Nat \ {0}
      /\ f = s[1] /\ f \in FrameType
      /\ \A i \in 1 .. Len(s) - 1 : u[i] = s[i + 1]
  BY <1>1, OffTop
<1>3. /\ Nest(u, t)
      /\ u = <<>> => b = t
      /\ u # <<>> => Head(u).next > 1 /\ Head(u).failed = NoTask /\ b = TaskOf(Head(u))
  BY <1>1, NestPopped
<1>4. b \in Tasks /\ b \in Subtree(b)
  BY <1>2, Numbers DEF FrameType, Subtree
<1>5. Scoped(u, v, x)
  <2>1. Scoped(s, v, x)
    BY DEF Standing
  <2> QED BY <1>1, <2>1, ScopedPopped
<1>6. r.out \in Outs /\ (r.out = "failed" <=> f.over /\ b \notin Ignore)
  BY DEF Outs
<1>7. f.coord => f.left = 0 /\ (f.over <=> Lost(v, b) \/ Fails(v, Arm[b].always)) /\ Tried(v, b)
  <2>1. 1 \in 1 .. Len(s)
    BY <1>2
  <2>2. f.coord => Around(f, v)
    BY <1>2, <2>1 DEF Standing, Meaning
  <2>3. CASE f.left = 0
    BY <2>2, <2>3 DEF Around
  <2>4. CASE f.left # 0
    BY <2>2, <2>4 DEF Around
  <2> QED BY <2>3, <2>4
<1>8. ASSUME b \in OpenBlocks
      PROVE  Meant(v, b, r)
  <2>1. Unlooped(b)
    BY <1>8 DEF OpenBlocks
  <2>2. f.coord
    BY <1>1, <1>4, <2>1, OpenShared
  <2> QED BY <1>6, <1>7, <2>2 DEF Meant
<1>9. ASSUME NEW i \in 1 .. Len(u)
      PROVE  i + 1 \in 1 .. Len(s) /\ i + 1 > 1 /\ u[i] = s[i + 1]
  BY <1>2
<1>10. ASSUME NEW i \in 1 .. Len(u), u[i].coord
       PROVE  Within(u[i], v) /\ v[TaskOf(u[i])] = "none"
  <2> DEFINE j == i + 1
  <2>1. j \in 1 .. Len(s) /\ j > 1 /\ u[i] = s[j]
    BY <1>9
  <2> HIDE DEF j
  <2>2. s[j].coord => Within(s[j], v) /\ v[TaskOf(s[j])] = "none"
    BY <2>1 DEF Standing, Meaning
  <2> QED BY <1>10, <2>1, <2>2
<1>11. \A z \in OpenBlocks : Disciplined(v, z)
  BY DEF Standing, Meaning
<1>12. w[b] = Verdict(r) /\ Verdict(r) \in Endings /\ \A z \in Tasks : z # b => w[z] = v[z]
  BY <1>4, <1>6, EndingOf
<1>13. (Excused(v) => Excused(w)) /\ (Excusable(b) => Excused(w))
  <2>1. PICK n \in Tasks, e \in Endings : n = b /\ w[n] = e /\ \A z \in Tasks : z # n => w[z] = v[z]
    BY <1>4, <1>12
  <2>2. (Excused(v) => Excused(w)) /\ (Excusable(n) => Excused(w))
    BY <2>1, ExcusedMore
  <2> QED BY <2>1, <2>2
<1>15. r.alive \/ r.out = "failed" \/ Excused(w)
  <2>1. 1 \in 1 .. Len(s)
    BY <1>2
  <2>2. f.alive \/ f.failed # NoTask \/ f.over \/ Arm[b].rescue # <<>> \/ Excused(v)
    BY <1>2, <2>1 DEF Standing, Owned
  <2> QED BY <1>1, <1>6, <1>13, <2>2 DEF Excusable
<1>16. ASSUME NEW i \in 1 .. Len(u)
       PROVE  \/ u[i].alive \/ u[i].failed # NoTask \/ u[i].over
              \/ Arm[u[i].block].rescue # <<>> \/ Excused(w)
  BY <1>9, <1>13 DEF Standing, Owned
<1>17. Owned("return", u, r, w)
  BY <1>15, <1>16 DEF Owned
<1> HIDE DEF f, b, u
<1>18. Control("return", b, u, r, w, t) /\ Meaning("return", b, u, r, w)
  BY <1>1, <1>3, <1>4, <1>6, <1>8, <1>10, <1>11, <1>12, Ends DEF Root
<1>19. Scoped(u, w, x)
  <2>1. PICK n \in Tasks : n = b /\ \A z \in Tasks : z # n => w[z] = v[z]
    BY <1>4, <1>12
  <2>2. u # <<>> => Head(u).next > 1 /\ n = TaskOf(Head(u))
    BY <1>3, <2>1
  <2> QED BY <1>1, <1>3, <1>5, <2>1, <2>2, ScopedEnds
<1>20. Rooted("return", u, w, t)
  <2>1. PICK n \in Tasks : n = b
    BY <1>4
  <2>2. u # <<>> => n # t
    BY <1>1, <1>3, <1>4, <2>1, Inside
  <2>3. v[t] = "none"
    BY DEF Standing, Rooted
  <2> QED BY <1>1, <1>12, <2>1, <2>2, <2>3 DEF Rooted
<1>21. Standing("return", b, u, r, w, x, t)
  BY <1>17, <1>18, <1>19, <1>20 DEF Standing
<1> QED BY <1>21 DEF f, b, u

\* What is known of the innermost frame.
LEMMA AtTop ==
  ASSUME NEW t, Root(t), NEW c, NEW k, NEW s, s # <<>>, NEW r, NEW v, NEW x, Standing(c, k, s, r, v, x, t)
  PROVE  /\ Head(s) \in FrameType /\ Head(s).block \in Tasks /\ Head(s).arm \in Arms
         /\ Len(List(Head(s))) \in Nat /\ Head(s).next \in 1 .. Len(List(Head(s))) + 1
         /\ Head(s).coord => Head(s).block \notin Looped
         /\ Head(s).coord /\ c = "iterate" => Around(Head(s), v)
         /\ Head(s).coord /\ c \in {"list", "skip", "armDone"} => Between(Head(s), v)
         /\ Head(s).coord /\ c \in {"call", "return"} => Within(Head(s), v)
         /\ \/ Head(s).alive \/ Head(s).failed # NoTask \/ Head(s).over
            \/ Arm[Head(s).block].rescue # <<>> \/ Excused(v)
         /\ Head(s).arm = "rescue" => x \in Range(Arm[Head(s).block].tasks) /\ v[x] = "failed"
         /\ \A i \in 1 .. Len(List(Head(s))) : /\ List(Head(s))[i] \in Tasks
                                               /\ List(Head(s))[i] \in Range(List(Head(s)))
                                               /\ Fresh(v, List(Head(s))[i]) => v[List(Head(s))[i]] = "none"
<1>1. s \in Seq(FrameType) /\ t \in Tasks /\ Nest(s, t)
  BY DEF Standing, Control, Nest, Root
<1>2. Head(s) = s[1] /\ 1 \in 1 .. Len(s) /\ Len(s) \in Nat
  BY <1>1, OffTop
<1>3. Head(s) \in FrameType /\ Head(s).block \in Tasks /\ Head(s).arm \in Arms
  BY <1>1, <1>2, Spot
<1>4. Head(s).next \in 1 .. Len(List(Head(s))) + 1
  BY <1>2 DEF Standing, Control, Nest
<1>5. Len(List(Head(s))) \in Nat
  BY <1>3, Elements DEF List
<1>6. ASSUME Head(s).coord
      PROVE  /\ Head(s).block \notin Looped
             /\ c = "iterate" => Around(Head(s), v)
             /\ c \in {"list", "skip", "armDone"} => Between(Head(s), v)
             /\ c \in {"call", "return"} => Within(Head(s), v)
  <2>1. s[1].block \notin Looped
    BY <1>2, <1>6 DEF Standing, Control, Nest
  <2>2. ~(1 > 1)
    OBVIOUS
  <2> QED BY <1>2, <1>6, <2>1, <2>2 DEF Standing, Meaning
<1>7. \/ Head(s).alive \/ Head(s).failed # NoTask \/ Head(s).over
      \/ Arm[Head(s).block].rescue # <<>> \/ Excused(v)
  BY <1>2 DEF Standing, Owned
<1>8. Head(s).arm = "rescue" => x \in Range(Arm[Head(s).block].tasks) /\ v[x] = "failed"
  <2>1. Scoped(s, v, x)
    BY DEF Standing
  <2>2. Scoped(s, v, x) <=>
           /\ Head(s).arm = "rescue" => x \in Range(Arm[Head(s).block].tasks) /\ v[x] = "failed"
           /\ Blames(s, 2, v, Outer(s, x))
           /\ \A i \in 2 .. Len(s) : s[i].arm = "rescue" => Blames(s, i + 1, v, s[i].saved)
    BY <1>1, ScopedTop
  <2> QED BY <2>1, <2>2
<1>9. ASSUME NEW i \in 1 .. Len(List(Head(s)))
      PROVE  /\ List(Head(s))[i] \in Tasks /\ List(Head(s))[i] \in Range(List(Head(s)))
             /\ Fresh(v, List(Head(s))[i]) => v[List(Head(s))[i]] = "none"
  <2>1. PICK b \in Tasks, a \in Arms : b = Head(s).block /\ a = Head(s).arm
    BY <1>3
  <2>2. i \in 1 .. Len(Arm[b][a]) /\ List(Head(s)) = Arm[b][a]
    BY <2>1 DEF List
  <2>3. Arm[b][a][i] \in Tasks /\ Arm[b][a][i] \in Range(Arm[b][a])
    BY <2>2, Nested
  <2>4. Arm[b][a][i] \in Subtree(Arm[b][a][i])
    BY <2>2, ChildNested
  <2> QED BY <2>2, <2>3, <2>4 DEF Fresh
<1> QED BY <1>3, <1>4, <1>5, <1>6, <1>7, <1>8, <1>9

\* The next iteration begins.
LEMMA MovesIterate ==
  ASSUME NEW t, Root(t), NEW k, NEW s, s # <<>>, NEW r, NEW v, NEW x, Standing("iterate", k, s, r, v, x, t),
         Head(s).left > 0, Head(s).alive,
         NEW g \in FrameType, g.block = Head(s).block, g.coord = Head(s).coord, g.arm = "tasks", g.next = 1,
         g.failed = NoTask, g.alive = Head(s).alive, g.over = Head(s).over, g.left = Head(s).left - 1
  PROVE  Standing("list", k, <<g>> \o Tail(s), r, v, x, t)
<1> DEFINE f == Head(s)
           b == f.block
<1>1. /\ f \in FrameType /\ b \in Tasks /\ f.next \in 1 .. Len(List(f)) + 1 /\ Len(List(f)) \in Nat
      /\ f.arm = "tasks" /\ f.next = 1
      /\ f.coord => Around(f, v)
  BY AtTop DEF Standing, Control
<1>2. List(g) = List(f) /\ List(g) = Arm[b].tasks
  BY <1>1 DEF List
<1>3. ASSUME g.coord
      PROVE  Between(g, v)
  <2>1. f.left = 1 /\ ~f.over /\ \A c \in Range(Children(b)) : Fresh(v, c)
    BY <1>1, <1>3 DEF Around
  <2>2. Range(Children(b)) = Range(Arm[b].tasks) \cup Range(Arm[b].rescue) \cup Range(Arm[b].always)
    BY <1>1, ChildrenOf
  <2>3. \A i \in 1 .. Len(Arm[b].tasks) : Arm[b].tasks[i] \in Range(Arm[b].tasks)
    BY <1>1, Nested DEF Arms
  <2>4. \A i \in 1 .. g.next - 1 : FALSE
    OBVIOUS
  <2>5. \A i \in g.next .. Len(List(g)) : Fresh(v, List(g)[i])
    BY <1>2, <2>1, <2>2, <2>3
  <2>6. g.left = 0 /\ ~g.over
    BY <2>1
  <2> QED BY <2>1, <2>2, <2>4, <2>5, <2>6 DEF Within, Between, Midway
<1>4. Outer(<<g>> \o Tail(s), x) = Outer(s, x)
  <2>1. s \in Seq(FrameType)
    BY DEF Standing, Control, Nest
  <2>2. Head(<<g>> \o Tail(s)) = g
    BY <2>1, Swapped
  <2> QED BY <1>1, <2>2 DEF Outer
<1>5. g.next <= Len(List(g)) + 1 /\ g.next # 0
  BY <1>1, <1>2
<1>6. "list" \in Walking
  BY DEF Walking
<1> QED BY <1>3, <1>4, <1>5, <1>6, StandsMoved

\* Within an arm the frames around see the same variable.
LEMMA OuterSame ==
  ASSUME NEW s \in Seq(FrameType), s # <<>>, NEW g \in FrameType, NEW x,
         g.arm = Head(s).arm, g.saved = Head(s).saved
  PROVE  Outer(<<g>> \o Tail(s), x) = Outer(s, x)
<1>1. Head(<<g>> \o Tail(s)) = g
  BY Swapped
<1> QED BY <1>1 DEF Outer

\* An iteration that is passed over, in a loop.
LEMMA MovesPast ==
  ASSUME NEW t, Root(t), NEW k, NEW s, s # <<>>, NEW r, NEW v, NEW x, Standing("iterate", k, s, r, v, x, t),
         Head(s).block \in Looped, Head(s).alive,
         NEW g \in FrameType, g.block = Head(s).block, g.coord = Head(s).coord, g.arm = Head(s).arm,
         g.next = Head(s).next, g.failed = Head(s).failed, g.alive = Head(s).alive, g.saved = Head(s).saved
  PROVE  Standing("iterate", k, <<g>> \o Tail(s), r, v, x, t)
<1>1. /\ s \in Seq(FrameType) /\ Head(s).failed = NoTask /\ Head(s).arm = "tasks" /\ Head(s).next = 1
      /\ ~Head(s).coord /\ Len(List(Head(s))) \in Nat
  BY AtTop DEF Standing, Control, Nest
<1>2. Outer(<<g>> \o Tail(s), x) = Outer(s, x)
  BY <1>1, OuterSame
<1>3. g.next <= Len(List(g)) + 1 /\ g.next # 0
  BY <1>1 DEF List
<1>4. "iterate" \in Walking
  BY DEF Walking
<1> QED BY <1>1, <1>2, <1>3, <1>4, StandsMoved

\* A list goes on: past a meta task, past a task that is not visited any more, or
\* into the next one.
LEMMA MovesOn ==
  ASSUME NEW t, Root(t), NEW c \in {"list", "skip"}, NEW k, NEW s, s # <<>>, NEW r, NEW v, NEW x,
         Standing(c, k, s, r, v, x, t), Head(s).next <= Len(List(Head(s))),
         c = "list" => Kind[List(Head(s))[Head(s).next]] = "meta",
         NEW g \in FrameType, g.block = Head(s).block, g.coord = Head(s).coord, g.arm = Head(s).arm,
         g.next = Head(s).next + 1, g.failed = Head(s).failed, g.alive = Head(s).alive,
         g.over = Head(s).over, g.left = Head(s).left, g.saved = Head(s).saved
  PROVE  Standing(c, k, <<g>> \o Tail(s), r, v, x, t)
<1> DEFINE f == Head(s)
           b == f.block
           L == List(f)
<1>0. c \in {"list", "skip", "armDone"} /\ c \in Walking /\ s \in Seq(FrameType)
  BY DEF Walking, Standing, Control, Nest
<1>1. /\ f \in FrameType /\ b \in Tasks /\ f.next \in 1 .. Len(L) + 1 /\ Len(L) \in Nat
      /\ f.coord => Between(f, v)
      /\ f.alive \/ f.failed # NoTask \/ f.over \/ Arm[b].rescue # <<>> \/ Excused(v)
      /\ f.arm = "rescue" => x \in Range(Arm[b].tasks) /\ v[x] = "failed"
      /\ \A i \in 1 .. Len(L) : Fresh(v, L[i]) => v[L[i]] = "none"
  BY <1>0, AtTop
<1>2. List(g) = L /\ f.next \in 1 .. Len(L) /\ s \in Seq(FrameType) /\ c \in Walking
  BY <1>0, <1>1 DEF List
<1>3. /\ c = "list" => f.failed = NoTask
      /\ c = "skip" => f.next > 1
      /\ c = "skip" /\ f.failed # NoTask => f.failed \in Range(L) /\ v[f.failed] = "failed"
  BY DEF Standing, Control
<1>4. ASSUME g.coord
      PROVE  Between(g, v)
  <2>1. Between(f, v) /\ L = Arm[b][f.arm]
    BY <1>1, <1>4 DEF List
  <2>2. Fresh(v, L[f.next]) /\ v[L[f.next]] = "none"
    BY <1>1, <1>2, <2>1 DEF Within, Between, Midway
  <2>3. \A i \in 1 .. f.next - 1 : v[L[i]] = "failed" => f.failed # NoTask
    BY <2>1 DEF Within, Between, Midway
  <2>4. \A i \in 1 .. g.next - 1 : i = f.next \/ i \in 1 .. f.next - 1
    BY <1>1
  <2>5. \A i \in 1 .. g.next - 1 : v[L[i]] = "failed" => g.failed # NoTask
    BY <2>2, <2>3, <2>4
  <2>6. \A i \in g.next .. Len(L) : i \in f.next .. Len(L)
    BY <1>1
  <2>7. \A i \in g.next .. Len(L) : Fresh(v, L[i])
    BY <2>1, <2>6 DEF Within, Between, Midway
  <2>8. ASSUME g.arm = "always"
        PROVE  Tried(v, b)
    <3>1. CASE f.next > 1
      BY <1>1, <2>1, <2>8, <3>1 DEF Within, Between, Midway
    <3>2. CASE ~(f.next > 1)
      <4>1. f.next = 1 /\ c = "list"
        BY <1>1, <1>3, <3>2
      <4>2. Kind[Arm[b].always[1]] = "meta"
        BY <2>1, <2>8, <4>1
      <4> QED BY <4>2 DEF Tried
    <3> QED BY <3>1, <3>2
  <2> QED BY <1>2, <2>1, <2>5, <2>7, <2>8 DEF Within, Between, Midway
<1>5. Outer(<<g>> \o Tail(s), x) = Outer(s, x)
  BY <1>2, OuterSame
<1>6. g.next <= Len(List(g)) + 1 /\ g.next # 0 /\ g.next > 1
  BY <1>1, <1>2
<1>7. g.failed # NoTask => g.failed \in Range(List(g)) /\ v[g.failed] = "failed"
  BY <1>2, <1>3
<1> QED BY <1>1, <1>2, <1>3, <1>4, <1>5, <1>6, <1>7, StandsMoved

\* The next task of the list is dispatched.
LEMMA MovesInto ==
  ASSUME NEW t, Root(t), NEW k, NEW s, s # <<>>, NEW r, NEW v, NEW x,
         Standing("list", k, s, r, v, x, t), Head(s).next <= Len(List(Head(s))),
         NEW g \in FrameType, g.block = Head(s).block, g.coord = Head(s).coord, g.arm = Head(s).arm,
         g.next = Head(s).next + 1, g.failed = Head(s).failed, g.alive = Head(s).alive,
         g.over = Head(s).over, g.left = Head(s).left, g.saved = Head(s).saved
  PROVE  Standing("call", List(Head(s))[Head(s).next], <<g>> \o Tail(s), r, v, x, t)
<1> DEFINE f == Head(s)
           b == f.block
           L == List(f)
<1>1. /\ f \in FrameType /\ b \in Tasks /\ f.next \in 1 .. Len(L) + 1 /\ Len(L) \in Nat
      /\ f.coord => Between(f, v)
      /\ f.alive \/ f.failed # NoTask \/ f.over \/ Arm[b].rescue # <<>> \/ Excused(v)
      /\ f.arm = "rescue" => x \in Range(Arm[b].tasks) /\ v[x] = "failed"
  BY AtTop
<1>2. List(g) = L /\ f.next \in 1 .. Len(L) /\ s \in Seq(FrameType) /\ "call" \in Walking
  BY <1>1 DEF List, Standing, Control, Nest, Walking
<1>3. f.failed = NoTask
  BY DEF Standing, Control
<1>4. g.next - 1 = f.next /\ g.next - 2 = f.next - 1 /\ g.next \in Nat /\ \A i \in g.next .. Len(L) : i \in f.next .. Len(L)
  BY <1>1
<1>5. TaskOf(g) = L[f.next]
  BY <1>2, <1>4 DEF TaskOf
<1>6. ASSUME g.coord
      PROVE  Within(g, v) /\ Fresh(v, L[f.next])
  <2>1. Between(f, v)
    BY <1>1, <1>6
  <2>2. \A i \in g.next .. Len(L) : Fresh(v, L[i])
    BY <1>4, <2>1 DEF Within, Between, Midway
  <2>3. Fresh(v, L[f.next])
    BY <1>1, <1>2, <2>1 DEF Within, Between, Midway
  <2>4. \A i \in 1 .. g.next - 2 : v[L[i]] = "failed" => g.failed # NoTask
    BY <1>4, <2>1 DEF Within, Between, Midway
  <2> QED BY <1>2, <1>4, <2>1, <2>2, <2>3, <2>4 DEF Within, Between, Midway
<1>7. Outer(<<g>> \o Tail(s), x) = Outer(s, x)
  BY <1>2, OuterSame
<1>8. g.next <= Len(List(g)) + 1 /\ g.next # 0 /\ g.next > 1
  BY <1>1, <1>2
<1> QED BY <1>1, <1>2, <1>3, <1>5, <1>6, <1>7, <1>8, StandsMoved

\* The end of a list, broken off or not.
LEMMA MovesToEnd ==
  ASSUME NEW t, Root(t), NEW c \in {"list", "skip"}, NEW k, NEW s, s # <<>>, NEW r, NEW v, NEW x,
         Standing(c, k, s, r, v, x, t), Head(s).next > Len(List(Head(s)))
  PROVE  Standing("armDone", k, s, r, v, x, t)
<1> DEFINE f == Head(s)
           u == <<f>> \o Tail(s)
<1>0. c \in {"list", "skip", "armDone"} /\ "armDone" \in Walking /\ s \in Seq(FrameType)
  BY DEF Walking, Standing, Control, Nest
<1>1. /\ f \in FrameType /\ f.next \in 1 .. Len(List(f)) + 1 /\ Len(List(f)) \in Nat
      /\ f.coord => Between(f, v)
      /\ f.alive \/ f.failed # NoTask \/ f.over \/ Arm[f.block].rescue # <<>> \/ Excused(v)
      /\ f.arm = "rescue" => x \in Range(Arm[f.block].tasks) /\ v[x] = "failed"
  BY <1>0, AtTop
<1>2. u = s
  <2>1. /\ u \in Seq(FrameType) /\ Len(u) = Len(s) /\ Len(s) \in Nat \ {0} /\ f = s[1] /\ u[1] = f
        /\ \A i \in 2 .. Len(s) : u[i] = s[i]
    BY <1>0, <1>1, Swapped
  <2> HIDE DEF u
  <2>2. \A i \in 1 .. Len(s) : i = 1 \/ i \in 2 .. Len(s)
    BY <2>1
  <2>3. \A i \in 1 .. Len(s) : u[i] = s[i]
    BY <2>1, <2>2
  <2> QED BY <1>0, <2>1, <2>3, SeqEqual
<1>3. f.failed # NoTask => f.failed \in Range(List(f)) /\ v[f.failed] = "failed"
  BY DEF Standing, Control
<1>4. Outer(<<f>> \o Tail(s), x) = Outer(s, x)
  BY <1>0, <1>1, OuterSame
<1>5. f.next <= Len(List(f)) + 1 /\ f.next # 0
  BY <1>1
<1>6. Standing("armDone", k, <<f>> \o Tail(s), r, v, x, t)
  BY <1>0, <1>1, <1>3, <1>4, <1>5, StandsMoved
<1> QED BY <1>2, <1>6

\* A child returns into its list.
LEMMA MovesBack ==
  ASSUME NEW t, Root(t), NEW k \in Tasks, NEW s, s # <<>>, NEW r, NEW v, NEW x,
         Standing("return", k, s, r, v, x, t),
         NEW d \in {"list", "skip"}, d = "list" => r.out # "failed",
         NEW g \in FrameType, g.block = Head(s).block, g.coord = Head(s).coord, g.arm = Head(s).arm,
         g.next = Head(s).next, g.failed = (IF r.out = "failed" THEN k ELSE Head(s).failed),
         g.alive = (Head(s).alive /\ r.alive),
         g.over = Head(s).over, g.left = Head(s).left, g.saved = Head(s).saved
  PROVE  Standing(d, k, <<g>> \o Tail(s), r, v, x, t)
<1> DEFINE f == Head(s)
           b == f.block
           L == List(f)
<1>0. d \in Walking /\ s \in Seq(FrameType)
  BY DEF Walking, Standing, Control, Nest
<1>1. /\ f \in FrameType /\ b \in Tasks /\ f.next \in 1 .. Len(L) + 1 /\ Len(L) \in Nat
      /\ f.coord => Within(f, v)
      /\ f.alive \/ f.failed # NoTask \/ f.over \/ Arm[b].rescue # <<>> \/ Excused(v)
      /\ f.arm = "rescue" => x \in Range(Arm[b].tasks) /\ v[x] = "failed"
      /\ \A i \in 1 .. Len(L) : L[i] \in Range(L)
  BY AtTop
<1>2. List(g) = L
  BY DEF List
<1>3. f.next > 1 /\ k = TaskOf(f) /\ f.failed = NoTask /\ r.out \in Outs /\ v[k] = Verdict(r)
  BY DEF Standing, Control
<1>4. f.next - 1 \in 1 .. Len(L) /\ k = L[f.next - 1] /\ k \in Range(L) /\ k # NoTask
  BY <1>1, <1>3, TreeAssumption DEF TaskOf
<1>5. Verdict(r) # "none" /\ (Verdict(r) = "failed" <=> r.out = "failed")
  BY <1>3, EndingOf DEF Endings
<1>6. g.failed # NoTask => g.failed \in Range(List(g)) /\ v[g.failed] = "failed"
  BY <1>2, <1>3, <1>4, <1>5
<1>7. ASSUME g.coord
      PROVE  Between(g, v)
  <2>1. Within(f, v) /\ L = Arm[b][f.arm]
    BY <1>1, <1>7 DEF List
  <2>2. \A i \in 1 .. f.next - 2 : v[L[i]] # "failed"
    BY <1>3, <2>1 DEF Within, Midway
  <2>3. \A i \in 1 .. g.next - 1 : i = f.next - 1 \/ i \in 1 .. f.next - 2
    BY <1>1
  <2>4. v[L[f.next - 1]] = "failed" => g.failed # NoTask
    BY <1>3, <1>4, <1>5
  <2>5. \A i \in 1 .. g.next - 1 : v[L[i]] = "failed" => g.failed # NoTask
    BY <2>2, <2>3, <2>4
  <2>6. \A i \in g.next .. Len(L) : Fresh(v, L[i])
    BY <2>1 DEF Within, Midway
  <2>7. ASSUME g.arm = "always"
        PROVE  Tried(v, b)
    <3>1. CASE f.next - 2 > 0
      BY <2>1, <2>7, <3>1 DEF Within, Midway
    <3>2. CASE ~(f.next - 2 > 0)
      <4>1. f.next - 1 = 1
        BY <1>1, <1>3, <3>2
      <4>2. v[Arm[b].always[1]] # "none"
        BY <1>3, <1>4, <1>5, <2>1, <2>7, <4>1
      <4> QED BY <4>2 DEF Tried
    <3> QED BY <3>1, <3>2
  <2> QED BY <1>2, <2>1, <2>5, <2>6, <2>7 DEF Within, Between, Midway
<1>8. Outer(<<g>> \o Tail(s), x) = Outer(s, x)
  BY <1>0, OuterSame
<1>9. g.next <= Len(List(g)) + 1 /\ g.next # 0 /\ g.next > 1
  BY <1>1, <1>2, <1>3
<1>10. \/ g.alive \/ g.failed # NoTask \/ g.over \/ Arm[g.block].rescue # <<>> \/ Excused(v)
  <2>1. r.alive \/ r.out = "failed" \/ Excused(v)
    BY DEF Standing, Owned
  <2> QED BY <1>1, <1>3, <1>4, <2>1
<1>11. d = "list" => g.failed = NoTask
  BY <1>3
<1>12. g.arm = "rescue" => x \in Range(Arm[g.block].tasks) /\ v[x] = "failed"
  BY <1>1
<1> QED BY <1>0, <1>6, <1>7, <1>8, <1>9, <1>10, <1>11, <1>12, StandsMoved

\* At the end of an arm the walker knows whether a task of it has failed.
LEMMA ArmEnded ==
  ASSUME NEW t, Root(t), NEW k, NEW s, s # <<>>, NEW r, NEW v, NEW x, Standing("armDone", k, s, r, v, x, t)
  PROVE  /\ s \in Seq(FrameType) /\ Head(s) \in FrameType /\ Head(s).block \in Tasks
         /\ Head(s).arm \in Arms /\ Len(List(Head(s))) \in Nat
         /\ Head(s).failed # NoTask =>
              Head(s).failed \in Range(List(Head(s))) /\ v[Head(s).failed] = "failed"
         /\ Head(s).coord => /\ Between(Head(s), v)
                             /\ Fails(v, List(Head(s))) <=> Head(s).failed # NoTask
                             /\ Head(s).arm = "always" => Tried(v, Head(s).block)
         /\ \/ Head(s).alive \/ Head(s).failed # NoTask \/ Head(s).over
            \/ Arm[Head(s).block].rescue # <<>> \/ Excused(v)
<1> DEFINE f == Head(s)
           L == List(f)
<1>1. /\ f \in FrameType /\ f.block \in Tasks /\ f.arm \in Arms
      /\ f.next \in 1 .. Len(L) + 1 /\ Len(L) \in Nat
      /\ f.coord => Between(f, v)
      /\ f.alive \/ f.failed # NoTask \/ f.over \/ Arm[f.block].rescue # <<>> \/ Excused(v)
  BY AtTop
<1>2. /\ s \in Seq(FrameType) /\ f.next > Len(L)
      /\ f.failed # NoTask => f.failed \in Range(L) /\ v[f.failed] = "failed"
  BY DEF Standing, Control, Nest
<1>3. f.next - 1 = Len(L)
  BY <1>1, <1>2
<1>4. Range(L) = {L[i] : i \in 1 .. Len(L)} /\ (L = <<>> <=> Len(L) = 0)
  BY <1>1, Elements DEF List
<1>5. ASSUME f.coord
      PROVE  Fails(v, L) <=> f.failed # NoTask
  <2>1. \A i \in 1 .. Len(L) : v[L[i]] = "failed" => f.failed # NoTask
    BY <1>1, <1>3, <1>5 DEF Between, Midway
  <2> QED BY <1>2, <1>4, <2>1 DEF Fails
<1>6. ASSUME f.coord, f.arm = "always"
      PROVE  Tried(v, f.block)
  <2>1. L = Arm[f.block].always
    BY <1>6 DEF List
  <2>2. CASE L = <<>>
    BY <2>1, <2>2 DEF Tried
  <2>3. CASE L # <<>>
    <3>1. f.next - 1 > 0
      BY <1>1, <1>3, <1>4, <2>3
    <3> QED BY <1>1, <1>6, <3>1 DEF Between, Midway
  <2> QED BY <2>2, <2>3
<1> QED BY <1>1, <1>2, <1>5, <1>6

\* A block's failure goes to its rescue arm.
LEMMA MovesToRescue ==
  ASSUME NEW t, Root(t), NEW k, NEW s, s # <<>>, NEW r, NEW v, NEW x, Standing("armDone", k, s, r, v, x, t),
         NeedsRescue(Head(s)),
         NEW g \in FrameType, g.block = Head(s).block, g.coord = Head(s).coord, g.arm = "rescue", g.next = 1,
         g.failed = NoTask, g.alive = Head(s).alive, g.over = Head(s).over, g.left = Head(s).left, g.saved = x
  PROVE  Standing("list", k, <<g>> \o Tail(s), r, v, Head(s).failed, t)
<1> DEFINE f == Head(s)
           b == f.block
           y == f.failed
<1>1. /\ s \in Seq(FrameType) /\ f \in FrameType /\ b \in Tasks
      /\ f.failed # NoTask => f.failed \in Range(List(f)) /\ v[f.failed] = "failed"
      /\ f.coord => Between(f, v) /\ (Fails(v, List(f)) <=> f.failed # NoTask)
  BY ArmEnded
<1>2. f.arm = "tasks" /\ f.failed # NoTask /\ Arm[b].rescue # <<>>
  BY DEF NeedsRescue
<1>3. List(f) = Arm[b].tasks /\ List(g) = Arm[b].rescue
  BY <1>2 DEF List
<1>4. y \in Range(Arm[g.block].tasks) /\ v[y] = "failed"
  BY <1>1, <1>2, <1>3
<1>5. ASSUME g.coord
      PROVE  Between(g, v)
  <2>1. Between(f, v) /\ Fails(v, Arm[b].tasks)
    BY <1>1, <1>2, <1>3, <1>5
  <2>2. /\ f.left = 0 /\ ~f.over
        /\ \A c \in Range(Arm[b].rescue) : Fresh(v, c)
        /\ \A c \in Range(Arm[b].always) : Fresh(v, c)
    BY <1>2, <2>1 DEF Between, Midway
  <2>3. \A i \in 1 .. Len(Arm[b].rescue) : Arm[b].rescue[i] \in Range(Arm[b].rescue)
    BY <1>1, Nested DEF Arms
  <2>4. \A i \in g.next .. Len(List(g)) : Fresh(v, List(g)[i])
    BY <1>3, <2>2, <2>3
  <2>5. \A i \in 1 .. g.next - 1 : FALSE
    OBVIOUS
  <2> QED BY <1>2, <2>1, <2>2, <2>4, <2>5 DEF Between, Midway
<1>6. Outer(<<g>> \o Tail(s), y) = Outer(s, x)
  <2>1. Head(<<g>> \o Tail(s)) = g
    BY <1>1, Swapped
  <2> QED BY <1>2, <2>1 DEF Outer
<1>7. Len(List(g)) \in Nat /\ "list" \in Walking
  BY <1>1, <1>3, Elements DEF Arms, Walking
<1>8. g.next <= Len(List(g)) + 1 /\ g.next # 0
  BY <1>7
<1>9. Arm[g.block].rescue # <<>>
  BY <1>2
<1> QED BY <1>4, <1>5, <1>6, <1>7, <1>8, <1>9, StandsMoved

\* What a block has come to before its always arm.
LEMMA LostBefore ==
  ASSUME NEW f \in FrameType, NEW v, Between(f, v), Fails(v, List(f)) <=> f.failed # NoTask,
         f.arm # "always", ~NeedsRescue(f)
  PROVE  f.over \/ f.failed # NoTask <=> Lost(v, f.block)
<1>1. CASE f.arm = "tasks"
  <2>1. ~f.over /\ List(f) = Arm[f.block].tasks
    BY <1>1 DEF Between, Midway, List
  <2> QED BY <1>1, <2>1 DEF Lost, NeedsRescue
<1>2. CASE f.arm = "rescue"
  <2>1. ~f.over /\ Arm[f.block].rescue # <<>> /\ Fails(v, Arm[f.block].tasks) /\ List(f) = Arm[f.block].rescue
    BY <1>2 DEF Between, Midway, List
  <2> QED BY <2>1 DEF Lost
<1> QED BY <1>1, <1>2 DEF FrameType, Arms

\* What has happened to it is settled, and the always arm begins.
LEMMA MovesToAlways ==
  ASSUME NEW t, Root(t), NEW k, NEW s, s # <<>>, NEW r, NEW v, NEW x, Standing("armDone", k, s, r, v, x, t),
         ~NeedsRescue(Head(s)), Head(s).arm # "always",
         NEW g \in FrameType, g.block = Head(s).block, g.coord = Head(s).coord, g.arm = "always", g.next = 1,
         g.failed = NoTask, g.alive = Head(s).alive, g.over = (Head(s).over \/ Head(s).failed # NoTask),
         g.left = Head(s).left
  PROVE  Standing("list", k, <<g>> \o Tail(s), r, v, Outer(s, x), t)
<1> DEFINE f == Head(s)
           b == f.block
<1>1. /\ s \in Seq(FrameType) /\ f \in FrameType /\ b \in Tasks /\ f.arm \in Arms
      /\ f.coord => Between(f, v) /\ (Fails(v, List(f)) <=> f.failed # NoTask)
      /\ f.alive \/ f.failed # NoTask \/ f.over \/ Arm[b].rescue # <<>> \/ Excused(v)
  BY ArmEnded
<1>2. List(g) = Arm[b].always
  BY DEF List
<1>3. ASSUME g.coord
      PROVE  Between(g, v)
  <2>1. Between(f, v) /\ (g.over <=> Lost(v, b))
    BY <1>1, <1>3, LostBefore
  <2>2. f.left = 0 /\ \A c \in Range(Arm[b].always) : Fresh(v, c)
    BY <1>1, <2>1 DEF Between, Midway, Arms
  <2>3. \A i \in 1 .. Len(Arm[b].always) : Arm[b].always[i] \in Range(Arm[b].always)
    BY <1>1, Nested DEF Arms
  <2>4. \A i \in g.next .. Len(List(g)) : Fresh(v, List(g)[i])
    BY <1>2, <2>2, <2>3
  <2>5. (\A i \in 1 .. g.next - 1 : FALSE) /\ ~(g.next - 1 > 0)
    OBVIOUS
  <2> QED BY <2>1, <2>2, <2>4, <2>5 DEF Between, Midway
<1>4. Outer(<<g>> \o Tail(s), Outer(s, x)) = Outer(s, x)
  <2>1. Head(<<g>> \o Tail(s)) = g
    BY <1>1, Swapped
  <2> QED BY <2>1 DEF Outer
<1>5. Len(List(g)) \in Nat /\ "list" \in Walking
  BY <1>1, <1>2, Elements DEF Arms, Walking
<1>6. g.next <= Len(List(g)) + 1 /\ g.next # 0
  BY <1>5
<1>7. g.alive \/ g.failed # NoTask \/ g.over \/ Arm[g.block].rescue # <<>> \/ Excused(v)
  BY <1>1
<1> QED BY <1>3, <1>4, <1>5, <1>6, <1>7, StandsMoved

\* The iteration is over.
LEMMA MovesAround ==
  ASSUME NEW t, Root(t), NEW k, NEW s, s # <<>>, NEW r, NEW v, NEW x, Standing("armDone", k, s, r, v, x, t),
         ~NeedsRescue(Head(s)), Head(s).arm = "always" \/ Arm[Head(s).block].always = <<>>,
         NEW g \in FrameType, g.block = Head(s).block, g.coord = Head(s).coord, g.arm = "tasks", g.next = 1,
         g.failed = NoTask, g.alive = Head(s).alive, g.over = (Head(s).over \/ Head(s).failed # NoTask),
         g.left = Head(s).left
  PROVE  Standing("iterate", k, <<g>> \o Tail(s), r, v, Outer(s, x), t)
<1> DEFINE f == Head(s)
           b == f.block
<1>1. /\ s \in Seq(FrameType) /\ f \in FrameType /\ b \in Tasks /\ f.arm \in Arms
      /\ f.coord => /\ Between(f, v) /\ (Fails(v, List(f)) <=> f.failed # NoTask)
                    /\ f.arm = "always" => Tried(v, b)
      /\ f.alive \/ f.failed # NoTask \/ f.over \/ Arm[b].rescue # <<>> \/ Excused(v)
  BY ArmEnded
<1>2. List(g) = Arm[b].tasks
  BY DEF List
<1>3. ASSUME g.coord
      PROVE  Around(g, v)
  <2>1. Between(f, v) /\ (Fails(v, List(f)) <=> f.failed # NoTask)
    BY <1>1, <1>3
  <2>2. g.left = 0
    BY <2>1 DEF Between, Midway
  <2>3. CASE f.arm = "always"
    <3>1. List(f) = Arm[b].always /\ (f.over <=> Lost(v, b)) /\ Tried(v, b)
      BY <1>1, <1>3, <2>1, <2>3 DEF List, Between, Midway
    <3> QED BY <2>1, <2>2, <3>1 DEF Around
  <2>4. CASE f.arm # "always"
    <3>1. g.over <=> Lost(v, b)
      BY <1>1, <2>1, <2>4, LostBefore
    <3>2. Arm[b].always = <<>> /\ Range(Arm[b].always) = {}
      <4>1. "always" \in Arms /\ Arm[b].always = <<>>
        BY <2>4 DEF Arms
      <4> QED BY <4>1 DEF Range
    <3>3. ~Fails(v, Arm[b].always) /\ Tried(v, b)
      BY <3>2 DEF Fails, Tried
    <3> QED BY <2>2, <3>1, <3>3 DEF Around
  <2> QED BY <2>3, <2>4
<1>4. Outer(<<g>> \o Tail(s), Outer(s, x)) = Outer(s, x)
  <2>1. Head(<<g>> \o Tail(s)) = g
    BY <1>1, Swapped
  <2> QED BY <2>1 DEF Outer
<1>5. Len(List(g)) \in Nat /\ "iterate" \in Walking
  BY <1>1, <1>2, Elements DEF Arms, Walking
<1>6. g.next <= Len(List(g)) + 1 /\ g.next # 0
  BY <1>5
<1>7. g.alive \/ g.failed # NoTask \/ g.over \/ Arm[g.block].rescue # <<>> \/ Excused(v)
  BY <1>1
<1> QED BY <1>3, <1>4, <1>5, <1>6, <1>7, StandsMoved

-----------------------------------------------------------------------------
(* Steps in a play *)

\* A broadcast is taken for a task that ends with it.
Traced(h) == \A u \in Tasks : taken[h][u] # NoCell => verdict[h][u] # "none"

\* A walker's step is its own affair.
Apart(h) ==
  \A g \in Hosts \ {h} :
    /\ ctl'[g] = ctl[g] /\ cur'[g] = cur[g] /\ stack'[g] = stack[g] /\ res'[g] = res[g]
    /\ pending'[g] = pending[g] /\ failedVar'[g] = failedVar[g]
    /\ verdict'[g] = verdict[g] /\ taken'[g] = taken[g]

\* It ends no task but of the subtree it was sent into, and none twice outside of
\* loops.
Wrote(h, t) ==
  \A u \in Tasks : verdict'[h][u] = verdict[h][u] \/
    (u \in Subtree(t) /\ verdict'[h][u] \in Endings /\ (verdict[h][u] = "none" \/ ~Unlooped(u)))

\* It notifies for a reason, and the broadcast it takes is its first for the task.
Told(h) ==
  /\ pending[h] \subseteq pending'[h]
  /\ \A n \in pending'[h] : n \in pending[h] \/ \E u \in Tasks : n \in Notify[u] /\ Cause(h, u)'
  /\ \A u \in Tasks : taken'[h][u] = taken[h][u] \/ (verdict[h][u] = "none" /\ verdict'[h][u] # "none")

\* What a step of the walker sent into `t` does.
Moved(h, t) ==
  /\ WalkTypeOK' /\ Walker(h, t)' /\ ctl'[h] \in Walking
  /\ dead' = dead /\ Apart(h) /\ Wrote(h, t) /\ Told(h)

\* Slots are numbers.
LEMMA SlotsCount ==
  ASSUME DOMAIN cells \subseteq Tasks, NEW s, NEW e \in Nat, NEW n \in Nat
  PROVE  SizeAt(s, e) \in Nat /\ n + SizeAt(s, e) \in Nat /\ Compensated(s, e, n) \in Nat
<1>1. SizeAt(s, e) \in Nat
  BY Numbers DEF SizeAt
<1> QED BY <1>1 DEF Compensated

\* A step that changes no more than where the walker stands.
Only(h) ==
  /\ ctl' = [ctl EXCEPT ![h] = ctl'[h]] /\ cur' = [cur EXCEPT ![h] = cur'[h]]
  /\ slot' = [slot EXCEPT ![h] = slot'[h]] /\ failedVar' = [failedVar EXCEPT ![h] = failedVar'[h]]
  /\ ctl'[h] \in Walking /\ cur'[h] \in Tasks \cup {NoTask}
  /\ slot'[h] \in Nat /\ failedVar'[h] \in Tasks \cup {NoTask}
  /\ UNCHANGED <<res, cells, pending, dead, verdict, taken>>

\* A step from frame to frame.
LEMMA Shifts ==
  ASSUME NEW h \in Hosts, NEW t, WalkTypeOK, Only(h),
         NEW s \in Seq(FrameType), stack' = [stack EXCEPT ![h] = s],
         Standing(ctl'[h], cur'[h], s, res[h], verdict[h], failedVar'[h], t)
  PROVE  Moved(h, t)
<1>1. stack'[h] = s /\ res'[h] = res[h] /\ verdict'[h] = verdict[h]
  BY DEF Only, WalkTypeOK
<1>2. Walker(h, t)'
  BY <1>1 DEF Walker
<1>3. WalkTypeOK'
  <2>1. ctl'[h] \in {"idle", "call", "iterate", "list", "skip", "armDone",
                        "return", "flush", "handler", "done"}
    BY DEF Only, Walking
  <2> QED BY <2>1 DEF Only, WalkTypeOK
<1>4. Apart(h)
  BY DEF Apart, Only, WalkTypeOK
<1>5. Wrote(h, t) /\ Told(h)
  BY DEF Wrote, Told, Only
<1> QED BY <1>2, <1>3, <1>4, <1>5 DEF Moved, Only

\* The task a walker dispatches or comes back from.
LEMMA AtTask ==
  ASSUME NEW t, Root(t), NEW c \in {"call", "return"}, NEW k, NEW s, NEW r, NEW v, NEW x,
         Standing(c, k, s, r, v, x, t)
  PROVE  /\ k \in Tasks /\ k \in Subtree(t) /\ k \in Subtree(k) /\ s \in Seq(FrameType)
         /\ c = "call" => /\ Shared(s) => v[k] = "none"
                          /\ Unlooped(k) => v[k] = "none"
<1>1. /\ t \in Tasks /\ Nest(s, t) /\ s \in Seq(FrameType)
      /\ s = <<>> => k = t
      /\ s # <<>> => Head(s).next > 1 /\ k = TaskOf(Head(s))
  BY DEF Standing, Control, Root, Nest
<1>2. ASSUME s # <<>>
      PROVE  /\ Head(s) = s[1] /\ 1 \in 1 .. Len(s)
             /\ k \in Tasks /\ k \in Subtree(Head(s).block)
  <2>1. Head(s) = s[1] /\ 1 \in 1 .. Len(s)
    BY <1>1, <1>2, OffTop
  <2>2. TaskOf(s[1]) \in Tasks /\ TaskOf(s[1]) \in Subtree(s[1].block)
    BY <1>1, <1>2, <2>1, Spot
  <2> QED BY <1>1, <1>2, <2>1, <2>2
<1>3. k \in Tasks
  BY <1>1, <1>2
<1>4. k \in Subtree(k)
  BY <1>3, Numbers DEF Subtree
<1>5. k \in Subtree(t)
  <2>1. CASE s = <<>>
    BY <1>1, <1>4, <2>1
  <2>2. CASE s # <<>>
    <3>1. Head(s).next > 1 /\ k \in Subtree(TaskOf(Head(s)))
      BY <1>1, <1>4, <2>2
    <3> QED BY <1>1, <2>2, <3>1, Inside
  <2> QED BY <2>1, <2>2
<1>6. ASSUME c = "call", Shared(s)
      PROVE  v[k] = "none"
  <2>1. Fresh(v, k)
    BY <1>6 DEF Standing, Meaning
  <2> QED BY <1>4, <2>1 DEF Fresh
<1>7. ASSUME Unlooped(k)
      PROVE  Shared(s)
  <2>1. CASE s = <<>>
    BY <2>1 DEF Shared
  <2>2. CASE s # <<>>
    BY <1>1, <1>2, <1>7, <2>2, OpenShared
  <2> QED BY <2>1, <2>2
<1> QED BY <1>1, <1>3, <1>4, <1>5, <1>6, <1>7

Results == [out : Outs, changed : BOOLEAN, alive : BOOLEAN]

\* A task ends with `r`: one that has run, one whose result was taken over, a block
\* that is skipped.
EndsWith(h, r) ==
  /\ ctl[h] = "call" /\ Return(h, r) /\ (r.alive \/ r.out = "failed" \/ Excusable(cur[h]))
  /\ slot' = [slot EXCEPT ![h] = Compensated(stack[h], @, @ + 1)]
  /\ UNCHANGED <<cur, stack, failedVar, dead>>
  /\ DOMAIN cells' \subseteq Tasks /\ cells' \in [DOMAIN cells' -> CellType]
  /\ \/ /\ taken' = taken
        /\ \/ pending' = pending
           \/ /\ \E told \in SUBSET Notify[cur[h]] : pending' = [pending EXCEPT ![h] = @ \cup told]
              /\ Verdict(r) = "changed" \/ cur[h] \in Composite
     \/ /\ Shared(stack[h])
        /\ \E c \in CellType :
             /\ taken' = [taken EXCEPT ![h][cur[h]] = c]
             /\ \/ pending' = pending
                \/ /\ pending' = [pending EXCEPT ![h] = @ \cup Notify[cur[h]]]
                   /\ Verdict(r) = "changed" \/ (c # NoCell /\ Untold(c.task))

\* What a body comes to.
LEMMA BodyEnds ==
  ASSUME NEW t, NEW b \in Bodies
  PROVE  /\ BodyResult(t, b) \in Results /\ [BodyResult(t, b) EXCEPT !.alive = TRUE] \in Results
         /\ (b = "lost" => t \in Composite) =>
              BodyResult(t, b).alive \/ BodyResult(t, b).out = "failed" \/ Excusable(t)
         /\ Verdict(BodyResult(t, "changed")) = "changed"
         /\ \A c \in {"unchanged", "changed", "skipped", "error"} : BodyResult(t, c).alive
<1>1. Outcome(t, b) \in Outs /\ (b = "broken" => Outcome(t, b) = "failed" \/ t \in Ignore)
  BY DEF Outcome, Outs, Bodies
<1>2. Outcome(t, "changed") = "ok"
  BY DEF Outcome
<1> QED BY <1>1, <1>2 DEF BodyResult, Results, Excusable, Verdict

\* Only bodies are run.
LEMMA BodiesOf ==
  ASSUME NEW h \in Hosts, NEW t \in Tasks
  PROVE  /\ BodyOn(h, t) \subseteq Bodies /\ May[h, t] \subseteq Bodies
         /\ "lost" \in BodyOn(h, t) => t \in Composite
<1>1. May \in [Hosts \X Tasks -> SUBSET Bodies] /\ <<h, t>> \in Hosts \X Tasks
  BY TreeAssumption
<1>2. May[h, t] \subseteq Bodies
  BY <1>1
<1>3. "lost" \in May[h, t] => t \in Composite
  BY HandlerAssumption
<1> QED BY <1>2, <1>3 DEF BodyOn, Bodies

\* A task notifies whom it names, after a change; a handler block when it has run.
LEMMA TellsWhom ==
  ASSUME NEW t \in Tasks, NEW b \in Bodies, NEW told \in Tells(t, b)
  PROVE  /\ told \subseteq Notify[t]
         /\ told = {} \/ b = "changed" \/ t \in Composite
<1>1. Notify[t] \subseteq Handlers
  BY TreeAssumption
<1> QED BY <1>1 DEF Tells

\* What a broadcast notifies for is a change, or cannot tell.
LEMMA BroadcastTells ==
  ASSUME NEW t, NEW b \in Bodies, BroadcastNotifies(t, b)
  PROVE  Verdict([BodyResult(t, b) EXCEPT !.alive = TRUE]) = "changed" \/ Untold(t)
<1>1. ASSUME ~Untold(t)
      PROVE  b = "changed"
  BY <1>1 DEF BroadcastNotifies, Untold, Outcome, Bodies
<1>2. Outcome(t, "changed") = "ok"
  BY DEF Outcome
<1> QED BY <1>1, <1>2 DEF Verdict, BodyResult

\* So does every leaf, and a block that is not entered.
LEMMA RunsToEnd ==
  ASSUME NEW h \in Hosts, WalkTypeOK, cur[h] \in Tasks, RunLeaf(h) \/ RunOnceRunner(h)
  PROVE  \E r \in Results : EndsWith(h, r)
<1>1. PICK b \in BodyOn(h, cur[h]) :
        /\ ctl[h] = "call" /\ Return(h, BodyResult(cur[h], b))
        /\ \/ EnqueueNotifies(h, cur[h], b = "changed")
           \/ \E told \in Tells(cur[h], b) : pending' = [pending EXCEPT ![h] = @ \cup told]
        /\ cells' = cells \/ (Coordinated(h) /\ cells' = [cells EXCEPT ![slot[h]] = [task |-> cur[h], body |-> b]])
  BY DEF RunLeaf, RunOnceRunner
<1>2. slot' = [slot EXCEPT ![h] = Compensated(stack[h], @, @ + 1)] /\ UNCHANGED <<cur, stack, failedVar, dead, taken>>
  BY DEF RunLeaf, RunOnceRunner
<1>3. b \in Bodies /\ (b = "lost" => cur[h] \in Composite)
  BY BodiesOf
<1> DEFINE r == BodyResult(cur[h], b)
<1>4. r \in Results /\ (r.alive \/ r.out = "failed" \/ Excusable(cur[h]))
  BY <1>3, BodyEnds
<1>5. DOMAIN cells' \subseteq Tasks /\ cells' \in [DOMAIN cells' -> CellType]
  <2>1. DOMAIN cells \subseteq Tasks /\ cells \in [DOMAIN cells -> CellType]
    BY DEF WalkTypeOK
  <2>2. [task |-> cur[h], body |-> b] \in CellType
    BY <1>3 DEF CellType
  <2>3. CASE cells' = cells
    BY <2>1, <2>3
  <2>4. CASE cells' = [cells EXCEPT ![slot[h]] = [task |-> cur[h], body |-> b]]
    BY <2>1, <2>2, <2>4
  <2> QED BY <1>1, <2>3, <2>4
<1>6. \/ pending' = pending
      \/ /\ \E told \in SUBSET Notify[cur[h]] : pending' = [pending EXCEPT ![h] = @ \cup told]
         /\ Verdict(r) = "changed" \/ cur[h] \in Composite
  <2>1. CASE EnqueueNotifies(h, cur[h], b = "changed") /\ b = "changed"
    BY <1>3, <2>1, BodyEnds DEF EnqueueNotifies
  <2>2. CASE EnqueueNotifies(h, cur[h], b = "changed") /\ b # "changed"
    BY <2>2 DEF EnqueueNotifies
  <2>3. CASE ~EnqueueNotifies(h, cur[h], b = "changed")
    <3>1. PICK told \in Tells(cur[h], b) : pending' = [pending EXCEPT ![h] = @ \cup told]
      BY <1>1, <2>3
    <3>2. told \subseteq Notify[cur[h]] /\ (told = {} \/ b = "changed" \/ cur[h] \in Composite)
      BY <1>3, TellsWhom
    <3>3. b = "changed" => Verdict(r) = "changed"
      BY <1>3, BodyEnds
    <3>4. told = {} => pending' = pending
      BY <3>1 DEF WalkTypeOK
    <3> QED BY <3>1, <3>2, <3>3, <3>4
  <2> QED BY <2>1, <2>2, <2>3
<1>7. ctl[h] = "call" /\ Return(h, r)
  BY <1>1
<1> HIDE DEF r
<1> QED BY <1>2, <1>4, <1>5, <1>6, <1>7 DEF EndsWith

\* A broadcast that is taken over.
LEMMA TakesToEnd ==
  ASSUME NEW h \in Hosts, WalkTypeOK, RunOnceOther(h)
  PROVE  \E r \in Results : EndsWith(h, r)
<1> DEFINE c == cells[slot[h]]
<1>1. /\ ctl[h] = "call" /\ Coordinated(h) /\ c # NoCell
      /\ Return(h, [BodyResult(c.task, c.body) EXCEPT !.alive = TRUE])
      /\ EnqueueNotifies(h, cur[h], BroadcastNotifies(c.task, c.body))
      /\ taken' = [taken EXCEPT ![h][cur[h]] = c]
      /\ slot' = [slot EXCEPT ![h] = Compensated(stack[h], @, @ + 1)]
      /\ UNCHANGED <<cur, stack, cells, failedVar, dead>>
  BY DEF RunOnceOther
<1>2. c \in CellType /\ c.body \in Bodies /\ Shared(stack[h])
  BY <1>1 DEF Coordinated, WalkTypeOK, CellType
<1> HIDE DEF c
<1> DEFINE r == [BodyResult(c.task, c.body) EXCEPT !.alive = TRUE]
<1>3. r \in Results
  BY <1>2, BodyEnds
<1>4. r.alive
  BY DEF BodyResult
<1>5. \/ pending' = pending
      \/ /\ pending' = [pending EXCEPT ![h] = @ \cup Notify[cur[h]]]
         /\ Verdict(r) = "changed" \/ (c # NoCell /\ Untold(c.task))
  <2>1. CASE BroadcastNotifies(c.task, c.body)
    <3>1. Verdict(r) = "changed" \/ (c # NoCell /\ Untold(c.task))
      BY <1>1, <1>2, <2>1, BroadcastTells
    <3>2. pending' = [pending EXCEPT ![h] = @ \cup Notify[cur[h]]]
      BY <1>1, <2>1 DEF EnqueueNotifies
    <3> QED BY <3>1, <3>2
  <2>2. CASE ~BroadcastNotifies(c.task, c.body)
    BY <1>1, <2>2 DEF EnqueueNotifies
  <2> QED BY <2>1, <2>2
<1>6. DOMAIN cells' \subseteq Tasks /\ cells' \in [DOMAIN cells' -> CellType]
  BY <1>1 DEF WalkTypeOK
<1>7. Return(h, r)
  BY <1>1
<1> HIDE DEF r
<1> QED BY <1>1, <1>2, <1>3, <1>4, <1>5, <1>6, <1>7 DEF EndsWith

\* A block that is not entered.
LEMMA SkipsToEnd ==
  ASSUME NEW h \in Hosts, WalkTypeOK, SkipBlock(h)
  PROVE  \E r \in Results : EndsWith(h, r)
<1>1. PICK b \in {"skipped", "error"} : Return(h, BodyResult(cur[h], b))
  BY DEF SkipBlock
<1>2. /\ ctl[h] = "call"
      /\ slot' = [slot EXCEPT ![h] = Compensated(stack[h], @, @ + 1)]
      /\ UNCHANGED <<cur, stack, cells, pending, failedVar, dead, taken>>
  BY DEF SkipBlock
<1> DEFINE r == BodyResult(cur[h], b)
<1>3. r \in Results /\ r.alive
  BY BodyEnds DEF Bodies
<1>4. DOMAIN cells' \subseteq Tasks /\ cells' \in [DOMAIN cells' -> CellType]
  BY <1>2 DEF WalkTypeOK
<1>5. Return(h, r)
  BY <1>1
<1> HIDE DEF r
<1> QED BY <1>2, <1>3, <1>4, <1>5 DEF EndsWith

\* What ending a task changes.
LEMMA Ended ==
  ASSUME NEW h \in Hosts, WalkTypeOK, cur[h] \in Tasks, NEW r \in Results, EndsWith(h, r)
  PROVE  /\ WalkTypeOK' /\ Apart(h) /\ dead' = dead
         /\ r.out \in Outs /\ Verdict(r) \in Endings /\ Verdict(r) # "none"
         /\ ctl'[h] = "return" /\ res'[h] = r /\ cur'[h] = cur[h] /\ stack'[h] = stack[h]
         /\ failedVar'[h] = failedVar[h]
         /\ verdict'[h][cur[h]] = Verdict(r)
         /\ \A u \in Tasks : u # cur[h] => verdict'[h][u] = verdict[h][u] /\ taken'[h][u] = taken[h][u]
         /\ pending[h] \subseteq pending'[h] /\ pending'[h] \ pending[h] \subseteq Notify[cur[h]]
<1> DEFINE k == cur[h]
<1>1. r.out \in Outs /\ Verdict(r) \in Endings /\ Verdict(r) # "none"
  <2>1. r.out \in Outs
    BY DEF Results
  <2> QED BY <2>1, EndingOf DEF Endings
<1>2. /\ ctl' = [ctl EXCEPT ![h] = "return"] /\ res' = [res EXCEPT ![h] = r]
      /\ verdict' = [verdict EXCEPT ![h][k] = Verdict(r)]
      /\ UNCHANGED <<cur, stack, failedVar, dead>>
  BY DEF EndsWith, Return
<1>3. /\ verdict'[h][k] = Verdict(r) /\ \A u \in Tasks : u # k => verdict'[h][u] = verdict[h][u]
      /\ ctl'[h] = "return" /\ res'[h] = r
  BY <1>2 DEF WalkTypeOK
<1>4. \E told \in SUBSET Notify[k] : pending' = pending \/ pending' = [pending EXCEPT ![h] = @ \cup told]
  BY DEF EndsWith
<1>5. pending' \in [Hosts -> SUBSET Handlers]
  <2>1. Notify[k] \subseteq Handlers /\ pending \in [Hosts -> SUBSET Handlers]
    BY TreeAssumption DEF WalkTypeOK
  <2> QED BY <1>4, <2>1
<1>6. taken' = taken \/ \E c \in CellType : taken' = [taken EXCEPT ![h][k] = c]
  BY DEF EndsWith
<1>7. /\ taken' \in [Hosts -> [Tasks -> CellType]]
      /\ \A g \in Hosts \ {h} : taken'[g] = taken[g]
      /\ \A u \in Tasks : u # k => taken'[h][u] = taken[h][u]
  <2>1. taken \in [Hosts -> [Tasks -> CellType]]
    BY DEF WalkTypeOK
  <2>2. CASE taken' = taken
    BY <2>1, <2>2
  <2>3. CASE taken' # taken
    <3>1. PICK c \in CellType : taken' = [taken EXCEPT ![h][k] = c]
      BY <1>6, <2>3
    <3> QED BY <2>1, <3>1
  <2> QED BY <2>2, <2>3
<1>8. slot' \in [Hosts -> Nat]
  <2>1. slot \in [Hosts -> Nat] /\ DOMAIN cells \subseteq Tasks
    BY DEF WalkTypeOK
  <2>2. slot[h] \in Nat /\ slot[h] + 1 \in Nat
    BY <2>1
  <2>3. Compensated(stack[h], slot[h], slot[h] + 1) \in Nat
    BY <2>1, <2>2, SlotsCount
  <2>4. slot' = [slot EXCEPT ![h] = Compensated(stack[h], slot[h], slot[h] + 1)]
    BY DEF EndsWith
  <2> QED BY <2>1, <2>3, <2>4
<1>9. /\ ctl' \in [Hosts -> {"idle", "call", "iterate", "list", "skip", "armDone",
                        "return", "flush", "handler", "done"}]
      /\ res' \in [Hosts -> [out : {"none", "ok", "skipped", "failed"}, changed : BOOLEAN, alive : BOOLEAN]]
  BY <1>2 DEF WalkTypeOK, Results, Outs
<1>10. verdict' \in [Hosts -> [Tasks -> {"none", "ok", "changed", "skipped", "failed"}]]
  BY <1>1, <1>2 DEF WalkTypeOK, Endings
<1>11. DOMAIN cells' \subseteq Tasks /\ cells' \in [DOMAIN cells' -> CellType]
  BY DEF EndsWith
<1>12. WalkTypeOK'
  BY <1>2, <1>5, <1>7, <1>8, <1>9, <1>10, <1>11 DEF WalkTypeOK
<1>13. Apart(h)
  <2>1. ASSUME NEW g \in Hosts \ {h}
        PROVE  ctl'[g] = ctl[g] /\ res'[g] = res[g] /\ verdict'[g] = verdict[g] /\ pending'[g] = pending[g]
    BY <1>2, <1>4 DEF WalkTypeOK
  <2> QED BY <1>2, <1>7, <2>1 DEF Apart
<1>14. pending[h] \subseteq pending'[h] /\ pending'[h] \ pending[h] \subseteq Notify[k]
  BY <1>4 DEF WalkTypeOK
<1> QED BY <1>1, <1>2, <1>3, <1>7, <1>12, <1>13, <1>14

\* A walker that ends a task.
LEMMA Finishes ==
  ASSUME NEW h \in Hosts, NEW t, Root(t), WalkTypeOK, Walker(h, t), NEW r \in Results, EndsWith(h, r)
  PROVE  Moved(h, t)
<1> DEFINE k == cur[h]
           v == verdict[h]
           w == verdict'[h]
<1>1. Standing("call", k, stack[h], res[h], v, failedVar[h], t)
  BY DEF Walker, EndsWith
<1>2. /\ k \in Tasks /\ k \in Subtree(t) /\ k \in Subtree(k)
      /\ Shared(stack[h]) => v[k] = "none"
      /\ Unlooped(k) => v[k] = "none"
  <2>1. "call" \in {"call", "return"}
    OBVIOUS
  <2> QED BY <1>1, <2>1, AtTask
<1>3. /\ WalkTypeOK' /\ Apart(h) /\ dead' = dead
      /\ r.out \in Outs /\ Verdict(r) \in Endings /\ Verdict(r) # "none"
      /\ ctl'[h] = "return" /\ res'[h] = r /\ cur'[h] = k /\ stack'[h] = stack[h]
      /\ failedVar'[h] = failedVar[h] /\ w[k] = Verdict(r)
      /\ \A u \in Tasks : u # k => w[u] = v[u] /\ taken'[h][u] = taken[h][u]
      /\ pending[h] \subseteq pending'[h] /\ pending'[h] \ pending[h] \subseteq Notify[k]
  BY <1>2, Ended
<1>4. Standing("return", k, stack[h], r, w, failedVar[h], t)
  <2>1. r.alive \/ r.out = "failed" \/ Excusable(k)
    BY DEF EndsWith
  <2> HIDE DEF k, v, w
  <2> QED BY <1>1, <1>2, <1>3, <2>1, StandsAtEnd
<1>5. Walker(h, t)'
  BY <1>3, <1>4 DEF Walker
<1>6. Wrote(h, t)
  BY <1>2, <1>3 DEF Wrote
<1>7. PICK u \in Tasks : u = k
  BY <1>2
<1>8. /\ \A n \in Tasks : taken'[h][n] = taken[h][n] \/ (v[n] = "none" /\ w[n] # "none")
      /\ pending' # pending => Cause(h, u)'
  <2>1. CASE taken' = taken /\ (pending' # pending => Verdict(r) = "changed" \/ k \in Composite)
    BY <1>3, <1>7, <2>1 DEF Cause
  <2>2. CASE ~(taken' = taken /\ (pending' # pending => Verdict(r) = "changed" \/ k \in Composite))
    <3>1. Shared(stack[h]) /\ \E c \in CellType :
             /\ taken' = [taken EXCEPT ![h][cur[h]] = c]
             /\ \/ pending' = pending
                \/ Verdict(r) = "changed" \/ (c # NoCell /\ Untold(c.task))
      BY <2>2 DEF EndsWith
    <3>2. PICK c \in CellType :
             /\ taken' = [taken EXCEPT ![h][k] = c]
             /\ \/ pending' = pending
                \/ Verdict(r) = "changed" \/ (c # NoCell /\ Untold(c.task))
      BY <3>1
    <3>3. taken'[h][k] = c
      BY <1>2, <3>2 DEF WalkTypeOK
    <3>4. pending' # pending => Cause(h, u)'
      BY <1>3, <1>7, <3>2, <3>3 DEF Cause
    <3>5. v[k] = "none" /\ w[k] # "none"
      BY <1>2, <1>3, <3>1
    <3> QED BY <1>2, <1>3, <3>4, <3>5
  <2> QED BY <2>1, <2>2
<1>9. Told(h)
  <2>1. ASSUME NEW n \in pending'[h], n \notin pending[h]
        PROVE  n \in Notify[u] /\ Cause(h, u)'
    BY <1>3, <1>7, <1>8, <2>1
  <2> HIDE DEF k
  <2> QED BY <1>3, <1>8, <2>1 DEF Told
<1>10. ctl'[h] \in Walking
  BY <1>3 DEF Walking
<1> QED BY <1>3, <1>5, <1>6, <1>9, <1>10 DEF Moved

\* A task that is run, taken over or skipped.
LEMMA Returns ==
  ASSUME NEW h \in Hosts, NEW t, Root(t), WalkTypeOK, Walker(h, t),
         RunLeaf(h) \/ RunOnceRunner(h) \/ RunOnceOther(h) \/ SkipBlock(h)
  PROVE  Moved(h, t)
<1>1. ctl[h] \in {"call", "return"}
  BY DEF RunLeaf, RunOnceRunner, RunOnceOther, SkipBlock
<1>2. cur[h] \in Tasks
  <2>1. Standing(ctl[h], cur[h], stack[h], res[h], verdict[h], failedVar[h], t)
    BY DEF Walker
  <2> QED BY <1>1, <2>1, AtTask
<1>3. PICK r \in Results : EndsWith(h, r)
  BY <1>2, RunsToEnd, TakesToEnd, SkipsToEnd
<1> QED BY <1>3, Finishes

\* A walker that is not at a task is in a block.
LEMMA InBlock ==
  ASSUME NEW h \in Hosts, NEW t, Root(t), WalkTypeOK, Walker(h, t),
         ctl[h] \notin {"call", "return"} \/ stack[h] # <<>>
  PROVE  /\ Standing(ctl[h], cur[h], stack[h], res[h], verdict[h], failedVar[h], t)
         /\ stack[h] # <<>> /\ stack[h] \in Seq(FrameType) /\ Tail(stack[h]) \in Seq(FrameType)
         /\ Top(h) = Head(stack[h]) /\ Top(h) \in FrameType /\ Len(List(Top(h))) \in Nat
         /\ Top(h).next \in 1 .. Len(List(Top(h))) + 1
         /\ cur[h] \in Tasks \cup {NoTask} /\ failedVar[h] \in Tasks \cup {NoTask} /\ slot[h] \in Nat
         /\ DOMAIN cells \subseteq Tasks
<1>1. Standing(ctl[h], cur[h], stack[h], res[h], verdict[h], failedVar[h], t)
  BY DEF Walker
<1>2. stack[h] # <<>>
  BY <1>1 DEF Standing, Control
<1>3. stack[h] \in Seq(FrameType)
  BY DEF WalkTypeOK
<1>4. Tail(stack[h]) \in Seq(FrameType) /\ Top(h) = Head(stack[h])
  BY <1>2, <1>3, OffTop DEF Top
<1>5. Head(stack[h]) \in FrameType /\ Len(List(Head(stack[h]))) \in Nat
      /\ Head(stack[h]).next \in 1 .. Len(List(Head(stack[h]))) + 1
  BY <1>1, <1>2, AtTop
<1>6. cur[h] \in Tasks \cup {NoTask} /\ failedVar[h] \in Tasks \cup {NoTask} /\ slot[h] \in Nat
      /\ DOMAIN cells \subseteq Tasks
  BY DEF WalkTypeOK
<1> QED BY <1>1, <1>2, <1>3, <1>4, <1>5, <1>6

\* A step that changes the innermost frame.
LEMMA Turns ==
  ASSUME NEW h \in Hosts, NEW t, Root(t), WalkTypeOK, Walker(h, t), stack[h] # <<>>,
         NEW g \in FrameType, Replace(h, g), Only(h),
         Standing(ctl'[h], cur'[h], <<g>> \o Tail(stack[h]), res[h], verdict[h], failedVar'[h], t)
  PROVE  Moved(h, t)
<1> DEFINE s == <<g>> \o Tail(stack[h])
<1>1. s \in Seq(FrameType)
  <2>1. stack[h] \in Seq(FrameType)
    BY DEF WalkTypeOK
  <2> QED BY <2>1, Swapped
<1>2. stack' = [stack EXCEPT ![h] = s]
  BY DEF Replace
<1> HIDE DEF s
<1>3. Standing(ctl'[h], cur'[h], s, res[h], verdict[h], failedVar'[h], t)
  BY DEF s
<1> QED BY <1>1, <1>2, <1>3, Shifts

\* What stays as it is.
LEMMA Kept ==
  ASSUME NEW h \in Hosts, WalkTypeOK
  PROVE  /\ ctl = [ctl EXCEPT ![h] = ctl[h]] /\ cur = [cur EXCEPT ![h] = cur[h]]
         /\ stack = [stack EXCEPT ![h] = stack[h]] /\ slot = [slot EXCEPT ![h] = slot[h]]
         /\ failedVar = [failedVar EXCEPT ![h] = failedVar[h]]
BY DEF WalkTypeOK

\* Entering a block.
LEMMA Enters ==
  ASSUME NEW h \in Hosts, NEW t, Root(t), WalkTypeOK, Walker(h, t), EnterBlock(h)
  PROVE  Moved(h, t)
<1> DEFINE b == cur[h]
           s == stack[h]
<1>1. PICK n \in (IF b \in Looped THEN 0 .. MaxItems ELSE {1}) :
        stack' = [stack EXCEPT ![h] =
         <<[block |-> b, arm |-> "tasks", next |-> 1, failed |-> NoTask,
            listAlive |-> TRUE, alive |-> TRUE, over |-> FALSE, left |-> n,
            entry |-> slot[h], coord |-> Shared(s) /\ b \notin Looped,
            saved |-> NoTask]>> \o s]
  BY DEF EnterBlock
<1>2. /\ ctl[h] = "call" /\ Kind[b] = "block"
      /\ slot' = [slot EXCEPT ![h] = @ + 1] /\ ctl' = [ctl EXCEPT ![h] = "iterate"]
      /\ UNCHANGED <<cur, res, cells, pending, failedVar, dead, verdict, taken>>
  BY DEF EnterBlock
<1> DEFINE f == [block |-> b, arm |-> "tasks", next |-> 1, failed |-> NoTask,
            listAlive |-> TRUE, alive |-> TRUE, over |-> FALSE, left |-> n,
            entry |-> slot[h], coord |-> Shared(s) /\ b \notin Looped,
            saved |-> NoTask]
<1>3. Standing("call", b, s, res[h], verdict[h], failedVar[h], t)
  BY <1>2 DEF Walker
<1>4. b \in Tasks /\ s \in Seq(FrameType) /\ slot[h] \in Nat /\ failedVar[h] \in Tasks \cup {NoTask}
  <2>1. "call" \in {"call", "return"}
    OBVIOUS
  <2> QED BY <1>3, <2>1, AtTask DEF WalkTypeOK
<1>5. f \in FrameType
  <2>1. n \in 0 .. MaxItems + 1
    BY TreeAssumption
  <2>2. (Shared(s) /\ b \notin Looped) \in BOOLEAN
    OBVIOUS
  <2> HIDE DEF s, b
  <2> QED BY <1>4, <2>1, <2>2 DEF FrameType, Arms
<1>6. b \notin Looped => f.left = 1
  OBVIOUS
<1>7. Standing("iterate", b, <<f>> \o s, res[h], verdict[h], failedVar[h], t)
  <2>1. /\ f.block = b /\ f.arm = "tasks" /\ f.next = 1 /\ f.failed = NoTask
        /\ f.alive /\ ~f.over /\ (f.coord <=> Shared(s) /\ b \notin Looped)
    OBVIOUS
  <2> HIDE DEF f, s, b
  <2>2. Kind[b] = "block"
    BY <1>2
  <2> QED BY <1>3, <1>4, <1>5, <1>6, <2>1, <2>2, StandsInBlock
<1>8. <<f>> \o s \in Seq(FrameType)
  BY <1>4, <1>5, OnTop
<1>9. slot' = [slot EXCEPT ![h] = slot[h] + 1] /\ slot[h] + 1 \in Nat /\ "iterate" \in Walking
  BY <1>2, <1>4 DEF Walking
<1>10. stack' = [stack EXCEPT ![h] = <<f>> \o s]
  BY <1>1
<1>11. cur' = [cur EXCEPT ![h] = b] /\ failedVar' = [failedVar EXCEPT ![h] = failedVar[h]]
  BY <1>2, Kept
<1> DEFINE u == <<f>> \o s
<1>12. /\ Only(h) /\ ctl'[h] = "iterate" /\ cur'[h] = b /\ failedVar'[h] = failedVar[h]
  <2>1. ctl'[h] = "iterate" /\ slot'[h] = slot[h] + 1
    BY <1>2, <1>9 DEF WalkTypeOK
  <2> HIDE DEF u, f, s
  <2> QED BY <1>2, <1>4, <1>9, <1>11, <2>1 DEF Only
<1>13. Standing(ctl'[h], cur'[h], u, res[h], verdict[h], failedVar'[h], t)
  BY <1>7, <1>12
<1>14. stack' = [stack EXCEPT ![h] = u] /\ u \in Seq(FrameType)
  BY <1>8, <1>10
<1> HIDE DEF u, b, s, f
<1> QED BY <1>12, <1>13, <1>14, Shifts

\* The frame a list starts with.
LEMMA Started ==
  ASSUME NEW f \in FrameType, NEW a \in Arms
  PROVE  /\ StartArm(f, a) \in FrameType
         /\ StartArm(f, a).block = f.block /\ StartArm(f, a).coord = f.coord /\ StartArm(f, a).arm = a
         /\ StartArm(f, a).next = 1 /\ StartArm(f, a).failed = NoTask /\ StartArm(f, a).alive = f.alive
         /\ StartArm(f, a).over = f.over /\ StartArm(f, a).left = f.left /\ StartArm(f, a).saved = f.saved
BY DEF StartArm, FrameType

\* Another iteration, or the last.
LEMMA Iterates ==
  ASSUME NEW h \in Hosts, NEW t, Root(t), WalkTypeOK, Walker(h, t), Iterate(h)
  PROVE  Moved(h, t)
<1> DEFINE f == Top(h)
           s == stack[h]
<1>1. /\ ctl[h] = "iterate" /\ f.left > 0 /\ f.alive
      /\ slot' = [slot EXCEPT ![h] = f.entry + 1]
      /\ UNCHANGED <<cur, res, cells, pending, failedVar, dead, verdict, taken>>
  BY DEF Iterate
<1>2. /\ Standing("iterate", cur[h], s, res[h], verdict[h], failedVar[h], t)
      /\ s # <<>> /\ f = Head(s) /\ f \in FrameType
      /\ cur[h] \in Tasks \cup {NoTask} /\ failedVar[h] \in Tasks \cup {NoTask}
  BY <1>1, InBlock
<1>3. f.entry + 1 \in Nat /\ f.left - 1 \in 0 .. MaxItems + 1 /\ f.over \in BOOLEAN
  BY <1>1, <1>2, TreeAssumption DEF FrameType
<1>4. ASSUME NEW d \in {"list", "iterate"}, ctl' = [ctl EXCEPT ![h] = d]
      PROVE  Only(h) /\ ctl'[h] = d /\ cur'[h] = cur[h] /\ failedVar'[h] = failedVar[h]
  <2>1. ctl'[h] = d /\ d \in Walking /\ slot'[h] = f.entry + 1
    BY <1>1, <1>4 DEF WalkTypeOK, Walking
  <2> QED BY <1>1, <1>2, <1>3, <1>4, <2>1, Kept DEF Only
<1>5. CASE /\ Replace(h, [StartArm(f, "tasks") EXCEPT !.left = @ - 1])
           /\ ctl' = [ctl EXCEPT ![h] = "list"]
  <2> DEFINE g == [StartArm(f, "tasks") EXCEPT !.left = @ - 1]
  <2>1. /\ g \in FrameType /\ g.block = f.block /\ g.coord = f.coord /\ g.arm = "tasks" /\ g.next = 1
        /\ g.failed = NoTask /\ g.alive = f.alive /\ g.over = f.over /\ g.left = f.left - 1
    BY <1>2, <1>3 DEF StartArm, FrameType, Arms
  <2>2. Replace(h, g) /\ Only(h) /\ ctl'[h] = "list" /\ cur'[h] = cur[h] /\ failedVar'[h] = failedVar[h]
    BY <1>4, <1>5
  <2> HIDE DEF g, f
  <2>3. Standing("list", cur[h], <<g>> \o Tail(s), res[h], verdict[h], failedVar[h], t)
    <3> HIDE DEF s
    <3> QED BY <1>1, <1>2, <2>1, MovesIterate
  <2> QED BY <1>2, <2>1, <2>2, <2>3, Turns
<1>6. CASE /\ f.block \in Looped
           /\ \E w \in {"skipped", "error"} : Replace(h, [f EXCEPT !.left = @ - 1, !.over = @ \/ w = "error"])
           /\ UNCHANGED ctl
  <2>1. PICK w \in {"skipped", "error"} : Replace(h, [f EXCEPT !.left = @ - 1, !.over = @ \/ w = "error"])
    BY <1>6
  <2> DEFINE g == [f EXCEPT !.left = @ - 1, !.over = @ \/ w = "error"]
  <2>2. /\ g \in FrameType /\ g.block = f.block /\ g.coord = f.coord /\ g.arm = f.arm /\ g.next = f.next
        /\ g.failed = f.failed /\ g.alive = f.alive /\ g.saved = f.saved
    <3>1. (f.over \/ w = "error") \in BOOLEAN
      OBVIOUS
    <3> QED BY <1>2, <1>3, <3>1 DEF FrameType
  <2>3. ctl' = [ctl EXCEPT ![h] = "iterate"]
    BY <1>1, <1>6, Kept
  <2>4. Replace(h, g) /\ Only(h) /\ ctl'[h] = "iterate" /\ cur'[h] = cur[h] /\ failedVar'[h] = failedVar[h]
    BY <1>4, <2>1, <2>3
  <2>5. f.block \in Looped
    BY <1>6
  <2> HIDE DEF g, f
  <2>6. Standing("iterate", cur[h], <<g>> \o Tail(s), res[h], verdict[h], failedVar[h], t)
    <3> HIDE DEF s
    <3> QED BY <1>1, <1>2, <2>2, <2>5, MovesPast
  <2> QED BY <1>2, <2>2, <2>4, <2>6, Turns
<1>7. \/ /\ Replace(h, [StartArm(f, "tasks") EXCEPT !.left = @ - 1])
         /\ ctl' = [ctl EXCEPT ![h] = "list"]
      \/ /\ f.block \in Looped
         /\ \E w \in {"skipped", "error"} : Replace(h, [f EXCEPT !.left = @ - 1, !.over = @ \/ w = "error"])
         /\ UNCHANGED ctl
  BY DEF Iterate
<1> QED BY <1>5, <1>6, <1>7

\* A list that takes up the next of its tasks.
LEMMA Advances ==
  ASSUME NEW f \in FrameType, f.next <= Len(List(f)), Len(List(f)) \in Nat
  PROVE  /\ [f EXCEPT !.next = @ + 1] \in FrameType
         /\ [f EXCEPT !.next = @ + 1].block = f.block /\ [f EXCEPT !.next = @ + 1].coord = f.coord
         /\ [f EXCEPT !.next = @ + 1].arm = f.arm /\ [f EXCEPT !.next = @ + 1].next = f.next + 1
         /\ [f EXCEPT !.next = @ + 1].failed = f.failed /\ [f EXCEPT !.next = @ + 1].alive = f.alive
         /\ [f EXCEPT !.next = @ + 1].over = f.over /\ [f EXCEPT !.next = @ + 1].left = f.left
         /\ [f EXCEPT !.next = @ + 1].saved = f.saved
<1>1. f.next + 1 \in Nat
  BY DEF FrameType
<1> QED BY <1>1 DEF FrameType

\* A task of the list is passed, as a meta task or after a failure.
LEMMA Passes ==
  ASSUME NEW h \in Hosts, NEW t, Root(t), WalkTypeOK, Walker(h, t), ctl[h] \in {"list", "skip"},
         Top(h).next <= Len(List(Top(h))),
         ctl[h] = "list" => Kind[List(Top(h))[Top(h).next]] = "meta",
         Replace(h, [Top(h) EXCEPT !.next = @ + 1]),
         slot' = [slot EXCEPT ![h] = @ + SizeAt(stack[h], @)],
         UNCHANGED <<ctl, cur, res, cells, pending, failedVar, dead, verdict, taken>>
  PROVE  Moved(h, t)
<1> DEFINE f == Top(h)
           s == stack[h]
           g == [f EXCEPT !.next = @ + 1]
<1>1. /\ Standing(ctl[h], cur[h], s, res[h], verdict[h], failedVar[h], t)
      /\ s # <<>> /\ f = Head(s) /\ f \in FrameType /\ Len(List(f)) \in Nat
      /\ cur[h] \in Tasks \cup {NoTask} /\ failedVar[h] \in Tasks \cup {NoTask}
      /\ slot[h] \in Nat /\ DOMAIN cells \subseteq Tasks
  BY InBlock
<1>2. /\ g \in FrameType /\ g.block = f.block /\ g.coord = f.coord /\ g.arm = f.arm
      /\ g.next = f.next + 1 /\ g.failed = f.failed /\ g.alive = f.alive
      /\ g.over = f.over /\ g.left = f.left /\ g.saved = f.saved
  BY <1>1, Advances
<1>3. Only(h) /\ ctl'[h] = ctl[h] /\ cur'[h] = cur[h] /\ failedVar'[h] = failedVar[h]
  <2>1. slot'[h] = slot[h] + SizeAt(s, slot[h]) /\ slot[h] + SizeAt(s, slot[h]) \in Nat
    BY <1>1, SlotsCount DEF WalkTypeOK
  <2>2. ctl'[h] \in Walking
    BY DEF Walking
  <2> QED BY <1>1, <2>1, <2>2, Kept DEF Only
<1>4. Replace(h, g)
  OBVIOUS
<1>5. PICK c \in {"list", "skip"} : c = ctl[h]
  OBVIOUS
<1>6. c = "list" => Kind[List(f)[f.next]] = "meta"
  BY <1>5
<1> HIDE DEF g, f
<1>7. Standing(c, cur[h], <<g>> \o Tail(s), res[h], verdict[h], failedVar[h], t)
  <2>1. Standing(c, cur[h], s, res[h], verdict[h], failedVar[h], t)
    BY <1>1, <1>5
  <2>2. f.next <= Len(List(f))
    BY DEF f
  <2> HIDE DEF s
  <2> QED BY <1>1, <1>2, <1>6, <2>1, <2>2, MovesOn
<1> QED BY <1>1, <1>2, <1>3, <1>4, <1>5, <1>7, Turns

\* The next task of the list.
LEMMA Dispatches ==
  ASSUME NEW h \in Hosts, NEW t, Root(t), WalkTypeOK, Walker(h, t), NextInList(h)
  PROVE  Moved(h, t)
<1> DEFINE f == Top(h)
           s == stack[h]
           g == [f EXCEPT !.next = @ + 1]
           k == List(f)[f.next]
<1>1. /\ ctl[h] = "list" /\ f.next <= Len(List(f)) /\ Replace(h, g)
      /\ UNCHANGED <<res, cells, pending, failedVar, dead, verdict, taken>>
      /\ IF Kind[k] = "meta"
           THEN slot' = [slot EXCEPT ![h] = @ + SizeAt(stack[h], @)] /\ UNCHANGED <<ctl, cur>>
           ELSE ctl' = [ctl EXCEPT ![h] = "call"] /\ cur' = [cur EXCEPT ![h] = k] /\ UNCHANGED slot
  BY DEF NextInList
<1>2. CASE Kind[k] = "meta"
  BY <1>1, <1>2, Passes
<1>3. CASE Kind[k] # "meta"
  <2>1. /\ Standing("list", cur[h], s, res[h], verdict[h], failedVar[h], t)
        /\ s # <<>> /\ f = Head(s) /\ f \in FrameType /\ Len(List(f)) \in Nat
        /\ f.next \in 1 .. Len(List(f)) + 1
        /\ failedVar[h] \in Tasks \cup {NoTask} /\ slot[h] \in Nat
    BY <1>1, InBlock
  <2>2. /\ g \in FrameType /\ g.block = f.block /\ g.coord = f.coord /\ g.arm = f.arm
        /\ g.next = f.next + 1 /\ g.failed = f.failed /\ g.alive = f.alive
        /\ g.over = f.over /\ g.left = f.left /\ g.saved = f.saved
    BY <1>1, <2>1, Advances
  <2>3. k \in Tasks
    <3>1. f.next \in 1 .. Len(List(f))
      BY <1>1, <2>1
    <3>2. Head(s).next \in 1 .. Len(List(Head(s)))
      BY <2>1, <3>1
    <3>3. \A i \in 1 .. Len(List(Head(s))) : List(Head(s))[i] \in Tasks
      BY <2>1, AtTop
    <3>4. List(Head(s))[Head(s).next] \in Tasks
      BY <3>2, <3>3
    <3> QED BY <2>1, <3>4
  <2>4. Only(h) /\ ctl'[h] = "call" /\ cur'[h] = k /\ failedVar'[h] = failedVar[h]
    <3>1. ctl'[h] = "call" /\ "call" \in Walking /\ cur'[h] = k
      BY <1>1, <1>3 DEF WalkTypeOK, Walking
    <3> HIDE DEF f, s, g, k
    <3> QED BY <1>1, <1>3, <2>1, <2>3, <3>1, Kept DEF Only
  <2>5. Replace(h, g)
    BY <1>1
  <2> HIDE DEF g
  <2>6. Standing("call", k, <<g>> \o Tail(s), res[h], verdict[h], failedVar[h], t)
    <3>1. Standing("call", List(Head(s))[Head(s).next], <<g>> \o Tail(s), res[h], verdict[h], failedVar[h], t)
      <4> HIDE DEF f, s
      <4> QED BY <1>1, <2>1, <2>2, MovesInto
    <3> QED BY <2>1, <3>1
  <2> HIDE DEF k
  <2> QED BY <2>1, <2>2, <2>4, <2>5, <2>6, Turns
<1> QED BY <1>2, <1>3

\* The end of the list.
LEMMA Stops ==
  ASSUME NEW h \in Hosts, NEW t, Root(t), WalkTypeOK, Walker(h, t), EndOfList(h)
  PROVE  Moved(h, t)
<1>1. /\ ctl[h] \in {"list", "skip"} /\ Top(h).next > Len(List(Top(h)))
      /\ ctl' = [ctl EXCEPT ![h] = "armDone"]
      /\ UNCHANGED <<cur, stack, slot, res, cells, pending, failedVar, dead, verdict, taken>>
  BY DEF EndOfList
<1>2. /\ Standing(ctl[h], cur[h], stack[h], res[h], verdict[h], failedVar[h], t)
      /\ stack[h] # <<>> /\ stack[h] \in Seq(FrameType) /\ Top(h) = Head(stack[h])
      /\ cur[h] \in Tasks \cup {NoTask} /\ failedVar[h] \in Tasks \cup {NoTask} /\ slot[h] \in Nat
  BY <1>1, InBlock
<1>3. PICK c \in {"list", "skip"} : c = ctl[h]
  BY <1>1
<1>4. Standing("armDone", cur[h], stack[h], res[h], verdict[h], failedVar[h], t)
  <2>1. Standing(c, cur[h], stack[h], res[h], verdict[h], failedVar[h], t)
    BY <1>2, <1>3
  <2>2. Head(stack[h]).next > Len(List(Head(stack[h])))
    BY <1>1, <1>2
  <2> QED BY <1>2, <2>1, <2>2, MovesToEnd
<1>5. Only(h) /\ ctl'[h] = "armDone" /\ cur'[h] = cur[h] /\ failedVar'[h] = failedVar[h]
  <2>1. ctl'[h] = "armDone" /\ "armDone" \in Walking
    BY <1>1 DEF WalkTypeOK, Walking
  <2> QED BY <1>1, <1>2, <2>1, Kept DEF Only
<1>6. stack' = [stack EXCEPT ![h] = stack[h]]
  BY <1>1, Kept
<1>7. Standing(ctl'[h], cur'[h], stack[h], res[h], verdict[h], failedVar'[h], t)
  BY <1>4, <1>5
<1> QED BY <1>2, <1>5, <1>6, <1>7, Shifts

\* A child returns.
LEMMA Resumes ==
  ASSUME NEW h \in Hosts, NEW t, Root(t), WalkTypeOK, Walker(h, t), ChildReturns(h)
  PROVE  Moved(h, t)
<1> DEFINE f == Top(h)
           s == stack[h]
           r == res[h]
           k == cur[h]
           broke == r.out = "failed" \/ ~(f.listAlive /\ r.alive)
           g == [f EXCEPT !.listAlive = @ /\ r.alive, !.alive = @ /\ r.alive,
                          !.failed = IF r.out = "failed" THEN k ELSE @]
           d == IF broke THEN "skip" ELSE "list"
<1>1. /\ ctl[h] = "return" /\ s # <<>> /\ Replace(h, g) /\ ctl' = [ctl EXCEPT ![h] = d]
      /\ UNCHANGED <<cur, slot, res, cells, pending, failedVar, dead, verdict, taken>>
  BY DEF ChildReturns
<1>2. /\ Standing("return", k, s, r, verdict[h], failedVar[h], t)
      /\ f = Head(s) /\ f \in FrameType
      /\ k \in Tasks \cup {NoTask} /\ failedVar[h] \in Tasks \cup {NoTask} /\ slot[h] \in Nat
  BY <1>1, InBlock
<1>3. k \in Tasks
  <2>1. "return" \in {"call", "return"}
    OBVIOUS
  <2> QED BY <1>2, <2>1, AtTask
<1>4. r.alive \in BOOLEAN
  BY DEF WalkTypeOK
<1>5. /\ g \in FrameType /\ g.block = f.block /\ g.coord = f.coord /\ g.arm = f.arm
      /\ g.next = f.next /\ g.failed = (IF r.out = "failed" THEN k ELSE f.failed)
      /\ g.alive = (f.alive /\ r.alive)
      /\ g.over = f.over /\ g.left = f.left /\ g.saved = f.saved
  <2>1. (f.listAlive /\ r.alive) \in BOOLEAN /\ (f.alive /\ r.alive) \in BOOLEAN
    OBVIOUS
  <2>2. (IF r.out = "failed" THEN k ELSE f.failed) \in Tasks \cup {NoTask}
    BY <1>2, <1>3 DEF FrameType
  <2>3. PICK la \in BOOLEAN, al \in BOOLEAN, fl \in Tasks \cup {NoTask} :
          /\ la = (f.listAlive /\ r.alive) /\ al = (f.alive /\ r.alive)
          /\ fl = (IF r.out = "failed" THEN k ELSE f.failed)
    BY <2>1, <2>2
  <2>4. g = [f EXCEPT !.listAlive = la, !.alive = al, !.failed = fl]
    BY <2>3
  <2> HIDE DEF g
  <2>5. /\ g \in FrameType /\ g.block = f.block /\ g.coord = f.coord /\ g.arm = f.arm
        /\ g.next = f.next /\ g.failed = fl /\ g.alive = al
        /\ g.over = f.over /\ g.left = f.left /\ g.saved = f.saved
    BY <1>2, <2>4 DEF FrameType
  <2> QED BY <2>3, <2>5
<1>6. d \in {"list", "skip"} /\ (d = "list" => r.out # "failed")
  OBVIOUS
<1>7. Replace(h, g)
  BY <1>1
<1> HIDE DEF d, g
<1>8. Only(h) /\ ctl'[h] = d /\ cur'[h] = k /\ failedVar'[h] = failedVar[h]
  <2>1. ctl'[h] = d /\ d \in Walking
    BY <1>1, <1>6 DEF WalkTypeOK, Walking
  <2> QED BY <1>1, <1>2, <2>1, Kept DEF Only
<1>9. Standing(d, k, <<g>> \o Tail(s), r, verdict[h], failedVar[h], t)
  <2> HIDE DEF f, s, k, r
  <2> QED BY <1>1, <1>2, <1>3, <1>5, <1>6, MovesBack
<1> QED BY <1>1, <1>5, <1>7, <1>8, <1>9, Turns

\* From arm to arm.
LEMMA Rescues ==
  ASSUME NEW h \in Hosts, NEW t, Root(t), WalkTypeOK, Walker(h, t), BeginRescue(h)
  PROVE  Moved(h, t)
<1> DEFINE f == Top(h)
           s == stack[h]
           g == [StartArm(f, "rescue") EXCEPT !.saved = failedVar[h]]
<1>1. /\ ctl[h] = "armDone" /\ NeedsRescue(f) /\ Replace(h, g)
      /\ failedVar' = [failedVar EXCEPT ![h] = f.failed] /\ ctl' = [ctl EXCEPT ![h] = "list"]
      /\ UNCHANGED <<cur, slot, res, cells, pending, dead, verdict, taken>>
  BY DEF BeginRescue
<1>2. /\ Standing("armDone", cur[h], s, res[h], verdict[h], failedVar[h], t)
      /\ s # <<>> /\ f = Head(s) /\ f \in FrameType
      /\ cur[h] \in Tasks \cup {NoTask} /\ failedVar[h] \in Tasks \cup {NoTask} /\ slot[h] \in Nat
  BY <1>1, InBlock
<1>3. /\ g \in FrameType /\ g.block = f.block /\ g.coord = f.coord /\ g.arm = "rescue" /\ g.next = 1
      /\ g.failed = NoTask /\ g.alive = f.alive /\ g.over = f.over /\ g.left = f.left
      /\ g.saved = failedVar[h]
  BY <1>2 DEF StartArm, FrameType, Arms
<1>4. f.failed \in Tasks \cup {NoTask}
  BY <1>2 DEF FrameType
<1> HIDE DEF g
<1>5. Only(h) /\ ctl'[h] = "list" /\ cur'[h] = cur[h] /\ failedVar'[h] = f.failed
  <2>1. ctl'[h] = "list" /\ failedVar'[h] = f.failed /\ "list" \in Walking
    BY <1>1 DEF WalkTypeOK, Walking
  <2> HIDE DEF f
  <2> QED BY <1>1, <1>2, <1>4, <2>1, Kept DEF Only
<1>6. Standing("list", cur[h], <<g>> \o Tail(s), res[h], verdict[h], f.failed, t)
  <2>1. Standing("list", cur[h], <<g>> \o Tail(s), res[h], verdict[h], Head(s).failed, t)
    <3> HIDE DEF f, s
    <3> QED BY <1>1, <1>2, <1>3, MovesToRescue
  <2> QED BY <1>2, <2>1
<1> QED BY <1>1, <1>2, <1>3, <1>5, <1>6, Turns

\* What settling an arm leaves of a frame.
LEMMA Settled ==
  ASSUME NEW f \in FrameType, NEW a \in Arms
  PROVE  /\ StartArm(Settle(f), a) \in FrameType
         /\ StartArm(Settle(f), a).block = f.block /\ StartArm(Settle(f), a).coord = f.coord
         /\ StartArm(Settle(f), a).arm = a /\ StartArm(Settle(f), a).next = 1
         /\ StartArm(Settle(f), a).failed = NoTask /\ StartArm(Settle(f), a).alive = f.alive
         /\ StartArm(Settle(f), a).over = (f.over \/ f.failed # NoTask)
         /\ StartArm(Settle(f), a).left = f.left
<1>1. (f.over \/ f.failed # NoTask) \in BOOLEAN
  OBVIOUS
<1>2. /\ Settle(f) \in FrameType /\ Settle(f).block = f.block /\ Settle(f).coord = f.coord
      /\ Settle(f).alive = f.alive /\ Settle(f).over = (f.over \/ f.failed # NoTask)
      /\ Settle(f).left = f.left
  BY <1>1 DEF Settle, FrameType
<1> QED BY <1>2, Started

\* The variable a block leaves its rescue arm with.
LEMMA Restores ==
  ASSUME NEW h \in Hosts, WalkTypeOK, stack[h] # <<>>, RestoreFailedVar(h)
  PROVE  /\ failedVar'[h] = Outer(stack[h], failedVar[h]) /\ failedVar'[h] \in Tasks \cup {NoTask}
         /\ failedVar' = [failedVar EXCEPT ![h] = failedVar'[h]]
<1>1. stack[h] \in Seq(FrameType) /\ failedVar \in [Hosts -> Tasks \cup {NoTask}]
  BY DEF WalkTypeOK
<1>2. Top(h) = Head(stack[h]) /\ Top(h) \in FrameType
  BY <1>1, OffTop DEF Top
<1>3. Top(h).saved \in Tasks \cup {NoTask}
  BY <1>2 DEF FrameType
<1>4. CASE Top(h).arm = "rescue"
  BY <1>1, <1>2, <1>3, <1>4 DEF RestoreFailedVar, Outer
<1>5. CASE Top(h).arm # "rescue"
  BY <1>1, <1>2, <1>5 DEF RestoreFailedVar, Outer
<1> QED BY <1>4, <1>5

\* The always arm begins, or the iteration ends.
LEMMA Settles ==
  ASSUME NEW h \in Hosts, NEW t, Root(t), WalkTypeOK, Walker(h, t), BeginAlways(h) \/ EndIteration(h)
  PROVE  Moved(h, t)
<1> DEFINE f == Top(h)
           s == stack[h]
           x == failedVar[h]
<1>1. /\ ctl[h] = "armDone" /\ ~NeedsRescue(f) /\ RestoreFailedVar(h)
      /\ UNCHANGED <<cur, slot, res, cells, pending, dead, verdict, taken>>
  BY DEF BeginAlways, EndIteration
<1>2. /\ Standing("armDone", cur[h], s, res[h], verdict[h], x, t)
      /\ s # <<>> /\ f = Head(s) /\ f \in FrameType
      /\ cur[h] \in Tasks \cup {NoTask} /\ slot[h] \in Nat
  BY <1>1, InBlock
<1>3. PICK a \in Arms, d \in {"list", "iterate"} :
        /\ Replace(h, StartArm(Settle(f), a)) /\ ctl' = [ctl EXCEPT ![h] = d]
        /\ \/ d = "list" /\ a = "always" /\ f.arm # "always"
           \/ d = "iterate" /\ a = "tasks" /\ (f.arm = "always" \/ Arm[f.block].always = <<>>)
  <2>1. "always" \in Arms /\ "tasks" \in Arms
    BY DEF Arms
  <2> QED BY <2>1 DEF BeginAlways, EndIteration
<1> DEFINE g == StartArm(Settle(f), a)
<1>4. /\ g \in FrameType /\ g.block = f.block /\ g.coord = f.coord /\ g.arm = a /\ g.next = 1
      /\ g.failed = NoTask /\ g.alive = f.alive /\ g.over = (f.over \/ f.failed # NoTask)
      /\ g.left = f.left
  BY <1>2, Settled
<1>5. Replace(h, g)
  BY <1>3
<1> HIDE DEF g
<1>6. Only(h) /\ ctl'[h] = d /\ cur'[h] = cur[h] /\ failedVar'[h] = Outer(s, x)
  <2>1. ctl'[h] = d /\ d \in Walking
    BY <1>3 DEF WalkTypeOK, Walking
  <2>2. /\ failedVar'[h] = Outer(s, x) /\ failedVar'[h] \in Tasks \cup {NoTask}
        /\ failedVar' = [failedVar EXCEPT ![h] = failedVar'[h]]
    BY <1>1, <1>2, Restores
  <2>3. cur' = [cur EXCEPT ![h] = cur'[h]] /\ slot' = [slot EXCEPT ![h] = slot'[h]]
    BY <1>1, Kept
  <2>4. ctl' = [ctl EXCEPT ![h] = ctl'[h]]
    BY <1>3, <2>1
  <2> QED BY <1>1, <1>2, <2>1, <2>2, <2>3, <2>4 DEF Only
<1>7. Standing(d, cur[h], <<g>> \o Tail(s), res[h], verdict[h], Outer(s, x), t)
  <2> HIDE DEF f, s, x
  <2>1. CASE d = "list"
    <3>1. Standing("list", cur[h], <<g>> \o Tail(s), res[h], verdict[h], Outer(s, x), t)
      <4>1. a = "always" /\ f.arm # "always"
        BY <1>3, <2>1
      <4> QED BY <1>1, <1>2, <1>4, <4>1, MovesToAlways
    <3> QED BY <2>1, <3>1
  <2>2. CASE d = "iterate"
    <3>1. Standing("iterate", cur[h], <<g>> \o Tail(s), res[h], verdict[h], Outer(s, x), t)
      <4>1. a = "tasks" /\ (f.arm = "always" \/ Arm[f.block].always = <<>>)
        BY <1>3, <2>2
      <4> QED BY <1>1, <1>2, <1>4, <4>1, MovesAround
    <3> QED BY <2>2, <3>1
  <2> QED BY <2>1, <2>2
<1> QED BY <1>2, <1>4, <1>5, <1>6, <1>7, Turns

\* The block returns.
LEMMA Leaves ==
  ASSUME NEW h \in Hosts, NEW t, Root(t), WalkTypeOK, Walker(h, t), LeaveBlock(h)
  PROVE  Moved(h, t)
<1> DEFINE f == Top(h)
           s == stack[h]
           b == f.block
           v == verdict[h]
           w == verdict'[h]
           out == IF f.over /\ b \notin Ignore THEN "failed" ELSE "ok"
           r == [out |-> out, changed |-> FALSE, alive |-> f.alive]
<1>1. /\ ctl[h] = "iterate" /\ (f.left = 0 \/ ~f.alive)
      /\ ctl' = [ctl EXCEPT ![h] = "return"] /\ cur' = [cur EXCEPT ![h] = b]
      /\ res' = [res EXCEPT ![h] = r] /\ verdict' = [verdict EXCEPT ![h][b] = out]
      /\ stack' = [stack EXCEPT ![h] = Tail(@)]
      /\ slot' = [slot EXCEPT ![h] = Compensated(Tail(stack[h]), f.entry, @)]
      /\ UNCHANGED <<cells, pending, failedVar, dead, taken>>
  BY DEF LeaveBlock
<1>2. /\ Standing("iterate", cur[h], s, res[h], v, failedVar[h], t)
      /\ s # <<>> /\ s \in Seq(FrameType) /\ Tail(s) \in Seq(FrameType)
      /\ f = Head(s) /\ f \in FrameType /\ slot[h] \in Nat /\ DOMAIN cells \subseteq Tasks
  BY <1>1, InBlock
<1>3. b \in Tasks /\ f.entry \in Nat /\ f.alive \in BOOLEAN
  BY <1>2 DEF FrameType
<1>4. /\ out \in {"ok", "failed"} /\ r.out = out /\ r.alive = f.alive /\ Verdict(r) = out
      /\ out \in Endings /\ out # "none"
  BY DEF Verdict, Endings
<1>5. r \in [out : {"none", "ok", "skipped", "failed"}, changed : BOOLEAN, alive : BOOLEAN]
  BY <1>3
<1> HIDE DEF out, r
<1>6. /\ w[b] = Verdict(r) /\ \A u \in Tasks : u # b => w[u] = v[u]
      /\ ctl'[h] = "return" /\ cur'[h] = b /\ res'[h] = r /\ stack'[h] = Tail(s)
      /\ failedVar'[h] = failedVar[h]
  BY <1>1, <1>3, <1>4 DEF WalkTypeOK
<1>7. Standing("return", b, Tail(s), r, w, failedVar[h], t)
  <2>1. r.out = (IF Head(s).over /\ Head(s).block \notin Ignore THEN "failed" ELSE "ok")
    BY <1>2, <1>4 DEF out
  <2>2. b = Head(s).block /\ r.alive = Head(s).alive /\ (Head(s).left = 0 \/ ~Head(s).alive)
    BY <1>1, <1>2, <1>4
  <2> HIDE DEF f, s, v, w, b
  <2> QED BY <1>2, <1>6, <2>1, <2>2, StandsOutside DEF b
<1>8. Walker(h, t)'
  BY <1>6, <1>7 DEF Walker
<1>9. slot' \in [Hosts -> Nat]
  <2>1. Compensated(Tail(s), f.entry, slot[h]) \in Nat
    BY <1>2, <1>3, SlotsCount
  <2> QED BY <1>1, <2>1 DEF WalkTypeOK
<1>10. WalkTypeOK'
  <2>1. /\ ctl' \in [Hosts -> {"idle", "call", "iterate", "list", "skip", "armDone",
                        "return", "flush", "handler", "done"}]
        /\ cur' \in [Hosts -> Tasks \cup {NoTask}] /\ stack' \in [Hosts -> Seq(FrameType)]
    BY <1>1, <1>2, <1>3 DEF WalkTypeOK
  <2>2. /\ res' \in [Hosts -> [out : {"none", "ok", "skipped", "failed"}, changed : BOOLEAN, alive : BOOLEAN]]
        /\ verdict' \in [Hosts -> [Tasks -> {"none", "ok", "changed", "skipped", "failed"}]]
    BY <1>1, <1>3, <1>4, <1>5 DEF WalkTypeOK
  <2> QED BY <1>1, <1>9, <2>1, <2>2 DEF WalkTypeOK
<1>11. Apart(h)
  BY <1>1 DEF Apart, WalkTypeOK
<1>12. b \in Subtree(t) /\ (Unlooped(b) => v[b] = "none")
  <2>1. t \in Tasks /\ Nest(s, t) /\ Control("iterate", cur[h], s, res[h], v, t)
        /\ Meaning("iterate", cur[h], s, res[h], v) /\ Rooted("iterate", s, v, t)
    BY <1>2 DEF Standing, Control, Root
  <2>2. Head(s) = s[1] /\ Len(s) \in Nat \ {0}
    BY <1>2, OffTop
  <2>3. b \in Subtree(t)
    BY <1>2, <2>1, <2>2 DEF Nest
  <2>4. v[t] = "none"
    BY <1>2, <2>1 DEF Rooted
  <2>5. CASE Len(s) = 1
    <3>1. b = t
      BY <1>2, <2>1, <2>2, <2>5 DEF Nest
    <3> QED BY <2>3, <2>4, <3>1
  <2>6. CASE Len(s) # 1
    <3>1. 2 \in 1 .. Len(s) /\ 1 < Len(s) /\ 1 \in 1 .. Len(s)
      <4>1. \A n \in Nat \ {0} : n # 1 => 2 \in 1 .. n /\ 1 < n /\ 1 \in 1 .. n
        OBVIOUS
      <4> QED BY <2>2, <2>6, <4>1
    <3>2. b = TaskOf(s[2])
      BY <1>2, <2>1, <2>2, <3>1 DEF Nest
    <3>3. ASSUME Unlooped(b)
          PROVE  v[b] = "none"
      <4>1. b \in Subtree(Head(s).block)
        BY <1>2, <1>3, Numbers DEF Subtree
      <4>2. s[1].coord
        BY <1>2, <2>1, <2>2, <3>3, <4>1, OpenShared
      <4>3. s[2].coord
        BY <2>1, <3>1, <4>2 DEF Nest
      <4> QED BY <2>1, <3>1, <3>2, <4>3 DEF Meaning
    <3> QED BY <2>3, <3>3
  <2> QED BY <2>5, <2>6
<1>13. Wrote(h, t)
  BY <1>4, <1>6, <1>12 DEF Wrote
<1>14. Told(h)
  BY <1>1 DEF Told
<1>15. ctl'[h] \in Walking /\ dead' = dead
  BY <1>1, <1>6 DEF Walking
<1> QED BY <1>8, <1>10, <1>11, <1>13, <1>14, <1>15 DEF Moved

-----------------------------------------------------------------------------
(* What every walker does *)

\* A step of the walker sent into `t` leaves it a walker sent into `t`.
LEMMA WalkerSteps ==
  ASSUME NEW h \in Hosts, NEW t, Root(t), WalkTypeOK, Walker(h, t), NEW runner, WalkStep(h, runner)
  PROVE  Moved(h, t)
<1>1. CASE RunLeaf(h) \/ RunOnceRunner(h) \/ RunOnceOther(h) \/ SkipBlock(h)
  BY <1>1, Returns
<1>4. CASE EnterBlock(h)
  BY <1>4, Enters
<1>5. CASE Iterate(h)
  BY <1>5, Iterates
<1>6. CASE NextInList(h)
  BY <1>6, Dispatches
<1>7. CASE ChildReturns(h)
  BY <1>7, Resumes
<1>8. CASE SkipNext(h)
  <2>1. /\ ctl[h] \in {"list", "skip"} /\ ctl[h] # "list" /\ Top(h).next <= Len(List(Top(h)))
        /\ Replace(h, [Top(h) EXCEPT !.next = @ + 1])
        /\ slot' = [slot EXCEPT ![h] = @ + SizeAt(stack[h], @)]
        /\ UNCHANGED <<ctl, cur, res, cells, pending, failedVar, dead, verdict, taken>>
    BY <1>8 DEF SkipNext
  <2> QED BY <2>1, Passes
<1>9. CASE EndOfList(h)
  BY <1>9, Stops
<1>10. CASE BeginRescue(h)
  BY <1>10, Rescues
<1>11. CASE BeginAlways(h) \/ EndIteration(h)
  BY <1>11, Settles
<1>12. CASE LeaveBlock(h)
  BY <1>12, Leaves
<1> QED BY <1>1, <1>4, <1>5, <1>6, <1>7, <1>8, <1>9, <1>10, <1>11, <1>12 DEF WalkStep, BlockStep

-----------------------------------------------------------------------------
(* For the strategies *)

\* A walker as it is sent into a task that is new to its host.
LEMMA Sent ==
  ASSUME NEW t, Root(t), NEW v, Fresh(v, t), \A b \in OpenBlocks : Disciplined(v, b), NEW r
  PROVE  Standing("call", t, <<>>, r, v, NoTask, t)
<1>1. t \in Tasks /\ t \in Subtree(t) /\ v[t] = "none"
  <2>1. t \in Tasks /\ t \in Subtree(t)
    BY Numbers DEF Root, Subtree
  <2> QED BY <2>1 DEF Fresh
<1>2. Len(<<>>) = 0 /\ \A n : n \in 1 .. 0 => FALSE
  OBVIOUS
<1>3. Control("call", t, <<>>, r, v, t)
  BY NestNone DEF Control, Walking
<1>4. Meaning("call", t, <<>>, r, v)
  BY <1>2 DEF Meaning
<1>5. Scoped(<<>>, v, NoTask)
  <2>1. \A i \in 1 .. Len(<<>>) : FALSE
    BY <1>2
  <2> QED BY <2>1 DEF Scoped, Blames
<1>6. Owned("call", <<>>, r, v) /\ Rooted("call", <<>>, v, t)
  BY <1>1, <1>2 DEF Owned, Rooted
<1> QED BY <1>3, <1>4, <1>5, <1>6 DEF Standing

\* A walker that is back.
LEMMA Returned ==
  ASSUME NEW h \in Hosts, NEW t, Root(t), Walker(h, t), ctl[h] = "return", stack[h] = <<>>
  PROVE  /\ cur[h] = t /\ verdict[h][t] = Verdict(res[h]) /\ verdict[h][t] \in Endings
         /\ verdict[h][t] = "failed" <=> res[h].out = "failed"
         /\ res[h].alive \/ res[h].out = "failed" \/ Excused(verdict[h])
         /\ failedVar[h] = NoTask
         /\ \A b \in OpenBlocks : Disciplined(verdict[h], b)
<1> DEFINE v == verdict[h]
           x == failedVar[h]
<1>1. Standing("return", cur[h], <<>>, res[h], v, x, t)
  BY DEF Walker
<1> HIDE DEF v, x
<1>2. cur[h] = t /\ res[h].out \in Outs /\ v[cur[h]] = Verdict(res[h])
  BY <1>1 DEF Standing, Control
<1>3. Verdict(res[h]) \in Endings /\ (Verdict(res[h]) = "failed" <=> res[h].out = "failed")
  BY <1>2, EndingOf
<1>4. res[h].alive \/ res[h].out = "failed" \/ Excused(v)
  BY <1>1 DEF Standing, Owned
<1>5. \A b \in OpenBlocks : Disciplined(v, b)
  BY <1>1 DEF Standing, Meaning
<1>6. x = NoTask
  <2>1. \A i \in 1 .. Len(<<>>) : <<>>[i].arm # "rescue"
    OBVIOUS
  <2>2. Blames(<<>>, 1, v, x)
    BY <1>1 DEF Standing, Scoped
  <2> QED BY <2>1, <2>2 DEF Blames
<1> QED BY <1>2, <1>3, <1>4, <1>5, <1>6 DEF v, x

\* A walker that has begun and is not back has the task it was sent into before it.
LEMMA Under ==
  ASSUME NEW h \in Hosts, NEW t, Root(t), Walker(h, t)
  PROVE  /\ ctl[h] \in Walking /\ (verdict[h][t] # "none" => ctl[h] = "return" /\ stack[h] = <<>>)
         /\ \A b \in OpenBlocks : Disciplined(verdict[h], b)
BY DEF Walker, Standing, Control, Rooted, Meaning

\* A host in no block.
Outside(h) ==
  /\ ctl[h] = "return" => Kind[cur[h]] # "block"
  /\ stack[h] = <<>> /\ failedVar[h] = NoTask
  /\ \A b \in OpenBlocks : Disciplined(verdict[h], b)

\* What a step writes takes no cause away, nor an excuse.
LEMMA Lasting ==
  ASSUME NEW h \in Hosts, NEW t, Wrote(h, t), Told(h), Traced(h)
  PROVE  /\ Traced(h)' /\ \A u \in Tasks : Cause(h, u) => Cause(h, u)'
         /\ Excused(verdict[h]) => Excused(verdict'[h])
<1>1. \A u \in Tasks : verdict[h][u] # "none" => verdict'[h][u] # "none"
  BY DEF Wrote, Endings
<1>2. Traced(h)'
  BY <1>1 DEF Traced, Told
<1>3. ASSUME NEW u \in Tasks, Cause(h, u)
      PROVE  Cause(h, u)'
  <2>1. CASE verdict[h][u] = "changed"
    <3>1. verdict'[h][u] = verdict[h][u] \/ ~Unlooped(u)
      BY <2>1 DEF Wrote
    <3> QED BY <2>1, <3>1 DEF Cause
  <2>2. CASE ~Unlooped(u)
    BY <2>2 DEF Cause
  <2>3. CASE taken[h][u] # NoCell /\ Untold(taken[h][u].task)
    <3>1. taken'[h][u] = taken[h][u]
      BY <2>3 DEF Told, Traced
    <3> QED BY <2>3, <3>1 DEF Cause
  <2>4. CASE u \in Composite /\ verdict[h][u] # "none"
    BY <1>1, <2>4 DEF Cause
  <2> QED BY <1>3, <2>1, <2>2, <2>3, <2>4 DEF Cause
<1>4. Excused(verdict[h]) => Excused(verdict'[h])
  BY <1>1 DEF Excused
<1> QED BY <1>2, <1>3, <1>4

\* With every host in no block or under way, blocks mean what they say.
LEMMA MeansBlocks ==
  ASSUME \A h \in Hosts : Outside(h) \/ \E t \in Tasks : Root(t) /\ Walker(h, t)
  PROVE  BlocksMeant
<1>1. ASSUME NEW h \in Hosts
      PROVE  \A b \in OpenBlocks : Disciplined(verdict[h], b)
    BY <1>1, Under DEF Outside
<1>2. ASSUME NEW h \in Hosts, NEW b \in OpenBlocks, ctl[h] = "return", cur[h] = b
      PROVE  Meant(verdict[h], b, res[h])
  <2>1. Kind[b] = "block"
    BY DEF OpenBlocks
  <2>2. PICK t \in Tasks : Root(t) /\ Walker(h, t)
    BY <1>2, <2>1 DEF Outside
  <2>3. Standing("return", b, stack[h], res[h], verdict[h], failedVar[h], t)
    BY <1>2, <2>2 DEF Walker
  <2> QED BY <2>3 DEF Standing, Meaning
<1>3. ASSUME NEW h \in Hosts, NEW b \in Tasks
      PROVE  /\ BlockFails(h, b) <=> Lost(verdict[h], b) \/ Fails(verdict[h], Arm[b].always)
             /\ \A c \in Range(Arm[b].tasks) : c \in Range(Children(b))
             /\ ArmFails(h, Arm[b].tasks) <=> Fails(verdict[h], Arm[b].tasks)
  BY ChildrenOf DEF BlockFails, ArmFails, Lost, Fails
<1>4. BlockOutcome
  BY <1>2, <1>3 DEF BlockOutcome, OpenBlocks, Meant
<1>5. ArmDiscipline
  <2>1. SUFFICES ASSUME NEW h \in Hosts, NEW b \in {t \in Tasks : Kind[t] = "block" /\ Unlooped(t)}
                 PROVE  /\ (\E c \in Range(Arm[b].rescue) : verdict[h][c] # "none") => ArmFails(h, Arm[b].tasks)
                        /\ (ctl[h] = "return" /\ cur[h] = b /\ Arm[b].always # <<>>
                              /\ Kind[Arm[b].always[1]] # "meta" /\ \E c \in Range(Arm[b].tasks) : verdict[h][c] # "none")
                           => verdict[h][Arm[b].always[1]] # "none"
    BY DEF ArmDiscipline
  <2>2. b \in OpenBlocks /\ b \in Tasks
    BY DEF OpenBlocks
  <2>3. Disciplined(verdict[h], b)
    BY <1>1, <2>2
  <2>4. ASSUME ctl[h] = "return", cur[h] = b, Arm[b].always # <<>>, Kind[Arm[b].always[1]] # "meta",
               NEW c \in Range(Arm[b].tasks), verdict[h][c] # "none"
        PROVE  verdict[h][Arm[b].always[1]] # "none"
    <3>1. Meant(verdict[h], b, res[h]) /\ c \in Range(Children(b))
      BY <1>2, <1>3, <2>2, <2>4
    <3>2. Tried(verdict[h], b)
      BY <2>4, <3>1 DEF Meant
    <3> QED BY <2>4, <3>2 DEF Tried
  <2> QED BY <1>3, <2>2, <2>3, <2>4 DEF Disciplined
<1>6. FailedVarScoped
  <2>1. SUFFICES ASSUME NEW h \in Hosts
                 PROVE  /\ (\A i \in DOMAIN stack[h] : stack[h][i].arm # "rescue") => failedVar[h] = NoTask
                        /\ \A i \in DOMAIN stack[h] : Innermost(stack[h], i) =>
                             /\ failedVar[h] \in Range(Arm[stack[h][i].block].tasks)
                             /\ verdict[h][failedVar[h]] = "failed"
    BY DEF FailedVarScoped
  <2>2. CASE Outside(h)
    <3>1. stack[h] = <<>> /\ failedVar[h] = NoTask /\ \A i \in DOMAIN <<>> : FALSE
      BY <2>2 DEF Outside
    <3> QED BY <3>1
  <2>3. CASE ~Outside(h)
    <3>1. PICK t \in Tasks : Walker(h, t)
      BY <2>3
    <3> DEFINE s == stack[h]
               w == verdict[h]
               x == failedVar[h]
    <3>2. Standing(ctl[h], cur[h], s, res[h], w, x, t)
      BY <3>1 DEF Walker
    <3> HIDE DEF s, w, x
    <3>3. s \in Seq(FrameType) /\ Blames(s, 1, w, x)
      BY <3>2 DEF Standing, Control, Nest, Scoped
    <3>4. DOMAIN s = 1 .. Len(s)
      BY <3>3, LenProperties
    <3>5. /\ (\A i \in DOMAIN s : s[i].arm # "rescue") => x = NoTask
          /\ \A i \in DOMAIN s : Innermost(s, i) =>
               /\ x \in Range(Arm[s[i].block].tasks) /\ w[x] = "failed"
      BY <3>3, <3>4 DEF Blames, Innermost
    <3> QED BY <3>5 DEF s, w, x
  <2> QED BY <2>2, <2>3
<1> QED BY <1>4, <1>5, <1>6 DEF BlocksMeant

\* A host that runs a leaf it may have run before, as handlers are.
Visiting(h, n) ==
  /\ ctl[h] \in {"call", "return"} /\ cur[h] = n /\ stack[h] = <<>>
  /\ ctl[h] = "return" => /\ res[h].out \in Outs /\ verdict[h][n] = Verdict(res[h])
                          /\ res[h].alive \/ res[h].out = "failed" \/ Excused(verdict[h])

\* It has one step to take.
LEMMA Visits ==
  ASSUME NEW h \in Hosts, NEW n \in Tasks, Kind[n] = "leaf", WalkTypeOK, Visiting(h, n),
         NEW runner, WalkStep(h, runner)
  PROVE  /\ WalkTypeOK' /\ Apart(h) /\ dead' = dead /\ Visiting(h, n)' /\ ctl'[h] = "return"
         /\ failedVar'[h] = failedVar[h] /\ verdict'[h][n] \in Endings
         /\ \A u \in Tasks : u # n => verdict'[h][u] = verdict[h][u] /\ taken'[h][u] = taken[h][u]
         /\ pending[h] \subseteq pending'[h] /\ pending'[h] \ pending[h] \subseteq Notify[n]
<1>1. RunLeaf(h) \/ RunOnceRunner(h) \/ RunOnceOther(h)
  BY DEF Visiting, WalkStep, BlockStep, SkipBlock, EnterBlock, Iterate, NextInList, EndOfList,
     ChildReturns, SkipNext, BeginRescue, BeginAlways, EndIteration, LeaveBlock
<1>2. cur[h] = n /\ cur[h] \in Tasks
  BY DEF Visiting
<1>3. PICK r \in Results : EndsWith(h, r)
  BY <1>1, <1>2, RunsToEnd, TakesToEnd
<1>4. /\ WalkTypeOK' /\ Apart(h) /\ dead' = dead
      /\ r.out \in Outs /\ Verdict(r) \in Endings /\ Verdict(r) # "none"
      /\ ctl'[h] = "return" /\ res'[h] = r /\ cur'[h] = n /\ stack'[h] = stack[h]
      /\ failedVar'[h] = failedVar[h] /\ verdict'[h][n] = Verdict(r)
      /\ \A u \in Tasks : u # n => verdict'[h][u] = verdict[h][u] /\ taken'[h][u] = taken[h][u]
      /\ pending[h] \subseteq pending'[h] /\ pending'[h] \ pending[h] \subseteq Notify[n]
  BY <1>2, <1>3, Ended
<1>5. res'[h].alive \/ res'[h].out = "failed" \/ Excused(verdict'[h])
  <2>1. r.alive \/ r.out = "failed" \/ Excusable(n)
    BY <1>2, <1>3 DEF EndsWith
  <2>2. Excusable(n) => Excused(verdict'[h])
    BY <1>4 DEF Excused
  <2> QED BY <1>4, <2>1, <2>2
<1>6. Visiting(h, n)'
  BY <1>4, <1>5 DEF Visiting
<1> QED BY <1>4, <1>6

\* It does not touch what is nested in blocks.
LEMMA NobodysChild ==
  ASSUME NEW n, Root(n), NEW v, NEW w, \A u \in Tasks : u # n => w[u] = v[u],
         \A b \in OpenBlocks : Disciplined(v, b)
  PROVE  \A b \in OpenBlocks : Disciplined(w, b)
<1>1. SUFFICES ASSUME NEW b \in OpenBlocks PROVE Disciplined(w, b)
  OBVIOUS
<1>2. b \in Tasks
  BY DEF OpenBlocks
<1>3. \A c \in Range(Children(b)) : w[c] = v[c]
  BY <1>2, Kids DEF Root
<1>4. Disciplined(w, b) <=> Disciplined(v, b)
  BY <1>2, <1>3, OfChildren
<1> QED BY <1>4

\* Nor what is in a subtree that it is not in.
LEMMA FreshStays ==
  ASSUME NEW t, NEW v, NEW w, Fresh(v, t), \A u \in Subtree(t) : w[u] = v[u]
  PROVE  Fresh(w, t)
BY DEF Fresh

\* A host that is idle takes no step.
LEMMA IdleStays ==
  ASSUME NEW h, ctl[h] \notin Walking, NEW runner
  PROVE  ~WalkStep(h, runner)
BY DEF Walking, WalkStep, BlockStep, RunLeaf, RunOnceRunner, RunOnceOther, SkipBlock, EnterBlock,
   Iterate, NextInList, EndOfList, ChildReturns, SkipNext, BeginRescue, BeginAlways, EndIteration,
   LeaveBlock

\* The handlers are those of the list.
Coming(n) == {HandlerList[i] : i \in n .. Len(HandlerList)}
LEMMA AllComing ==
  /\ Handlers = Coming(1) /\ Len(HandlerList) \in Nat
  /\ \A n \in Nat : n > Len(HandlerList) => Coming(n) = {}
  /\ \A n \in Nat \ {0} : n <= Len(HandlerList) => Coming(n) \ {HandlerList[n]} \subseteq Coming(n + 1)
<1>1. HandlerList \in Seq({u \in Tasks : Kind[u] = "leaf"})
  BY TreeAssumption
<1>2. DOMAIN HandlerList = 1 .. Len(HandlerList) /\ Len(HandlerList) \in Nat
  BY <1>1, LenProperties
<1>3. Handlers = Coming(1)
  BY <1>2 DEF Handlers, Range, Coming
<1> QED BY <1>2, <1>3 DEF Coming

\* A handler that runs leaves no more to come than what it notifies, and what it
\* notifies upwards is late.
LEMMA NotifiesOnwards ==
  ASSUME NEW k \in Nat \ {0}, k <= Len(HandlerList), HandlerList[k] \in Composite,
         NEW v, v[HandlerList[k]] # "none"
  PROVE  Notify[HandlerList[k]] \subseteq Coming(k) \cup Belated(v)
<1>1. /\ HandlerList \in Seq({u \in Tasks : Kind[u] = "leaf"})
      /\ DOMAIN HandlerList = 1 .. Len(HandlerList) /\ Len(HandlerList) \in Nat
  BY TreeAssumption, LenProperties
<1>2. HandlerList[k] \in Tasks /\ k \in DOMAIN HandlerList
  BY <1>1, ElementOfSeq
<1>3. SUFFICES ASSUME NEW n \in Notify[HandlerList[k]], n \notin Coming(k)
               PROVE  n \in Belated(v)
  OBVIOUS
<1>4. n \in Handlers
  BY <1>2, TreeAssumption
<1>5. PICK i \in DOMAIN HandlerList : n = HandlerList[i]
  BY <1>4 DEF Handlers, Range
<1>6. i < k
  BY <1>1, <1>3, <1>5 DEF Coming
<1> QED BY <1>2, <1>3, <1>5, <1>6 DEF Belated

\* What is late stays so.
LEMMA BelatedStays ==
  ASSUME NEW v, NEW w, \A u \in Tasks : v[u] # "none" => w[u] # "none"
  PROVE  Belated(v) \subseteq Belated(w)
<1>1. \A j \in DOMAIN HandlerList : HandlerList[j] \in Tasks
  BY TreeAssumption, LenProperties, ElementOfSeq
<1> QED BY <1>1 DEF Belated

LEMMA CompositeTasks == Composite \subseteq Tasks
<1>1. HandlerList \in Seq({u \in Tasks : Kind[u] = "leaf"})
  BY TreeAssumption
<1>2. \A i \in DOMAIN HandlerList : HandlerList[i] \in Tasks
  BY <1>1, LenProperties, ElementOfSeq
<1> QED BY <1>2, HandlerAssumption DEF Handlers, Range

\* Notifying tasks are no handlers, but for those that are blocks.
LEMMA Notifiers ==
  ASSUME NEW u \in Tasks, NEW n \in Notify[u]
  PROVE  u \in Tasks \ Handlers \/ (u \in Composite /\ u \notin RunOnce)
BY HandlerAssumption

-----------------------------------------------------------------------------
(* Slots                                                                   *)
(*                                                                         *)
(* A walker counts slots; the tasks have numbers of their own.  The two     *)
(* agree outside of loops, provided that no block has both a rescue arm and *)
(* an always arm: a host that goes past a rescue arm does not count it.     *)

Straight == \A b \in Tasks : Unlooped(b) => Arm[b].rescue = <<>> \/ Arm[b].always = <<>>

\* A task that is nested in no other.
Outermost(t) == Root(t) /\ \A u \in Tasks : t \notin u + 1 .. u + Size[u] - 1

\* The children of its block that a list has been through, and those it has not.
Gone(f) ==
  {List(f)[i] : i \in 1 .. f.next - 1}
    \cup (IF f.arm = "tasks" THEN {} ELSE Range(Arm[f.block].tasks))
    \cup (IF f.arm = "always" THEN Range(Arm[f.block].rescue) ELSE {})
Rest(f) ==
  {List(f)[i] : i \in f.next .. Len(List(f))}
    \cup (IF f.arm = "tasks" THEN Range(Arm[f.block].rescue) ELSE {})
    \cup (IF f.arm = "always" THEN {} ELSE Range(Arm[f.block].always))

\* Slot `n` is not beyond what is left of a block, and where slots are shared it is
\* beyond all the rest.
Amid(f, n) ==
  /\ n <= f.block + Size[f.block] /\ \A c \in Rest(f) : n <= c
  /\ f.coord => f.block < n /\ \A c \in Gone(f) : c + Size[c] <= n

\* Blocks are entered at their own slot where slots are shared.
Entered(s) ==
  \A i \in 1 .. Len(s) :
    /\ s[i].entry <= s[i].block
    /\ (i < Len(s) => s[i + 1].coord) => s[i].entry = s[i].block
    /\ s[i].coord => s[i].entry = s[i].block /\ Unlooped(s[i].block)

\* The counter `n` of a walker.
Counted(c, k, s, n) ==
  /\ Entered(s)
  /\ c = "call" => n <= k /\ (Shared(s) => n = k)
  /\ c = "return" => n <= k + Size[k] /\ (Shared(s) => n = k + Size[k])
  /\ c \in {"list", "skip", "armDone"} => Amid(Head(s), n)
  /\ c = "iterate" => n <= Head(s).block + Size[Head(s).block]

\* What a list has been through lies before what it has not.
LEMMA PastRest ==
  ASSUME NEW f \in FrameType, f.next \in 1 .. Len(List(f)) + 1
  PROVE  /\ Range(Children(f.block)) = Gone(f) \cup Rest(f)
         /\ \A c \in Gone(f) \cup Rest(f) : c \in Tasks /\ f.block < c
         /\ \A c \in Gone(f) \cup Rest(f) : c + Size[c] <= f.block + Size[f.block]
         /\ \A c \in Gone(f), d \in Rest(f) : c + Size[c] <= d
<1>1. PICK b \in Tasks, a \in Arms : b = f.block /\ a = f.arm
  BY DEF FrameType
<1>2. /\ List(f) = Arm[b][a] /\ Len(Arm[b][a]) \in Nat
      /\ Range(Arm[b][a]) = {Arm[b][a][i] : i \in 1 .. Len(Arm[b][a])}
  BY <1>1, Elements DEF List
<1> DEFINE P == {List(f)[i] : i \in 1 .. f.next - 1}
           R == {List(f)[i] : i \in f.next .. Len(List(f))}
<1>3. f.next \in Nat /\ P \cup R = Range(Arm[b][a])
  <2>1. f.next \in Nat /\ f.next <= Len(Arm[b][a]) + 1 /\ 1 <= f.next
    BY <1>2
  <2>2. \A i : i \in 1 .. Len(Arm[b][a]) <=> i \in 1 .. f.next - 1 \/ i \in f.next .. Len(Arm[b][a])
    BY <1>2, <2>1
  <2> QED BY <1>2, <2>1, <2>2
<1>4. \A c \in P, d \in R : c + Size[c] <= d
  <2>1. SUFFICES ASSUME NEW i \in 1 .. f.next - 1, NEW j \in f.next .. Len(List(f))
                 PROVE  List(f)[i] + Size[List(f)[i]] <= List(f)[j]
    OBVIOUS
  <2>2. i \in DOMAIN Arm[b][a] /\ j \in DOMAIN Arm[b][a] /\ i < j
    <3>1. DOMAIN Arm[b][a] = 1 .. Len(Arm[b][a])
      BY <1>1, TreeAssumption, LenProperties
    <3> QED BY <1>2, <1>3, <2>1, <3>1
  <2> QED BY <1>1, <1>2, <2>2, PreOrderAssumption
<1>5. Range(Children(b)) = Range(Arm[b].tasks) \cup Range(Arm[b].rescue) \cup Range(Arm[b].always)
  BY <1>1, ChildrenOf
<1>6. /\ \A c \in Range(Arm[b].tasks), d \in Range(Arm[b].rescue) : c + Size[c] <= d
      /\ \A c \in Range(Arm[b].tasks) \cup Range(Arm[b].rescue), d \in Range(Arm[b].always) :
            c + Size[c] <= d
      /\ \A e \in Arms : \A c \in Range(Arm[b][e]) : b < c /\ c + Size[c] <= b + Size[b]
  BY <1>1, PreOrderAssumption
<1>7. \A e \in Arms : \A c \in Range(Arm[b][e]) : c \in Tasks
  BY <1>1, Kids
<1> HIDE DEF P, R
<1>8. Gone(f) = P \cup (IF a = "tasks" THEN {} ELSE Range(Arm[b].tasks))
                  \cup (IF a = "always" THEN Range(Arm[b].rescue) ELSE {})
  BY <1>1 DEF Gone, P
<1>9. Rest(f) = R \cup (IF a = "tasks" THEN Range(Arm[b].rescue) ELSE {})
                  \cup (IF a = "always" THEN {} ELSE Range(Arm[b].always))
  BY <1>1 DEF Rest, R
<1>10. a = "tasks" \/ a = "rescue" \/ a = "always"
  BY DEF Arms
<1>11. Range(Children(f.block)) = Gone(f) \cup Rest(f)
  BY <1>1, <1>3, <1>5, <1>8, <1>9, <1>10
<1>12. \A c \in Gone(f) \cup Rest(f) : \E e \in Arms : c \in Range(Arm[b][e])
  BY <1>1, <1>5, <1>11 DEF Arms
<1>13. \A c \in Gone(f), d \in Rest(f) : c + Size[c] <= d
  <2>1. CASE a = "tasks"
    BY <1>3, <1>4, <1>6, <1>8, <1>9, <2>1
  <2>2. CASE a = "rescue"
    BY <1>3, <1>4, <1>6, <1>8, <1>9, <2>2
  <2>3. CASE a = "always"
    BY <1>3, <1>4, <1>6, <1>8, <1>9, <2>3
  <2> QED BY <1>10, <2>1, <2>2, <2>3
<1> QED BY <1>1, <1>6, <1>7, <1>11, <1>12, <1>13

\* Where slots are shared a list is at the slot of its next task.
LEMMA NextUp ==
  ASSUME NEW f \in FrameType, f.next \in 1 .. Len(List(f)), NEW n \in Nat, Amid(f, n)
  PROVE  /\ List(f)[f.next] \in Rest(f) /\ List(f)[f.next] \in Tasks /\ n <= List(f)[f.next]
         /\ f.coord => n = List(f)[f.next]
<1> DEFINE k == List(f)[f.next]
           b == f.block
<1>1. f.next \in Nat /\ Len(List(f)) \in Nat /\ b \in Tasks /\ f.next \in 1 .. Len(List(f)) + 1
  <2>1. f.next \in Nat /\ b \in Tasks /\ f.arm \in Arms
    BY DEF FrameType
  <2>2. Len(List(f)) \in Nat
    BY <2>1, Elements DEF List
  <2> QED BY <2>1, <2>2
<1>2. k \in Rest(f)
  <2>1. f.next \in f.next .. Len(List(f))
    BY <1>1
  <2> QED BY <2>1 DEF Rest
<1>3. /\ Range(Children(b)) = Gone(f) \cup Rest(f)
      /\ \A c \in Gone(f) \cup Rest(f) : c \in Tasks /\ b < c /\ c + Size[c] <= b + Size[b]
      /\ \A c \in Gone(f), d \in Rest(f) : c + Size[c] <= d
  BY <1>1, PastRest
<1>4. k \in Tasks /\ n <= k /\ k \in Nat /\ b \in Nat /\ Size[k] \in Nat \ {0} /\ Size[b] \in Nat
  BY <1>1, <1>2, <1>3, Numbers DEF Amid
<1>5. ASSUME f.coord, n # k
      PROVE  FALSE
  <2>1. b < n /\ \A c \in Gone(f) : c + Size[c] <= n
    BY <1>5 DEF Amid
  <2>2. k + Size[k] <= b + Size[b]
    BY <1>2, <1>3
  <2>3. n \in b + 1 .. b + Size[b] - 1
    <3>1. b \in Nat /\ k \in Nat /\ Size[k] \in Nat \ {0} /\ Size[b] \in Nat /\ b < n /\ n <= k
      BY <1>4, <2>1
    <3>2. \A i, j, d, e \in Nat : i < n /\ n <= j /\ j + d <= i + e /\ d # 0 => n \in i + 1 .. i + e - 1
      OBVIOUS
    <3> HIDE DEF k, b
    <3> QED BY <2>2, <3>1, <3>2
  <2>4. PICK c \in Range(Children(b)) : n \in c .. c + Size[c] - 1
    BY <1>1, <2>3, GaplessAssumption
  <2>5. c \in Tasks /\ c \in Nat /\ Size[c] \in Nat
    BY <1>3, <2>4, Numbers
  <2>6. c <= n /\ n < c + Size[c]
    BY <2>4, <2>5
  <2>7. c \in Rest(f)
    BY <1>3, <2>1, <2>4, <2>5, <2>6
  <2>8. n = c
    BY <2>5, <2>6, <2>7 DEF Amid
  <2>9. k <= c
    <3>1. c = k \/ k + Size[k] <= c
      <4> DEFINE g == [f EXCEPT !.next = f.next + 1]
      <4>1. g \in FrameType /\ g.next = f.next + 1 /\ g.block = b /\ g.arm = f.arm /\ List(g) = List(f)
        BY <1>1 DEF FrameType, List
      <4>2. g.next \in 1 .. Len(List(g)) + 1
        BY <1>1, <4>1
      <4>3. k \in Gone(g)
        <5>1. f.next \in 1 .. g.next - 1
          BY <1>1, <4>1
        <5> QED BY <4>1, <5>1 DEF Gone
      <4>4. c = k \/ c \in Rest(g)
        <5>1. \A i \in f.next .. Len(List(f)) : i = f.next \/ i \in f.next + 1 .. Len(List(f))
          BY <1>1
        <5> HIDE DEF g
        <5> QED BY <2>7, <4>1, <5>1 DEF Rest
      <4> HIDE DEF g
      <4> QED BY <4>1, <4>2, <4>3, <4>4, PastRest
    <3> HIDE DEF k
    <3> QED BY <1>4, <2>5, <3>1
  <2> QED BY <1>4, <1>5, <2>8, <2>9
<1> QED BY <1>2, <1>4, <1>5

\* All there is to it is where the list is.
LEMMA AmidSame ==
  ASSUME NEW f, NEW g, g.block = f.block, g.arm = f.arm, g.next = f.next, g.coord = f.coord, NEW n
  PROVE  Amid(g, n) <=> Amid(f, n)
<1>1. List(g) = List(f)
  BY DEF List
<1>2. Gone(g) = Gone(f) /\ Rest(g) = Rest(f)
  BY <1>1 DEF Gone, Rest
<1> QED BY <1>2 DEF Amid

\* Behind the task that a list is at.
LEMMA AmidAfter ==
  ASSUME NEW f \in FrameType, f.next - 1 \in 1 .. Len(List(f)), NEW n \in Nat,
         n <= TaskOf(f) + Size[TaskOf(f)], f.coord => n = TaskOf(f) + Size[TaskOf(f)]
  PROVE  Amid(f, n)
<1>1. PICK b \in Tasks, a \in Arms, m \in Nat : b = f.block /\ a = f.arm /\ m = f.next
  BY DEF FrameType
<1>2. Len(List(f)) \in Nat
  BY <1>1, Elements DEF List
<1>3. m \in 1 .. Len(List(f)) + 1 /\ m - 1 \in 1 .. Len(List(f))
  BY <1>1, <1>2
<1>4. /\ \A c \in Gone(f) \cup Rest(f) : c \in Tasks /\ b < c /\ c + Size[c] <= b + Size[b]
      /\ \A c \in Gone(f), d \in Rest(f) : c + Size[c] <= d
  BY <1>1, <1>3, PastRest
<1>5. PICK k : k = TaskOf(f)
  OBVIOUS
<1>6. k \in Gone(f) /\ k = List(f)[m - 1]
  <2>1. k = List(f)[m - 1] /\ m - 1 \in 1 .. m - 1
    BY <1>1, <1>3, <1>5 DEF TaskOf
  <2> QED BY <1>1, <2>1 DEF Gone
<1>7. ASSUME NEW c \in Gone(f)
      PROVE  c + Size[c] <= k + Size[k]
  <2> DEFINE g == [f EXCEPT !.next = m - 1]
  <2>1. g \in FrameType /\ g.next = m - 1 /\ g.block = b /\ g.arm = a /\ List(g) = List(f)
    BY <1>1, <1>3 DEF FrameType, List
  <2> HIDE DEF g
  <2>2. k \in Rest(g)
    <3>1. m - 1 \in m - 1 .. Len(List(f))
      BY <1>2, <1>3
    <3> QED BY <1>6, <2>1, <3>1 DEF Rest
  <2>3. c = k \/ c \in Gone(g)
    <3>1. \A i \in 1 .. m - 1 : i = m - 1 \/ i \in 1 .. (m - 1) - 1
      <4>1. \A e \in Nat : \A i \in 1 .. e - 1 : i = e - 1 \/ i \in 1 .. (e - 1) - 1
        OBVIOUS
      <4> QED BY <4>1
    <3> QED BY <1>1, <1>6, <1>7, <2>1, <3>1 DEF Gone
  <2>4. c \in Gone(g) => c + Size[c] <= k
    <3>1. g.next \in 1 .. Len(List(g)) + 1
      BY <1>2, <1>3, <2>1
    <3> QED BY <2>1, <2>2, <3>1, PastRest
  <2>5. k \in Nat /\ Size[k] \in Nat /\ c \in Nat /\ Size[c] \in Nat
    BY <1>4, <1>6, <1>7, Numbers
  <2> QED BY <2>3, <2>4, <2>5
<1>8. n <= k + Size[k] /\ (f.coord => n = k + Size[k]) /\ b < k /\ k + Size[k] <= b + Size[b]
  BY <1>4, <1>5, <1>6
<1>9. k \in Nat /\ Size[k] \in Nat \ {0} /\ b \in Nat /\ Size[b] \in Nat
  BY <1>1, <1>4, <1>6, Numbers
<1>10. n <= b + Size[b] /\ (f.coord => b < n)
  <2>1. \A i, j, d, e \in Nat : i < j /\ j + d <= i + e /\ d # 0 /\ n <= j + d => n <= i + e
    OBVIOUS
  <2>2. \A i, j, d \in Nat : i < j /\ d # 0 /\ n = j + d => i < n
    OBVIOUS
  <2> QED BY <1>8, <1>9, <2>1, <2>2
<1>11. \A c \in Rest(f) : n <= c
  <2>1. SUFFICES ASSUME NEW c \in Rest(f) PROVE n <= c
    OBVIOUS
  <2>2. k + Size[k] <= c /\ c \in Nat
    BY <1>4, <1>6, <2>1, Numbers
  <2> QED BY <1>8, <1>9, <2>2
<1>12. f.coord => \A c \in Gone(f) : c + Size[c] <= n
  BY <1>7, <1>8
<1> QED BY <1>1, <1>10, <1>11, <1>12 DEF Amid

\* At the first task of a block.
LEMMA AmidFirst ==
  ASSUME NEW f \in FrameType, f.arm = "tasks", f.next = 1, NEW n \in Nat,
         n <= f.block + 1, f.coord => n = f.block + 1
  PROVE  Amid(f, n)
<1>1. PICK b \in Tasks : b = f.block
  BY DEF FrameType
<1>2. Len(List(f)) \in Nat
  BY <1>1, Elements DEF List, Arms
<1>3. f.next \in 1 .. Len(List(f)) + 1
  BY <1>2
<1>4. \A c \in Rest(f) : c \in Nat /\ b < c
  BY <1>1, <1>3, PastRest, Numbers
<1>5. Gone(f) = {}
  BY DEF Gone
<1>6. b \in Nat /\ Size[b] \in Nat \ {0}
  BY <1>1, Numbers
<1> QED BY <1>1, <1>4, <1>5, <1>6 DEF Amid

\* From one list of a block to the next, where the rescue arm is only passed over if
\* it is empty, or slots are not shared.
LEMMA AmidNext ==
  ASSUME NEW f \in FrameType, f.next = Len(List(f)) + 1, NEW n, Amid(f, n),
         NEW g \in FrameType, g.block = f.block, g.coord = f.coord, g.next = 1,
         \/ f.arm = "tasks" /\ g.arm = "rescue"
         \/ f.arm = "rescue" /\ g.arm = "always"
         \/ f.arm = "tasks" /\ g.arm = "always" /\ (f.coord => Arm[f.block].rescue = <<>>)
  PROVE  Amid(g, n)
<1>1. PICK b \in Tasks : b = f.block
  BY DEF FrameType
<1>2. PICK a \in Arms, d \in Arms : a = f.arm /\ d = g.arm
  BY DEF FrameType
<1>3. /\ List(f) = Arm[b][a] /\ Len(Arm[b][a]) \in Nat
      /\ Range(Arm[b][a]) = {Arm[b][a][i] : i \in 1 .. Len(Arm[b][a])}
  BY <1>1, <1>2, Elements DEF List
<1>4. /\ List(g) = Arm[b][d] /\ Len(Arm[b][d]) \in Nat
      /\ Range(Arm[b][d]) = {Arm[b][d][i] : i \in 1 .. Len(Arm[b][d])}
  BY <1>1, <1>2, Elements DEF List
<1>5. {List(f)[i] : i \in 1 .. f.next - 1} = Range(Arm[b][a])
  BY <1>3
<1>6. {List(f)[i] : i \in f.next .. Len(List(f))} = {}
  BY <1>3
<1>7. {List(g)[i] : i \in 1 .. g.next - 1} = {}
  OBVIOUS
<1>8. {List(g)[i] : i \in g.next .. Len(List(g))} = Range(Arm[b][d])
  BY <1>4
<1>9. Rest(g) \subseteq Rest(f)
  BY <1>1, <1>2, <1>6, <1>8 DEF Rest
<1>10. Gone(g) \subseteq Gone(f) \cup (IF a = "tasks" /\ d = "always" THEN Range(Arm[b].rescue) ELSE {})
  BY <1>1, <1>2, <1>5, <1>7 DEF Gone
<1>11. Arm[b].rescue = <<>> => Range(Arm[b].rescue) = {}
  <2>1. 1 .. Len(<<>>) = {}
    OBVIOUS
  <2>2. Range(Arm[b].rescue) = {Arm[b].rescue[i] : i \in 1 .. Len(Arm[b].rescue)}
    BY Elements DEF Arms
  <2> QED BY <2>1, <2>2
<1>12. f.coord => Gone(g) \subseteq Gone(f)
  BY <1>1, <1>2, <1>10, <1>11
<1> QED BY <1>9, <1>12 DEF Amid

\* A block is entered, at its own slot where slots are shared.
LEMMA EnteredPushed ==
  ASSUME NEW s \in Seq(FrameType), Entered(s), NEW f \in FrameType, f.entry <= f.block,
         Shared(s) => f.entry = f.block, f.coord => f.entry = f.block /\ Unlooped(f.block)
  PROVE  Entered(<<f>> \o s)
<1> DEFINE u == <<f>> \o s
<1>1. /\ u \in Seq(FrameType) /\ Len(u) = Len(s) + 1 /\ Len(s) \in Nat
      /\ u[1] = f /\ \A i \in 2 .. Len(s) + 1 : u[i] = s[i - 1]
  BY OnTop
<1> HIDE DEF u
<1>2. SUFFICES ASSUME NEW i \in 1 .. Len(u)
               PROVE  /\ u[i].entry <= u[i].block
                      /\ (i < Len(u) => u[i + 1].coord) => u[i].entry = u[i].block
                      /\ u[i].coord => u[i].entry = u[i].block /\ Unlooped(u[i].block)
  BY DEF Entered, u
<1>3. CASE i = 1
  <2>1. (1 < Len(u) => u[2].coord) => Shared(s)
    <3>1. CASE s = <<>>
      BY <3>1 DEF Shared
    <3>2. CASE s # <<>>
      <4>1. Len(s) \in Nat \ {0} /\ Head(s) = s[1]
        BY <3>2, OffTop
      <4>2. 2 \in 2 .. Len(s) + 1 /\ 1 < Len(u)
        BY <1>1, <4>1
      <4>3. u[2] = s[1]
        <5>1. 2 - 1 = 1
          OBVIOUS
        <5> QED BY <1>1, <4>2, <5>1
      <4> QED BY <3>2, <4>1, <4>2, <4>3 DEF Shared
    <3> QED BY <3>1, <3>2
  <2>2. i + 1 = 2
    BY <1>3
  <2> QED BY <1>1, <1>3, <2>1, <2>2
<1>4. CASE i # 1
  <2>1. PICK j \in 1 .. Len(s) : j = i - 1
    BY <1>1, <1>2, <1>4
  <2>2. i \in 2 .. Len(s) + 1 /\ u[i] = s[j]
    BY <1>1, <1>2, <1>4, <2>1
  <2>3. i < Len(u) <=> j < Len(s)
    BY <1>1, <2>1
  <2>4. j < Len(s) => u[i + 1] = s[j + 1]
    <3>1. j < Len(s) => i + 1 \in 2 .. Len(s) + 1 /\ (i + 1) - 1 = j + 1
      BY <1>1, <2>1
    <3> QED BY <1>1, <3>1
  <2>5. /\ s[j].entry <= s[j].block
        /\ (j < Len(s) => s[j + 1].coord) => s[j].entry = s[j].block
        /\ s[j].coord => s[j].entry = s[j].block /\ Unlooped(s[j].block)
    BY DEF Entered
  <2> QED BY <2>2, <2>3, <2>4, <2>5
<1> QED BY <1>3, <1>4

\* A block is left.
LEMMA EnteredPopped ==
  ASSUME NEW s \in Seq(FrameType), s # <<>>, Entered(s)
  PROVE  /\ Entered(Tail(s)) /\ Head(s).entry <= Head(s).block
         /\ Shared(Tail(s)) => Head(s).entry = Head(s).block
         /\ Head(s).coord => Head(s).entry = Head(s).block /\ Unlooped(Head(s).block)
<1> DEFINE u == Tail(s)
<1>1. /\ u \in Seq(FrameType) /\ Len(u) = Len(s) - 1 /\ Len(s) \in Nat \ {0}
      /\ Head(s) = s[1] /\ \A i \in 1 .. Len(s) - 1 : u[i] = s[i + 1]
      /\ u = <<>> <=> Len(s) = 1
  BY OffTop
<1> HIDE DEF u
<1>2. Entered(u)
  <2>1. SUFFICES ASSUME NEW i \in 1 .. Len(u)
                 PROVE  /\ u[i].entry <= u[i].block
                        /\ (i < Len(u) => u[i + 1].coord) => u[i].entry = u[i].block
                        /\ u[i].coord => u[i].entry = u[i].block /\ Unlooped(u[i].block)
    BY DEF Entered
  <2>2. PICK j \in 1 .. Len(s) : j = i + 1
    BY <1>1, <2>1
  <2>3. u[i] = s[j] /\ (i < Len(u) <=> j < Len(s)) /\ (i < Len(u) => u[i + 1] = s[j + 1])
    <3>1. i \in 1 .. Len(s) - 1 /\ (i < Len(u) <=> j < Len(s)) /\ (i < Len(u) => i + 1 \in 1 .. Len(s) - 1)
      BY <1>1, <2>1, <2>2
    <3> QED BY <1>1, <2>2, <3>1
  <2>4. /\ s[j].entry <= s[j].block
        /\ (j < Len(s) => s[j + 1].coord) => s[j].entry = s[j].block
        /\ s[j].coord => s[j].entry = s[j].block /\ Unlooped(s[j].block)
    BY DEF Entered
  <2> QED BY <2>3, <2>4
<1>3. 1 \in 1 .. Len(s)
  BY <1>1
<1>4. Shared(u) => (1 < Len(s) => s[1 + 1].coord)
  <2>1. SUFFICES ASSUME Shared(u), 1 < Len(s) PROVE s[1 + 1].coord
    OBVIOUS
  <2>2. u # <<>> /\ 1 \in 1 .. Len(s) - 1
    BY <1>1, <2>1
  <2>3. Head(u) = u[1] /\ u[1] = s[1 + 1]
    BY <1>1, <2>2, OffTop
  <2> QED BY <2>1, <2>2, <2>3 DEF Shared
<1> QED BY <1>1, <1>2, <1>3, <1>4 DEF Entered, u

\* A block goes on.
LEMMA EnteredReplaced ==
  ASSUME NEW s \in Seq(FrameType), s # <<>>, Entered(s), NEW f \in FrameType,
         f.block = Head(s).block, f.entry = Head(s).entry, f.coord = Head(s).coord
  PROVE  Entered(<<f>> \o Tail(s))
<1>1. Tail(s) \in Seq(FrameType)
  BY OffTop
<1>2. /\ Entered(Tail(s)) /\ Head(s).entry <= Head(s).block
      /\ Shared(Tail(s)) => Head(s).entry = Head(s).block
      /\ Head(s).coord => Head(s).entry = Head(s).block /\ Unlooped(Head(s).block)
  BY EnteredPopped
<1> QED BY <1>1, <1>2, EnteredPushed

\* What is nested in a task that is nested in another, is nested in that.
LEMMA NestedIn ==
  ASSUME NEW d \in Tasks, NEW l \in Tasks, NEW c \in Tasks,
         l \in d .. d + Size[d] - 1, c \in l .. l + Size[l] - 1
  PROVE  c \in Subtree(d)
<1>1. /\ l \in Nat /\ Size[l] \in Nat \ {0} /\ d \in Nat /\ Size[d] \in Nat \ {0}
      /\ c \in Nat /\ Size[c] \in Nat \ {0}
  BY Numbers
<1>2. l + Size[l] <= d + Size[d]
  BY GaplessAssumption
<1>3. c \in d .. d + Size[d] - 1
  BY <1>1, <1>2
<1>4. c + Size[c] <= d + Size[d]
  BY <1>3, GaplessAssumption
<1> QED BY <1>1, <1>3, <1>4 DEF Subtree

\* A child of a block in no loop is in no loop, if it is none itself.
LEMMA UnloopedChild ==
  ASSUME NEW b \in Tasks, Unlooped(b), NEW a \in Arms, NEW i \in 1 .. Len(Arm[b][a]),
         Arm[b][a][i] \notin Looped
  PROVE  Unlooped(Arm[b][a][i])
<1>1. PICK c \in Tasks : c = Arm[b][a][i]
  BY Nested
<1>2. c \in Range(Arm[b][a]) /\ b < c /\ c + Size[c] <= b + Size[b]
  BY <1>1, Nested
<1>3. SUFFICES ASSUME NEW l \in Looped, c \in l .. l + Size[l] - 1
               PROVE  FALSE
  BY <1>1 DEF Unlooped
<1>4. l \in Tasks /\ l # c
  BY <1>1, TreeAssumption
<1>5. /\ l \in Nat /\ Size[l] \in Nat \ {0} /\ b \in Nat /\ Size[b] \in Nat \ {0}
      /\ c \in Nat /\ Size[c] \in Nat \ {0}
  BY <1>4, Numbers
<1>6. l < c
  BY <1>3, <1>4, <1>5
<1>7. l \in b + 1 .. b + Size[b] - 1
  <2>1. b \notin l .. l + Size[l] - 1
    BY DEF Unlooped
  <2>2. \A i0, j, k, d, e \in Nat :
          /\ i0 \notin j .. j + d - 1 /\ k \in j .. j + d - 1 /\ j < k /\ i0 < k /\ k < i0 + e
          => j \in i0 + 1 .. i0 + e - 1
    OBVIOUS
  <2>3. \A i0, k, d, e \in Nat : d # 0 /\ k + d <= i0 + e => k < i0 + e
    OBVIOUS
  <2>4. c < b + Size[b]
    BY <1>2, <1>5, <2>3
  <2> QED BY <1>2, <1>3, <1>5, <1>6, <2>1, <2>2, <2>4
<1>8. PICK d \in Range(Children(b)) : l \in d .. d + Size[d] - 1
  BY <1>7, GaplessAssumption
<1>9. d \in Tasks
  BY Kids
<1>10. c \in Subtree(c) /\ c \in Subtree(d)
  <2>1. c \in Subtree(d)
    BY <1>3, <1>4, <1>8, <1>9, NestedIn
  <2> QED BY <1>5, <2>1 DEF Subtree
<1>11. PICK e \in Arms : d \in Range(Arm[b][e])
  BY ChildrenOf DEF Arms
<1>12. PICK j \in 1 .. Len(Arm[b][e]) : d = Arm[b][e][j]
  <2>1. Range(Arm[b][e]) = {Arm[b][e][j] : j \in 1 .. Len(Arm[b][e])}
    BY Elements
  <2> QED BY <1>11, <2>1
<1>13. d # c
  <2>1. \A i0, j0, d0 \in Nat : i0 \in j0 .. j0 + d0 - 1 => j0 <= i0
    OBVIOUS
  <2>2. d \in Nat /\ Size[d] \in Nat
    BY <1>9, Numbers
  <2>3. d <= l
    BY <1>5, <1>8, <2>1, <2>2
  <2>4. \A x, y \in Nat : x <= y => ~(y < x)
    OBVIOUS
  <2> QED BY <1>5, <1>6, <2>2, <2>3, <2>4
<1>14. Subtree(c) \cap Subtree(d) = {}
  <2>1. a # e \/ i # j
    BY <1>1, <1>12, <1>13
  <2> QED BY <1>1, <1>12, <2>1, Siblings
<1> QED BY <1>10, <1>14

\* Where slots are shared a walker is in no loop.
LEMMA SharedUnlooped ==
  ASSUME NEW t, Outermost(t), NEW c \in {"call", "return"}, NEW k, NEW s, NEW r, NEW v,
         Control(c, k, s, r, v, t), Entered(s), Shared(s), k \notin Looped
  PROVE  k \in Tasks /\ Unlooped(k)
<1>1. /\ s \in Seq(FrameType) /\ t \in Tasks /\ Nest(s, t)
      /\ s = <<>> => k = t
      /\ s # <<>> => Head(s).next > 1 /\ k = TaskOf(Head(s))
  BY DEF Control, Nest, Outermost, Root
<1>2. CASE s = <<>>
  <2>1. k = t
    BY <1>1, <1>2
  <2>2. ASSUME NEW l \in Looped, t \in l .. l + Size[l] - 1
        PROVE  FALSE
    <3>1. l \in Tasks /\ l # t
      BY <2>1, TreeAssumption
    <3>2. t \notin l + 1 .. l + Size[l] - 1
      BY <3>1 DEF Outermost
    <3>3. \A i, j, d \in Nat : i \in j .. j + d - 1 /\ i # j => i \in j + 1 .. j + d - 1
      OBVIOUS
    <3>4. t \in Nat /\ l \in Nat /\ Size[l] \in Nat
      BY <1>1, <3>1, Numbers
    <3> QED BY <2>2, <3>1, <3>2, <3>3, <3>4
  <2> QED BY <1>1, <2>1, <2>2 DEF Unlooped
<1>3. CASE s # <<>>
  <2>1. PICK f \in FrameType : f = Head(s)
    BY <1>1, <1>3, OffTop
  <2>2. f.coord /\ Unlooped(f.block)
    BY <1>1, <1>3, <2>1, EnteredPopped DEF Shared
  <2>3. f.next - 1 \in 1 .. Len(List(f)) /\ k = List(f)[f.next - 1]
    <3>1. Head(s) = s[1] /\ 1 \in 1 .. Len(s)
      BY <1>1, <1>3, OffTop
    <3> QED BY <1>1, <1>3, <2>1, <3>1, Spot DEF TaskOf
  <2>4. PICK b \in Tasks, a \in Arms : b = f.block /\ a = f.arm
    BY DEF FrameType
  <2>5. PICK i \in 1 .. Len(Arm[b][a]) : k = Arm[b][a][i]
    BY <2>3, <2>4 DEF List
  <2> QED BY <2>2, <2>4, <2>5, Nested, UnloopedChild
<1> QED BY <1>2, <1>3

\* What a slot is worth.
LEMMA Worth ==
  ASSUME NEW t, Subtree(t) \subseteq DOMAIN cells, NEW s, NEW k \in Subtree(t)
  PROVE  /\ Shared(s) => SizeAt(s, k) = Size[k]
         /\ ~Shared(s) => \A n : SizeAt(s, n) = 1
BY DEF SizeAt

\* A task takes up its slots, all of them where they are shared.
LEMMA Compensates ==
  ASSUME NEW t, Subtree(t) \subseteq DOMAIN cells, NEW s, NEW k \in Subtree(t),
         NEW e \in Nat, NEW n \in Nat, e <= k, n <= k + Size[k], Shared(s) => e = k
  PROVE  /\ Compensated(s, e, n) <= k + Size[k]
         /\ Shared(s) => Compensated(s, e, n) = k + Size[k]
<1>1. k \in Nat /\ Size[k] \in Nat \ {0}
  BY Numbers DEF Subtree
<1>2. CASE Shared(s)
  <2>1. e = k /\ SizeAt(s, e) = Size[k]
    BY <1>2, Worth
  <2> QED BY <1>1, <2>1 DEF Compensated
<1>3. CASE ~Shared(s)
  <2>1. SizeAt(s, e) = 1
    BY <1>3, Worth
  <2> QED BY <1>1, <1>3, <2>1 DEF Compensated
<1> QED BY <1>2, <1>3

\* A walker's frames, before it changes the innermost one and after.
LEMMA TopOf ==
  ASSUME NEW h \in Hosts, WalkTypeOK, stack[h] # <<>>, Entered(stack[h]), NEW g \in FrameType,
         g.block = Top(h).block, g.entry = Top(h).entry, g.coord = Top(h).coord, Replace(h, g)
  PROVE  /\ Entered(stack'[h]) /\ Head(stack'[h]) = g /\ stack'[h] # <<>>
         /\ Shared(stack'[h]) <=> g.coord
<1>1. stack[h] \in Seq(FrameType) /\ stack'[h] = <<g>> \o Tail(stack[h])
  BY DEF WalkTypeOK, Replace
<1>2. <<g>> \o Tail(stack[h]) # <<>> /\ Head(<<g>> \o Tail(stack[h])) = g
  BY <1>1, Swapped
<1>3. Entered(<<g>> \o Tail(stack[h]))
  BY <1>1, EnteredReplaced DEF Top
<1> QED BY <1>1, <1>2, <1>3 DEF Shared

\* What `Counted` says of a host in a block.
LEMMA CountedInBlock ==
  ASSUME NEW h \in Hosts, NEW t, Outermost(t), WalkTypeOK, Walker(h, t),
         Counted(ctl[h], cur[h], stack[h], slot[h]),
         ctl[h] \notin {"call", "return"} \/ stack[h] # <<>>
  PROVE  /\ Control(ctl[h], cur[h], stack[h], res[h], verdict[h], t)
         /\ stack[h] # <<>> /\ stack[h] \in Seq(FrameType) /\ Entered(stack[h])
         /\ Top(h) = Head(stack[h]) /\ Top(h) \in FrameType /\ Top(h).block \in Subtree(t)
         /\ Top(h).block \in Tasks /\ Top(h).entry \in Nat
         /\ Top(h).block \in Nat /\ Size[Top(h).block] \in Nat \ {0}
         /\ Len(List(Top(h))) \in Nat /\ Top(h).next \in 1 .. Len(List(Top(h))) + 1 /\ Top(h).next \in Nat
         /\ Top(h).entry <= Top(h).block
         /\ Shared(Tail(stack[h])) => Top(h).entry = Top(h).block
         /\ Top(h).coord => Top(h).entry = Top(h).block /\ Unlooped(Top(h).block)
         /\ slot[h] \in Nat
<1>1. Root(t)
  BY DEF Outermost
<1>2. /\ Standing(ctl[h], cur[h], stack[h], res[h], verdict[h], failedVar[h], t)
      /\ stack[h] # <<>> /\ stack[h] \in Seq(FrameType) /\ Top(h) = Head(stack[h]) /\ Top(h) \in FrameType
      /\ Len(List(Top(h))) \in Nat /\ Top(h).next \in 1 .. Len(List(Top(h))) + 1 /\ slot[h] \in Nat
  BY <1>1, InBlock
<1>3. Control(ctl[h], cur[h], stack[h], res[h], verdict[h], t) /\ Nest(stack[h], t)
  BY <1>2 DEF Standing, Control
<1>4. Head(stack[h]) = stack[h][1] /\ 1 \in 1 .. Len(stack[h])
  BY <1>2, OffTop
<1>5. Top(h).block \in Subtree(t)
  BY <1>2, <1>3, <1>4 DEF Nest
<1>6. Top(h).block \in Tasks /\ Top(h).entry \in Nat /\ Top(h).next \in Nat
  BY <1>2 DEF FrameType
<1>7. Entered(stack[h])
  BY DEF Counted
<1> QED BY <1>2, <1>3, <1>5, <1>6, <1>7, EnteredPopped, Numbers

\* A task ends.
LEMMA CountsEnd ==
  ASSUME NEW h \in Hosts, NEW t, Outermost(t), Subtree(t) \subseteq DOMAIN cells, WalkTypeOK,
         Walker(h, t), Counted(ctl[h], cur[h], stack[h], slot[h]),
         RunLeaf(h) \/ RunOnceRunner(h) \/ RunOnceOther(h) \/ SkipBlock(h)
  PROVE  Counted(ctl'[h], cur'[h], stack'[h], slot'[h])
<1> DEFINE s == stack[h]
           k == cur[h]
           n == slot[h]
<1>1. /\ ctl[h] = "call" /\ ctl' = [ctl EXCEPT ![h] = "return"] /\ cur' = cur /\ stack' = stack
      /\ slot' = [slot EXCEPT ![h] = Compensated(stack[h], @, @ + 1)]
  <2>1. ctl[h] = "call"
    <3>1. RunLeaf(h) => ctl[h] = "call"
      BY DEF RunLeaf
    <3>2. RunOnceRunner(h) \/ RunOnceOther(h) => ctl[h] = "call"
      BY DEF RunOnceRunner, RunOnceOther
    <3>3. SkipBlock(h) => ctl[h] = "call"
      BY DEF SkipBlock
    <3> QED BY <3>1, <3>2, <3>3
  <2>2. cur[h] \in Tasks
    <3>1. Standing("call", cur[h], stack[h], res[h], verdict[h], failedVar[h], t) /\ "call" \in {"call", "return"}
      BY <2>1 DEF Walker
    <3> QED BY <3>1, AtTask DEF Outermost
  <2>3. PICK r \in Results : EndsWith(h, r)
    BY <2>2, RunsToEnd, TakesToEnd, SkipsToEnd
  <2> QED BY <2>3 DEF EndsWith, Return
<1>2. Standing("call", k, s, res[h], verdict[h], failedVar[h], t) /\ n \in Nat
  BY <1>1 DEF Walker, WalkTypeOK
<1>3. k \in Tasks /\ k \in Subtree(t) /\ k \in Nat /\ Size[k] \in Nat \ {0}
  <2>1. "call" \in {"call", "return"}
    OBVIOUS
  <2>2. k \in Tasks /\ k \in Subtree(t)
    BY <1>2, <2>1, AtTask DEF Outermost
  <2> QED BY <2>2, Numbers
<1>4. Entered(s) /\ n <= k /\ (Shared(s) => n = k)
  BY <1>1 DEF Counted
<1>5. ctl'[h] = "return" /\ cur'[h] = k /\ stack'[h] = s /\ slot'[h] = Compensated(s, n, n + 1)
  BY <1>1 DEF WalkTypeOK
<1> HIDE DEF s, k, n
<1>6. /\ Compensated(s, n, n + 1) <= k + Size[k]
      /\ Shared(s) => Compensated(s, n, n + 1) = k + Size[k]
  <2>1. n + 1 \in Nat /\ n + 1 <= k + Size[k]
    BY <1>2, <1>3, <1>4
  <2> QED BY <1>2, <1>3, <1>4, <2>1, Compensates
<1> QED BY <1>4, <1>5, <1>6 DEF Counted

\* A block is entered.
LEMMA CountsInto ==
  ASSUME NEW h \in Hosts, NEW t, Outermost(t), WalkTypeOK,
         Walker(h, t), Counted(ctl[h], cur[h], stack[h], slot[h]), EnterBlock(h)
  PROVE  Counted(ctl'[h], cur'[h], stack'[h], slot'[h])
<1> DEFINE s == stack[h]
           k == cur[h]
           n == slot[h]
<1>1. PICK m \in (IF k \in Looped THEN 0 .. MaxItems ELSE {1}) :
        stack' = [stack EXCEPT ![h] =
         <<[block |-> k, arm |-> "tasks", next |-> 1, failed |-> NoTask,
            listAlive |-> TRUE, alive |-> TRUE, over |-> FALSE, left |-> m,
            entry |-> n, coord |-> Shared(s) /\ k \notin Looped,
            saved |-> NoTask]>> \o s]
  BY DEF EnterBlock
<1>2. /\ ctl[h] = "call" /\ ctl' = [ctl EXCEPT ![h] = "iterate"] /\ cur' = cur
      /\ slot' = [slot EXCEPT ![h] = @ + 1]
  BY DEF EnterBlock
<1> DEFINE f == [block |-> k, arm |-> "tasks", next |-> 1, failed |-> NoTask,
            listAlive |-> TRUE, alive |-> TRUE, over |-> FALSE, left |-> m,
            entry |-> n, coord |-> Shared(s) /\ k \notin Looped,
            saved |-> NoTask]
<1>3. Standing("call", k, s, res[h], verdict[h], failedVar[h], t) /\ n \in Nat /\ s \in Seq(FrameType)
  BY <1>2 DEF Walker, WalkTypeOK
<1>4. k \in Tasks /\ k \in Nat /\ Size[k] \in Nat \ {0}
  <2>1. "call" \in {"call", "return"}
    OBVIOUS
  <2>2. k \in Tasks
    BY <1>3, <2>1, AtTask DEF Outermost
  <2> QED BY <2>2, Numbers
<1>5. Entered(s) /\ n <= k /\ (Shared(s) => n = k)
  BY <1>2 DEF Counted
<1>6. f \in FrameType
  <2>1. m \in 0 .. MaxItems + 1
    BY TreeAssumption
  <2>2. (Shared(s) /\ k \notin Looped) \in BOOLEAN
    OBVIOUS
  <2> HIDE DEF s, k, n
  <2> QED BY <1>3, <1>4, <2>1, <2>2 DEF FrameType, Arms
<1>7. Shared(s) /\ k \notin Looped => Unlooped(k)
  <2>1. Control("call", k, s, res[h], verdict[h], t) /\ "call" \in {"call", "return"}
    BY <1>3 DEF Standing
  <2> HIDE DEF s, k
  <2> QED BY <1>5, <2>1, SharedUnlooped
<1>8. f.block = k /\ f.entry = n /\ (f.coord <=> Shared(s) /\ k \notin Looped)
  OBVIOUS
<1>9. ctl'[h] = "iterate" /\ stack'[h] = <<f>> \o s /\ slot'[h] = n + 1
  BY <1>1, <1>2 DEF WalkTypeOK
<1> HIDE DEF f, s, k, n
<1>10. Entered(<<f>> \o s) /\ Head(<<f>> \o s) = f
  BY <1>3, <1>5, <1>6, <1>7, <1>8, EnteredPushed, OnTop
<1>11. n + 1 <= k + Size[k]
  BY <1>3, <1>4, <1>5
<1> QED BY <1>8, <1>9, <1>10, <1>11 DEF Counted

\* The choice an iteration begins with.
LEMMA IterateOr ==
  ASSUME NEW h, Iterate(h)
  PROVE  /\ ctl[h] = "iterate" /\ Top(h).left > 0
         /\ slot' = [slot EXCEPT ![h] = Top(h).entry + 1]
         /\ \/ /\ Replace(h, [StartArm(Top(h), "tasks") EXCEPT !.left = @ - 1])
               /\ ctl' = [ctl EXCEPT ![h] = "list"]
            \/ /\ Top(h).block \in Looped
               /\ \E w \in {"skipped", "error"} :
                    Replace(h, [Top(h) EXCEPT !.left = @ - 1, !.over = @ \/ w = "error"])
               /\ UNCHANGED ctl
<1>1. ctl[h] = "iterate" /\ Top(h).left > 0 /\ slot' = [slot EXCEPT ![h] = Top(h).entry + 1]
  BY DEF Iterate
<1>2. PICK w \in {"run"} \cup (IF Top(h).block \in Looped
                              THEN May[h, Top(h).block] \cap {"skipped", "error"} ELSE {}) :
        IF w = "run"
          THEN /\ Replace(h, [StartArm(Top(h), "tasks") EXCEPT !.left = @ - 1])
               /\ ctl' = [ctl EXCEPT ![h] = "list"]
          ELSE /\ Replace(h, [Top(h) EXCEPT !.left = @ - 1, !.over = @ \/ w = "error"])
               /\ UNCHANGED ctl
  BY DEF Iterate
<1>3. w # "run" => Top(h).block \in Looped /\ w \in {"skipped", "error"}
  OBVIOUS
<1> QED BY <1>1, <1>2, <1>3

\* The iterations of a block begin at its own slot.
LEMMA CountsIteration ==
  ASSUME NEW h \in Hosts, NEW t, Outermost(t), WalkTypeOK,
         Walker(h, t), Counted(ctl[h], cur[h], stack[h], slot[h]), Iterate(h)
  PROVE  Counted(ctl'[h], cur'[h], stack'[h], slot'[h])
<1> DEFINE f == Top(h)
<1>a. ctl[h] = "iterate" /\ Top(h).left > 0 /\ slot' = [slot EXCEPT ![h] = Top(h).entry + 1]
  BY IterateOr
<1>1. /\ ctl[h] = "iterate" /\ f.left > 0 /\ slot' = [slot EXCEPT ![h] = f.entry + 1]
  BY <1>a
<1>2. /\ stack[h] # <<>> /\ Entered(stack[h]) /\ f \in FrameType /\ f.block \in Nat /\ f.entry \in Nat
      /\ Size[f.block] \in Nat \ {0} /\ f.entry <= f.block /\ (f.coord => f.entry = f.block)
  BY <1>1, CountedInBlock
<1>3. slot'[h] = f.entry + 1 /\ f.entry + 1 \in Nat
  BY <1>1, <1>2 DEF WalkTypeOK
<1>4. f.left - 1 \in 0 .. MaxItems + 1 /\ f.over \in BOOLEAN
  BY <1>1, <1>2, TreeAssumption DEF FrameType
<1>5. CASE /\ Replace(h, [StartArm(f, "tasks") EXCEPT !.left = @ - 1])
           /\ ctl' = [ctl EXCEPT ![h] = "list"]
  <2> DEFINE g == [StartArm(f, "tasks") EXCEPT !.left = @ - 1]
  <2>1. /\ g \in FrameType /\ g.block = f.block /\ g.coord = f.coord /\ g.entry = f.entry
        /\ g.arm = "tasks" /\ g.next = 1
    BY <1>2, <1>4 DEF StartArm, FrameType, Arms
  <2>2. ctl'[h] = "list" /\ Replace(h, g)
    BY <1>5 DEF WalkTypeOK
  <2> HIDE DEF g
  <2>3. Entered(stack'[h]) /\ Head(stack'[h]) = g
    BY <1>2, <2>1, <2>2, TopOf
  <2>4. Amid(g, f.entry + 1)
    <3>1. f.entry + 1 <= f.block + 1 /\ (f.coord => f.entry + 1 = f.block + 1)
      BY <1>2
    <3> QED BY <1>3, <2>1, <3>1, AmidFirst
  <2> QED BY <1>3, <2>2, <2>3, <2>4 DEF Counted
<1>6. CASE /\ f.block \in Looped
           /\ \E w \in {"skipped", "error"} : Replace(h, [f EXCEPT !.left = @ - 1, !.over = @ \/ w = "error"])
           /\ UNCHANGED ctl
  <2>1. PICK w \in {"skipped", "error"} : Replace(h, [f EXCEPT !.left = @ - 1, !.over = @ \/ w = "error"])
    BY <1>6
  <2> DEFINE g == [f EXCEPT !.left = @ - 1, !.over = @ \/ w = "error"]
  <2>2. g \in FrameType /\ g.block = f.block /\ g.coord = f.coord /\ g.entry = f.entry
    <3>1. (f.over \/ w = "error") \in BOOLEAN
      OBVIOUS
    <3> QED BY <1>2, <1>4, <3>1 DEF FrameType
  <2>3. ctl'[h] = "iterate" /\ Replace(h, g)
    BY <1>1, <1>6, <2>1
  <2> HIDE DEF g
  <2>4. Entered(stack'[h]) /\ Head(stack'[h]) = g
    BY <1>2, <2>2, <2>3, TopOf
  <2>5. f.entry + 1 <= f.block + Size[f.block]
    <3> HIDE DEF f
    <3> QED BY <1>2
  <2> QED BY <1>3, <2>2, <2>3, <2>4, <2>5 DEF Counted
<1>7. \/ /\ Replace(h, [StartArm(f, "tasks") EXCEPT !.left = @ - 1])
         /\ ctl' = [ctl EXCEPT ![h] = "list"]
      \/ /\ f.block \in Looped
         /\ \E w \in {"skipped", "error"} : Replace(h, [f EXCEPT !.left = @ - 1, !.over = @ \/ w = "error"])
         /\ UNCHANGED ctl
  BY IterateOr
<1> QED BY <1>5, <1>6, <1>7

\* The next task of a list.
LEMMA CountedInList ==
  ASSUME NEW h \in Hosts, NEW t, Outermost(t), WalkTypeOK, Walker(h, t),
         Counted(ctl[h], cur[h], stack[h], slot[h]), ctl[h] \in {"list", "skip"},
         Top(h).next <= Len(List(Top(h))),
         NEW g, g = [Top(h) EXCEPT !.next = @ + 1]
  PROVE  /\ g \in FrameType /\ g.block = Top(h).block /\ g.entry = Top(h).entry /\ g.coord = Top(h).coord
         /\ g.next - 1 \in 1 .. Len(List(g)) /\ TaskOf(g) = List(Top(h))[Top(h).next]
         /\ TaskOf(g) \in Tasks /\ TaskOf(g) \in Subtree(t) /\ slot[h] <= TaskOf(g)
         /\ g.coord => slot[h] = TaskOf(g)
<1> DEFINE f == Top(h)
<1>1. /\ stack[h] # <<>> /\ stack[h] \in Seq(FrameType) /\ f = Head(stack[h]) /\ f \in FrameType
      /\ f.block \in Tasks /\ f.block \in Subtree(t)
      /\ Len(List(f)) \in Nat /\ f.next \in 1 .. Len(List(f)) + 1 /\ f.next \in Nat /\ slot[h] \in Nat
  BY CountedInBlock
<1>2. Amid(f, slot[h])
  BY <1>1 DEF Counted
<1>3. f.next <= Len(List(f)) /\ g = [f EXCEPT !.next = f.next + 1]
  OBVIOUS
<1> HIDE DEF f
<1>4. f.next \in 1 .. Len(List(f))
  BY <1>1, <1>3
<1>5. /\ g \in FrameType /\ g.block = f.block /\ g.entry = f.entry /\ g.coord = f.coord
      /\ g.next = f.next + 1 /\ g.arm = f.arm /\ List(g) = List(f)
  <2>1. f \in FrameType /\ f.next + 1 \in Nat
    BY <1>1
  <2>2. /\ g \in FrameType /\ g.block = f.block /\ g.entry = f.entry /\ g.coord = f.coord
        /\ g.next = f.next + 1 /\ g.arm = f.arm
    BY <1>3, <2>1 DEF FrameType
  <2> QED BY <2>2 DEF List
<1>6. g.next - 1 = f.next /\ g.next - 1 \in 1 .. Len(List(g))
  BY <1>1, <1>4, <1>5
<1>7. TaskOf(g) = List(f)[f.next]
  BY <1>5, <1>6 DEF TaskOf
<1>8. /\ List(f)[f.next] \in Tasks /\ slot[h] <= List(f)[f.next]
      /\ f.coord => slot[h] = List(f)[f.next]
  BY <1>1, <1>2, <1>4, NextUp
<1>9. TaskOf(g) \in Subtree(t)
  <2>1. PICK b \in Tasks, a \in Arms : b = f.block /\ a = f.arm
    BY <1>1 DEF FrameType
  <2>2. PICK i \in 1 .. Len(Arm[b][a]) : TaskOf(g) = Arm[b][a][i]
    BY <1>4, <1>7, <2>1 DEF List
  <2>3. Arm[b][a][i] \in Subtree(b)
    BY ChildNested
  <2> QED BY <1>1, <2>1, <2>2, <2>3, Deeper DEF Outermost, Root
<1> QED BY <1>5, <1>6, <1>7, <1>8, <1>9 DEF f

\* A task of a list is passed over.
LEMMA CountsPast ==
  ASSUME NEW h \in Hosts, NEW t, Outermost(t), Subtree(t) \subseteq DOMAIN cells, WalkTypeOK,
         Walker(h, t), Counted(ctl[h], cur[h], stack[h], slot[h]),
         ctl[h] \in {"list", "skip"}, Top(h).next <= Len(List(Top(h))), ctl' = ctl,
         Replace(h, [Top(h) EXCEPT !.next = @ + 1]),
         slot' = [slot EXCEPT ![h] = @ + SizeAt(stack[h], @)]
  PROVE  Counted(ctl'[h], cur'[h], stack'[h], slot'[h])
<1>1. PICK g : g = [Top(h) EXCEPT !.next = @ + 1]
  OBVIOUS
<1>2. /\ g \in FrameType /\ g.block = Top(h).block /\ g.entry = Top(h).entry /\ g.coord = Top(h).coord
      /\ g.next - 1 \in 1 .. Len(List(g))
      /\ TaskOf(g) \in Tasks /\ TaskOf(g) \in Subtree(t) /\ slot[h] <= TaskOf(g)
      /\ g.coord => slot[h] = TaskOf(g)
  BY <1>1, CountedInList
<1>3. stack[h] # <<>> /\ Entered(stack[h]) /\ Top(h) = Head(stack[h]) /\ slot[h] \in Nat
  BY CountedInBlock
<1>4. Entered(stack'[h]) /\ Head(stack'[h]) = g
  <2>1. Replace(h, g)
    BY <1>1
  <2> QED BY <1>2, <1>3, <2>1, TopOf
<1>5. PICK k \in Tasks : k = TaskOf(g)
  BY <1>2
<1>6. PICK m : m = slot[h] + SizeAt(stack[h], slot[h])
  OBVIOUS
<1>7. Shared(stack[h]) <=> g.coord
  BY <1>2, <1>3 DEF Shared
<1>8. m \in Nat /\ m <= k + Size[k] /\ (g.coord => m = k + Size[k])
  <2>1. k \in Nat /\ Size[k] \in Nat \ {0} /\ slot[h] <= k
    BY <1>2, <1>5, Numbers
  <2>2. CASE Shared(stack[h])
    <3>1. slot[h] = k /\ SizeAt(stack[h], k) = Size[k]
      BY <1>2, <1>5, <1>7, <2>2, Worth
    <3> QED BY <1>6, <2>1, <3>1
  <2>3. CASE ~Shared(stack[h])
    <3>1. m = slot[h] + 1
      BY <1>6, <2>3, Worth, <1>2
    <3> QED BY <1>3, <1>7, <2>1, <2>3, <3>1
  <2> QED BY <2>2, <2>3
<1>9. Amid(g, m)
  BY <1>2, <1>5, <1>8, AmidAfter
<1>10. ctl'[h] = ctl[h] /\ slot'[h] = m
  BY <1>6 DEF WalkTypeOK
<1> QED BY <1>4, <1>9, <1>10 DEF Counted

\* The next task of a list is dispatched, or passed over.
LEMMA CountsNext ==
  ASSUME NEW h \in Hosts, NEW t, Outermost(t), Subtree(t) \subseteq DOMAIN cells, WalkTypeOK,
         Walker(h, t), Counted(ctl[h], cur[h], stack[h], slot[h]), NextInList(h)
  PROVE  Counted(ctl'[h], cur'[h], stack'[h], slot'[h])
<1> DEFINE k == List(Top(h))[Top(h).next]
<1>1. /\ ctl[h] = "list" /\ Top(h).next <= Len(List(Top(h)))
      /\ Replace(h, [Top(h) EXCEPT !.next = @ + 1])
      /\ IF Kind[k] = "meta"
           THEN slot' = [slot EXCEPT ![h] = @ + SizeAt(stack[h], @)] /\ UNCHANGED <<ctl, cur>>
           ELSE ctl' = [ctl EXCEPT ![h] = "call"] /\ cur' = [cur EXCEPT ![h] = k] /\ UNCHANGED slot
  BY DEF NextInList
<1>2. CASE Kind[k] = "meta"
  <2>1. ctl[h] \in {"list", "skip"}
    BY <1>1
  <2> QED BY <1>1, <1>2, <2>1, CountsPast
<1>3. CASE Kind[k] # "meta"
  <2>1. PICK g : g = [Top(h) EXCEPT !.next = @ + 1]
    OBVIOUS
  <2>2. /\ g \in FrameType /\ g.block = Top(h).block /\ g.entry = Top(h).entry /\ g.coord = Top(h).coord
        /\ TaskOf(g) = k /\ slot[h] <= k /\ (g.coord => slot[h] = k)
    <3>1. ctl[h] \in {"list", "skip"}
      BY <1>1
    <3> QED BY <1>1, <2>1, <3>1, CountedInList
  <2>3. stack[h] # <<>> /\ Entered(stack[h])
    BY <1>1, CountedInBlock
  <2>4. Entered(stack'[h]) /\ (Shared(stack'[h]) <=> g.coord)
    <3>1. Replace(h, g)
      BY <1>1, <2>1
    <3> QED BY <2>2, <2>3, <3>1, TopOf
  <2>5. ctl'[h] = "call" /\ cur'[h] = k /\ slot'[h] = slot[h]
    BY <1>1, <1>3 DEF WalkTypeOK
  <2> QED BY <2>2, <2>4, <2>5 DEF Counted
<1> QED BY <1>2, <1>3

\* A list ends.
LEMMA CountsStop ==
  ASSUME NEW h \in Hosts, WalkTypeOK, Counted(ctl[h], cur[h], stack[h], slot[h]), EndOfList(h)
  PROVE  Counted(ctl'[h], cur'[h], stack'[h], slot'[h])
<1>1. ctl[h] \in {"list", "skip"} /\ ctl'[h] = "armDone" /\ cur' = cur /\ stack' = stack /\ slot' = slot
  BY DEF EndOfList, WalkTypeOK
<1> QED BY <1>1 DEF Counted

\* A task returns to the list it is in.
LEMMA CountsBack ==
  ASSUME NEW h \in Hosts, NEW t, Outermost(t), WalkTypeOK,
         Walker(h, t), Counted(ctl[h], cur[h], stack[h], slot[h]), ChildReturns(h)
  PROVE  Counted(ctl'[h], cur'[h], stack'[h], slot'[h])
<1> DEFINE f == Top(h)
           r == res[h]
           g == [f EXCEPT !.listAlive = @ /\ r.alive, !.alive = @ /\ r.alive,
                          !.failed = IF r.out = "failed" THEN cur[h] ELSE @]
<1>1. /\ ctl[h] = "return" /\ stack[h] # <<>> /\ Replace(h, g)
      /\ ctl'[h] \in {"skip", "list"} /\ UNCHANGED <<cur, slot>>
  <2>1. ctl' = [ctl EXCEPT ![h] = IF r.out = "failed" \/ ~(f.listAlive /\ r.alive) THEN "skip" ELSE "list"]
    BY DEF ChildReturns
  <2>2. ctl'[h] \in {"skip", "list"}
    <3>1. \A p \in BOOLEAN : (IF p THEN "skip" ELSE "list") \in {"skip", "list"}
      OBVIOUS
    <3> HIDE DEF f, r
    <3> QED BY <2>1, <3>1 DEF WalkTypeOK
  <2> QED BY <2>2 DEF ChildReturns
<1>2. /\ Control("return", cur[h], stack[h], r, verdict[h], t)
      /\ stack[h] \in Seq(FrameType) /\ Entered(stack[h]) /\ f = Head(stack[h]) /\ f \in FrameType
      /\ Len(List(f)) \in Nat /\ f.next \in 1 .. Len(List(f)) + 1 /\ f.next \in Nat
      /\ slot[h] \in Nat
  BY <1>1, CountedInBlock
<1>3. Head(stack[h]).next > 1 /\ cur[h] = TaskOf(Head(stack[h]))
  BY <1>1, <1>2 DEF Control
<1>4. r.alive \in BOOLEAN /\ cur[h] \in Tasks \cup {NoTask}
  BY DEF WalkTypeOK
<1>5. /\ g \in FrameType /\ g.block = f.block /\ g.entry = f.entry /\ g.coord = f.coord
      /\ g.next = f.next /\ g.arm = f.arm
  <2>1. (f.listAlive /\ r.alive) \in BOOLEAN /\ (f.alive /\ r.alive) \in BOOLEAN
    OBVIOUS
  <2>2. (IF r.out = "failed" THEN cur[h] ELSE f.failed) \in Tasks \cup {NoTask}
    BY <1>2, <1>4 DEF FrameType
  <2>3. PICK la \in BOOLEAN, al \in BOOLEAN, fl \in Tasks \cup {NoTask} :
          /\ la = (f.listAlive /\ r.alive) /\ al = (f.alive /\ r.alive)
          /\ fl = (IF r.out = "failed" THEN cur[h] ELSE f.failed)
    BY <2>1, <2>2
  <2>4. g = [f EXCEPT !.listAlive = la, !.alive = al, !.failed = fl]
    BY <2>3
  <2> HIDE DEF g
  <2> QED BY <1>2, <2>4 DEF FrameType
<1> HIDE DEF g, f, r
<1>6. Entered(stack'[h]) /\ Head(stack'[h]) = g
  BY <1>1, <1>2, <1>5, TopOf DEF f
<1>7. List(g) = List(f) /\ TaskOf(g) = cur[h] /\ g.next - 1 \in 1 .. Len(List(g))
  <2>1. List(g) = List(f)
    BY <1>5 DEF List
  <2>2. f.next > 1
    BY <1>2, <1>3
  <2>3. TaskOf(g) = cur[h]
    BY <1>2, <1>3, <1>5, <2>1 DEF TaskOf
  <2>4. f.next - 1 \in 1 .. Len(List(f))
    BY <1>2, <2>2
  <2> QED BY <1>5, <2>1, <2>3, <2>4
<1>8. /\ slot[h] <= cur[h] + Size[cur[h]] /\ (g.coord => slot[h] = cur[h] + Size[cur[h]])
  BY <1>1, <1>2, <1>5 DEF Counted, Shared
<1>9. Amid(g, slot[h])
  BY <1>2, <1>5, <1>7, <1>8, AmidAfter
<1> QED BY <1>1, <1>6, <1>9 DEF Counted

\* The rescue arm follows the tasks.
LEMMA CountsRescue ==
  ASSUME NEW h \in Hosts, NEW t, Outermost(t), WalkTypeOK,
         Walker(h, t), Counted(ctl[h], cur[h], stack[h], slot[h]), BeginRescue(h)
  PROVE  Counted(ctl'[h], cur'[h], stack'[h], slot'[h])
<1> DEFINE f == Top(h)
           g == [StartArm(f, "rescue") EXCEPT !.saved = failedVar[h]]
<1>1. /\ ctl[h] = "armDone" /\ f.arm = "tasks" /\ Replace(h, g)
      /\ ctl' = [ctl EXCEPT ![h] = "list"] /\ UNCHANGED <<cur, slot>>
  BY DEF BeginRescue, NeedsRescue
<1>2. /\ Control("armDone", cur[h], stack[h], res[h], verdict[h], t)
      /\ stack[h] # <<>> /\ Entered(stack[h]) /\ f = Head(stack[h]) /\ f \in FrameType
      /\ Len(List(f)) \in Nat /\ f.next \in 1 .. Len(List(f)) + 1
  BY <1>1, CountedInBlock
<1>3. f.next = Len(List(f)) + 1
  <2>1. f.next > Len(List(f))
    BY <1>2 DEF Control
  <2> HIDE DEF f
  <2> QED BY <1>2, <2>1
<1>4. failedVar[h] \in Tasks \cup {NoTask}
  BY DEF WalkTypeOK
<1>5. /\ g \in FrameType /\ g.block = f.block /\ g.entry = f.entry /\ g.coord = f.coord
      /\ g.arm = "rescue" /\ g.next = 1
  <2> HIDE DEF f
  <2> QED BY <1>2, <1>4 DEF StartArm, FrameType, Arms
<1> HIDE DEF g
<1>6. Entered(stack'[h]) /\ Head(stack'[h]) = g
  <2>1. g.block = Top(h).block /\ g.entry = Top(h).entry /\ g.coord = Top(h).coord
    BY <1>5
  <2> QED BY <1>1, <1>2, <1>5, <2>1, TopOf
<1>7. Amid(f, slot[h])
  BY <1>1, <1>2 DEF Counted
<1>8. Amid(g, slot[h])
  <2> HIDE DEF f
  <2> QED BY <1>1, <1>2, <1>3, <1>5, <1>7, AmidNext
<1>9. ctl'[h] = "list"
  BY <1>1 DEF WalkTypeOK
<1> QED BY <1>1, <1>6, <1>8, <1>9 DEF Counted

\* The always arm follows, or the iteration ends.
LEMMA CountsSettle ==
  ASSUME Straight, NEW h \in Hosts, NEW t, Outermost(t), WalkTypeOK,
         Walker(h, t), Counted(ctl[h], cur[h], stack[h], slot[h]), BeginAlways(h) \/ EndIteration(h)
  PROVE  Counted(ctl'[h], cur'[h], stack'[h], slot'[h])
<1> DEFINE f == Top(h)
<1>1. PICK a \in Arms, d \in {"list", "iterate"} :
        /\ ctl[h] = "armDone" /\ Replace(h, StartArm(Settle(f), a))
        /\ ctl' = [ctl EXCEPT ![h] = d] /\ UNCHANGED <<cur, slot>>
        /\ d = "list" => a = "always" /\ f.arm # "always" /\ Arm[f.block].always # <<>>
  <2>1. "always" \in Arms /\ "tasks" \in Arms
    BY DEF Arms
  <2> QED BY <2>1 DEF BeginAlways, EndIteration
<1> DEFINE g == StartArm(Settle(f), a)
<1>2. /\ Control("armDone", cur[h], stack[h], res[h], verdict[h], t)
      /\ stack[h] # <<>> /\ Entered(stack[h]) /\ f = Head(stack[h]) /\ f \in FrameType
      /\ Len(List(f)) \in Nat /\ f.next \in 1 .. Len(List(f)) + 1 /\ f.block \in Tasks
      /\ f.coord => Unlooped(f.block)
  BY <1>1, CountedInBlock
<1>3. /\ g \in FrameType /\ g.block = f.block /\ g.entry = f.entry /\ g.coord = f.coord
      /\ g.arm = a /\ g.next = 1
  <2> HIDE DEF f
  <2>1. g \in FrameType /\ g.block = f.block /\ g.coord = f.coord /\ g.arm = a /\ g.next = 1
    BY <1>2, Settled
  <2>2. g.entry = f.entry
    <3>1. (f.over \/ f.failed # NoTask) \in BOOLEAN
      OBVIOUS
    <3>2. PICK o \in BOOLEAN : o = (f.over \/ f.failed # NoTask)
      BY <3>1
    <3>3. Settle(f) = [f EXCEPT !.over = o]
      BY <3>2 DEF Settle
    <3>4. Settle(f) \in FrameType /\ Settle(f).entry = f.entry
      BY <1>2, <3>3 DEF FrameType
    <3> QED BY <3>4 DEF StartArm, FrameType
  <2> QED BY <2>1, <2>2
<1>4. Replace(h, g)
  BY <1>1
<1> HIDE DEF g
<1>5. Entered(stack'[h]) /\ Head(stack'[h]) = g
  <2>1. g.block = Top(h).block /\ g.entry = Top(h).entry /\ g.coord = Top(h).coord
    BY <1>3
  <2> QED BY <1>2, <1>3, <1>4, <2>1, TopOf
<1>6. Amid(f, slot[h])
  BY <1>1, <1>2 DEF Counted
<1>7. ctl'[h] = d /\ cur'[h] = cur[h] /\ slot'[h] = slot[h]
  BY <1>1 DEF WalkTypeOK
<1>8. CASE d = "list"
  <2>1. f.next = Len(List(f)) + 1
    <3>1. f.next > Len(List(f))
      BY <1>2 DEF Control
    <3> HIDE DEF f
    <3> QED BY <1>2, <3>1
  <2>2. f.arm = "tasks" \/ f.arm = "rescue"
    BY <1>1, <1>2, <1>8 DEF FrameType, Arms
  <2>3. f.coord => Arm[f.block].rescue = <<>>
    BY <1>1, <1>2, <1>8 DEF Straight
  <2>4. Amid(g, slot[h])
    <3>1. g.arm = "always"
      BY <1>1, <1>3, <1>8
    <3> HIDE DEF f
    <3> QED BY <1>2, <1>3, <1>6, <2>1, <2>2, <2>3, <3>1, AmidNext
  <2> QED BY <1>5, <1>7, <1>8, <2>4 DEF Counted
<1>9. CASE d = "iterate"
  BY <1>3, <1>5, <1>6, <1>7, <1>9 DEF Counted, Amid
<1> QED BY <1>8, <1>9

\* A block is left, past all its slots.
LEMMA CountsOut ==
  ASSUME NEW h \in Hosts, NEW t, Outermost(t), Subtree(t) \subseteq DOMAIN cells, WalkTypeOK,
         Walker(h, t), Counted(ctl[h], cur[h], stack[h], slot[h]), LeaveBlock(h)
  PROVE  Counted(ctl'[h], cur'[h], stack'[h], slot'[h])
<1> DEFINE f == Top(h)
<1>1. /\ ctl[h] = "iterate"
      /\ ctl' = [ctl EXCEPT ![h] = "return"] /\ cur' = [cur EXCEPT ![h] = f.block]
      /\ stack' = [stack EXCEPT ![h] = Tail(@)]
      /\ slot' = [slot EXCEPT ![h] = Compensated(Tail(stack[h]), f.entry, @)]
  BY DEF LeaveBlock
<1>2. /\ stack[h] # <<>> /\ stack[h] \in Seq(FrameType) /\ Entered(stack[h]) /\ f = Head(stack[h])
      /\ f.block \in Subtree(t) /\ f.entry \in Nat /\ f.entry <= f.block /\ slot[h] \in Nat
      /\ Shared(Tail(stack[h])) => f.entry = f.block
  BY <1>1, CountedInBlock
<1>3. slot[h] <= f.block + Size[f.block]
  BY <1>1, <1>2 DEF Counted
<1>4. /\ ctl'[h] = "return" /\ cur'[h] = f.block /\ stack'[h] = Tail(stack[h])
      /\ slot'[h] = Compensated(Tail(stack[h]), f.entry, slot[h])
  BY <1>1 DEF WalkTypeOK
<1>5. Entered(Tail(stack[h]))
  BY <1>2, EnteredPopped
<1> HIDE DEF f
<1>6. /\ Compensated(Tail(stack[h]), f.entry, slot[h]) <= f.block + Size[f.block]
      /\ Shared(Tail(stack[h])) => Compensated(Tail(stack[h]), f.entry, slot[h]) = f.block + Size[f.block]
  <2>1. PICK k \in Subtree(t), e \in Nat, n \in Nat : k = f.block /\ e = f.entry /\ n = slot[h]
    BY <1>2
  <2>2. e <= k /\ n <= k + Size[k] /\ (Shared(Tail(stack[h])) => e = k)
    BY <1>2, <1>3, <2>1
  <2>3. /\ Compensated(Tail(stack[h]), e, n) <= k + Size[k]
        /\ Shared(Tail(stack[h])) => Compensated(Tail(stack[h]), e, n) = k + Size[k]
    BY <2>2, Compensates
  <2> QED BY <2>1, <2>3
<1> QED BY <1>4, <1>5, <1>6 DEF Counted

\* Whatever a walker does in its subtree, its counter stays with the tasks.
LEMMA Counts ==
  ASSUME Straight, NEW h \in Hosts, NEW t, Outermost(t), Subtree(t) \subseteq DOMAIN cells, WalkTypeOK,
         Walker(h, t), Counted(ctl[h], cur[h], stack[h], slot[h]), NEW runner, WalkStep(h, runner)
  PROVE  Counted(ctl'[h], cur'[h], stack'[h], slot'[h])
<1>1. CASE RunLeaf(h) \/ RunOnceRunner(h) \/ RunOnceOther(h) \/ SkipBlock(h)
  BY <1>1, CountsEnd
<1>2. CASE EnterBlock(h)
  BY <1>2, CountsInto
<1>3. CASE Iterate(h)
  BY <1>3, CountsIteration
<1>4. CASE NextInList(h)
  BY <1>4, CountsNext
<1>5. CASE ChildReturns(h)
  BY <1>5, CountsBack
<1>6. CASE SkipNext(h)
  <2>1. /\ ctl[h] \in {"list", "skip"} /\ Top(h).next <= Len(List(Top(h)))
        /\ Replace(h, [Top(h) EXCEPT !.next = @ + 1])
        /\ slot' = [slot EXCEPT ![h] = @ + SizeAt(stack[h], @)] /\ ctl' = ctl
    BY <1>6 DEF SkipNext
  <2> QED BY <2>1, CountsPast
<1>7. CASE EndOfList(h)
  BY <1>7, CountsStop
<1>8. CASE BeginRescue(h)
  BY <1>8, CountsRescue
<1>9. CASE BeginAlways(h) \/ EndIteration(h)
  BY <1>9, CountsSettle
<1>10. CASE LeaveBlock(h)
  BY <1>10, CountsOut
<1> QED BY <1>1, <1>2, <1>3, <1>4, <1>5, <1>6, <1>7, <1>8, <1>9, <1>10 DEF WalkStep, BlockStep
=============================================================================
