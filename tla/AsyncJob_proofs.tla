--------------------------- MODULE AsyncJob_proofs ----------------------------
(***************************************************************************)
(* Safety of the async jobs for any number of walkers, jobs and chunks: one *)
(* verdict per job, no output lost, final answers, and job ids that are not *)
(* mixed up between walkers.                                               *)
(***************************************************************************)
EXTENDS AsyncJob, TLAPS

\* The entry of a job against its watcher: open while it selects, closed with
\* one verdict and all its output afterwards.
Open(e) == e \in Entries /\ ~e.finished /\ e.rc = "none" /\ e.error = "none"
Closed(e) == e \in Entries /\ e.finished /\ (e.rc = "none") # (e.error = "none")

EntryInv == \A j \in Ids :
  /\ watcher[j] = "none" => entry[j] = NoEntry /\ queue[j] = 0 /\ sent[j] = 0
  /\ watcher[j] = "select" => Open(entry[j]) /\ entry[j].out + queue[j] = sent[j]
  /\ watcher[j] = "over" =>
       Closed(entry[j]) /\ (entry[j].error # "timeout" => entry[j].out = sent[j])

\* A job in the table of the agent has an owner, and its number was drawn.
Numbered == \A j \in Ids :
  /\ owner[j] # Nobody => j < next
  /\ owner[j] = Nobody => watcher[j] = "none" /\ j \notin told
  /\ (agent = "up" /\ owner[j] # Nobody) => watcher[j] # "none"

\* A job somebody was told is finished is closed.
ToldClosed == \A j \in told : agent = "up" => watcher[j] = "over"

\* A number that is drawn belongs to one walker, before and after the start.
Drawn == \A w \in Walkers :
  /\ pc[w] = "lock" => seq[w] \in Ids /\ seq[w] < next /\ owner[seq[w]] = Nobody
  /\ pc[w] \in {"started", "poll", "judge"} => seq[w] \in Ids /\ owner[seq[w]] = w
  /\ \A v \in Walkers : (v # w /\ pc[v] = "lock" /\ pc[w] = "lock") => seq[v] # seq[w]

\* The inductive invariant.
IInv == TypeOK /\ EntryInv /\ Numbered /\ ToldClosed /\ Drawn /\ OwnJob

-----------------------------------------------------------------------------
\* The initial state satisfies the invariant.
LEMMA InitInv == Init => IInv
<1> SUFFICES ASSUME Init PROVE IInv
  OBVIOUS
<1> USE AsyncAssumption DEF Init, AllJobs
<1>1. TypeOK
  BY DEF TypeOK, Ids
<1>2. EntryInv /\ Numbered /\ ToldClosed /\ Drawn /\ OwnJob
  BY DEF EntryInv, Numbered, ToldClosed, Drawn, OwnJob, Ids
<1> QED
  BY <1>1, <1>2 DEF IInv

\* A step of the walkers that touches neither jobs nor numbers, other than
\* by ending a task, keeps the invariant.
LEMMA EndStep ==
  ASSUME IInv, NEW w \in Walkers, Ends(w), pc[w] # "idle",
         UNCHANGED <<next, agent, job, history>>,
         \/ jids' = jids
         \/ pc[w] = "started" /\ jids' = [jids EXCEPT ![w] = @ \cup {seq[w]}]
  PROVE  IInv'
<1> USE AsyncAssumption DEF IInv, job, history, Ends, Goto
<1>1. TypeOK'
  <2>1. jids' \in [Walkers -> SUBSET Ids]
    BY DEF TypeOK, Drawn
  <2>2. seq' \in [Walkers -> 0..MaxJobs] /\ reply' \in [Walkers -> Entries \cup {NoEntry}]
    BY DEF TypeOK
  <2>3. /\ pc' \in [Walkers -> {"idle", "lock", "started", "poll", "judge"}]
        /\ guard' \in Walkers \cup {Nobody} /\ lapsed' \subseteq Walkers
    BY DEF TypeOK
  <2> QED
    BY <2>1, <2>2, <2>3 DEF TypeOK
<1>2. EntryInv' /\ Numbered' /\ ToldClosed'
  BY DEF EntryInv, Numbered, ToldClosed
<1>3. Drawn' /\ OwnJob'
  BY DEF Drawn, OwnJob, TypeOK
<1> QED
  BY <1>1, <1>2, <1>3

\* The entry of a new job is open, that of a job in check mode closed.
LEMMA FreshEntry ==
  /\ Fresh \in Entries /\ Open(Fresh) /\ Fresh.out = 0
  /\ LET e == [Fresh EXCEPT !.finished = TRUE, !.rc = "zero"]
     IN  e \in Entries /\ Closed(e) /\ e.out = 0
<1>1. 0 \in 0..MaxChunks
  BY AsyncAssumption
<1>2. /\ Fresh \in Entries /\ ~Fresh.finished /\ Fresh.rc = "none" /\ Fresh.error = "none"
      /\ Fresh.out = 0
  BY <1>1 DEF Fresh, Entries
<1> QED
  BY <1>2 DEF Open, Closed, Entries

\* Every step of a walker preserves the invariant.
LEMMA WalkerInv ==
  ASSUME IInv, NEW w \in Walkers,
         Draw(w) \/ WalkerStep(w) \/ Lapse(w) \/ AsksStatus(w)
  PROVE  IInv'
<1> USE AsyncAssumption DEF IInv, job, history, controller
<1>1. CASE Draw(w)
  <2> USE <1>1 DEF Draw, Goto
  <2>1. TypeOK'
    <3>1. /\ next' \in 1..(MaxJobs + 1) /\ seq' \in [Walkers -> 0..MaxJobs]
          /\ pc' \in [Walkers -> {"idle", "lock", "started", "poll", "judge"}]
      BY DEF TypeOK, Ids
    <3> QED
      BY <3>1 DEF TypeOK
  <2>2. next' = next + 1 /\ next \in Nat /\ owner[next] = Nobody
    BY DEF TypeOK, Numbered, Ids
  <2>3. EntryInv' /\ Numbered' /\ ToldClosed' /\ OwnJob'
    BY <2>2 DEF EntryInv, Numbered, ToldClosed, OwnJob, TypeOK, Ids
  <2>4. Drawn'
    BY <2>2 DEF Drawn, TypeOK, Ids
  <2> QED
    BY <2>1, <2>3, <2>4
<1>2. CASE Start(w)
  <2> USE <1>2 DEF Start, RunStart, Goto
  <2> DEFINE s == seq[w]
  <2>1. s \in Ids /\ owner[s] = Nobody /\ watcher[s] = "none" /\ s \notin told /\ s < next
    BY DEF Drawn, Numbered
  <2>2. /\ watcher'[s] = "select" => entry'[s] = Fresh
        /\ watcher'[s] # "select" =>
             watcher'[s] = "over" /\ entry'[s] = [Fresh EXCEPT !.finished = TRUE, !.rc = "zero"]
    BY <2>1 DEF TypeOK
  <2>3. \A j \in Ids : j # s => entry'[j] = entry[j] /\ watcher'[j] = watcher[j] /\ owner'[j] = owner[j]
    BY <2>1 DEF TypeOK
  <2>4. owner'[s] = w
    BY <2>1 DEF TypeOK
  <2>5. TypeOK'
    <3>1. entry' \in [Ids -> Entries \cup {NoEntry}] /\ watcher' \in [Ids -> {"none", "select", "over"}]
      BY FreshEntry DEF TypeOK
    <3>2. /\ pc' \in [Walkers -> {"idle", "lock", "started", "poll", "judge"}]
          /\ guard' \in Walkers \cup {Nobody} /\ owner' \in [Ids -> Walkers \cup {Nobody}]
      BY DEF TypeOK
    <3> QED
      BY <3>1, <3>2 DEF TypeOK
  <2>6. EntryInv'
    <3>1. queue[s] = 0 /\ sent[s] = 0
      BY <2>1 DEF EntryInv
    <3>2. ASSUME NEW j \in Ids, j # s PROVE EntryInv!(j)'
      BY <2>3, <3>2 DEF EntryInv
    <3>3. queue'[s] = 0 /\ sent'[s] = 0 /\ s \in Ids
      BY <3>1, <2>1
    <3>4. EntryInv!(s)'
      <4>1. CASE watcher'[s] = "select"
        BY <2>2, <3>3, <4>1, FreshEntry
      <4>2. CASE watcher'[s] # "select"
        BY <2>2, <3>3, <4>2, FreshEntry
      <4> QED
        BY <4>1, <4>2
    <3> QED
      BY <3>2, <3>4 DEF EntryInv
  <2>7. Numbered' /\ ToldClosed'
    BY <2>1, <2>2, <2>3, <2>4 DEF Numbered, ToldClosed, TypeOK
  <2>8. Drawn'
    BY <2>1, <2>3, <2>4 DEF Drawn, TypeOK
  <2>9. OwnJob'
    BY <2>1, <2>3 DEF OwnJob, TypeOK
  <2> QED
    BY <2>5, <2>6, <2>7, <2>8, <2>9
<1>3. CASE FireAndForget(w)
  BY <1>3, EndStep DEF FireAndForget
<1>4. CASE BadPoll(w)
  BY <1>4, EndStep DEF BadPoll
<1>5. CASE BeginPolling(w)
  <2> USE <1>5 DEF BeginPolling, Goto
  <2>1. TypeOK'
    BY DEF TypeOK
  <2>2. EntryInv' /\ Numbered' /\ ToldClosed' /\ OwnJob'
    BY DEF EntryInv, Numbered, ToldClosed, OwnJob
  <2>3. Drawn'
    BY DEF Drawn, TypeOK
  <2> QED
    BY <2>1, <2>2, <2>3
<1>6. CASE Poll(w)
  <2> USE <1>6 DEF Poll, RunStatus, Goto
  <2>1. seq[w] \in Ids /\ watcher[seq[w]] # "none" /\ owner[seq[w]] # Nobody
    BY DEF Drawn, Numbered
  <2>2. TypeOK'
    BY <2>1 DEF TypeOK
  <2>3. EntryInv' /\ OwnJob'
    BY DEF EntryInv, OwnJob
  <2>4. entry[seq[w]].finished => watcher[seq[w]] = "over"
    BY <2>1 DEF EntryInv, Open, TypeOK
  <2>5. Numbered' /\ ToldClosed'
    BY <2>1, <2>4 DEF Numbered, ToldClosed
  <2>6. Drawn'
    BY DEF Drawn, TypeOK
  <2> QED
    BY <2>2, <2>3, <2>5, <2>6
<1>7. CASE Judge(w)
  <2>1. CASE Ends(w)
    BY <1>7, <2>1, EndStep DEF Judge
  <2>2. CASE ~Ends(w)
    <3> USE <1>7, <2>2 DEF Judge, Goto
    <3>1. TypeOK'
      BY DEF TypeOK
    <3>2. EntryInv' /\ Numbered' /\ ToldClosed' /\ OwnJob'
      BY DEF EntryInv, Numbered, ToldClosed, OwnJob
    <3>3. Drawn'
      BY DEF Drawn, TypeOK
    <3> QED
      BY <3>1, <3>2, <3>3
  <2> QED
    BY <2>1, <2>2
<1>8. CASE Broken(w)
  BY <1>8, EndStep DEF Broken
<1>9. CASE Lapse(w)
  <2> USE <1>9 DEF Lapse
  <2>1. TypeOK'
    BY DEF TypeOK
  <2>2. EntryInv' /\ Numbered' /\ ToldClosed' /\ OwnJob' /\ Drawn'
    BY DEF EntryInv, Numbered, ToldClosed, OwnJob, Drawn
  <2> QED
    BY <2>1, <2>2
<1>10. CASE AsksStatus(w)
  <2> USE <1>10 DEF AsksStatus, RunStatus
  <2>1. PICK j \in jids[w] : told' = IF entry[j].finished THEN told \cup {j} ELSE told
    OBVIOUS
  <2>2. j \in Ids /\ watcher[j] # "none" /\ owner[j] # Nobody
    BY <2>1 DEF OwnJob, Numbered, TypeOK
  <2>3. TypeOK'
    BY <2>1, <2>2 DEF TypeOK
  <2>4. EntryInv' /\ OwnJob' /\ Drawn'
    BY DEF EntryInv, OwnJob, Drawn
  <2>5. entry[j].finished => watcher[j] = "over"
    BY <2>2 DEF EntryInv, Open, TypeOK
  <2>6. Numbered' /\ ToldClosed'
    BY <2>1, <2>2, <2>5 DEF Numbered, ToldClosed
  <2> QED
    BY <2>3, <2>4, <2>6
<1> QED
  BY <1>1, <1>2, <1>3, <1>4, <1>5, <1>6, <1>7, <1>8, <1>9, <1>10 DEF WalkerStep

-----------------------------------------------------------------------------
\* A step of the agent on one job keeps the invariant if it keeps the types
\* and leaves that job open or closed.
LEMMA JobStep ==
  ASSUME IInv, NEW j \in Ids, Watches(j), UNCHANGED <<controller, agent, history>>,
         TypeOK',
         \A i \in Ids : i # j => /\ entry'[i] = entry[i] /\ watcher'[i] = watcher[i]
                                 /\ queue'[i] = queue[i] /\ sent'[i] = sent[i],
         \/ /\ watcher'[j] = "select"
            /\ Open(entry'[j]) /\ entry'[j].out + queue'[j] = sent'[j]
         \/ /\ watcher'[j] = "over"
            /\ Closed(entry'[j]) /\ (entry'[j].error # "timeout" => entry'[j].out = sent'[j])
  PROVE  IInv'
<1> USE AsyncAssumption DEF IInv, controller, history, Watches
<1>1. EntryInv'
  BY DEF EntryInv
<1>2. Numbered' /\ ToldClosed'
  BY DEF Numbered, ToldClosed, TypeOK
<1>3. Drawn' /\ OwnJob'
  BY DEF Drawn, OwnJob
<1> QED
  BY <1>1, <1>2, <1>3

\* What the entry of a job becomes when it ends.
LEMMA EndsEntry ==
  ASSUME NEW j \in Ids, Open(entry[j]), NEW k \in Nat, entry[j].out + k <= MaxChunks,
         NEW r \in {"zero", "nonzero"}, NEW x \in {"timeout", "module", "internal"}
  PROVE  /\ [Finish(j, k) EXCEPT !.error = x] \in Entries
         /\ Closed([Finish(j, k) EXCEPT !.error = x])
         /\ [Finish(j, k) EXCEPT !.error = x].error = x
         /\ [Finish(j, k) EXCEPT !.error = x].out = entry[j].out + k
         /\ [Finish(j, k) EXCEPT !.rc = r] \in Entries
         /\ Closed([Finish(j, k) EXCEPT !.rc = r])
         /\ [Finish(j, k) EXCEPT !.rc = r].out = entry[j].out + k
<1> DEFINE g == Finish(j, k)
<1>1. entry[j].out + k \in 0..MaxChunks
  BY AsyncAssumption DEF Open, Entries
<1>2. /\ g \in Entries /\ g.finished /\ g.rc = "none" /\ g.error = "none"
      /\ g.out = entry[j].out + k
  BY <1>1 DEF Finish, Open, Entries
<1> HIDE DEF g
<1>3. /\ [g EXCEPT !.error = x] \in Entries /\ [g EXCEPT !.error = x].finished
      /\ [g EXCEPT !.error = x].rc = "none" /\ [g EXCEPT !.error = x].error = x
      /\ [g EXCEPT !.error = x].out = entry[j].out + k
  BY <1>2 DEF Entries
<1>4. /\ [g EXCEPT !.rc = r] \in Entries /\ [g EXCEPT !.rc = r].finished
      /\ [g EXCEPT !.rc = r].rc = r /\ [g EXCEPT !.rc = r].error = "none"
      /\ [g EXCEPT !.rc = r].out = entry[j].out + k
  BY <1>2 DEF Entries
<1> QED
  BY <1>3, <1>4 DEF g, Closed

\* Every step of the agent preserves the invariant.
LEMMA AgentInv ==
  ASSUME IInv,
         \/ \E j \in Ids : WatcherStep(j) \/ Expire(j) \/ CommandExits(j)
         \/ AgentGoes
  PROVE  IInv'
<1> USE AsyncAssumption
<1>1. ASSUME NEW j \in Ids, WatcherStep(j) \/ Expire(j) \/ CommandExits(j) PROVE IInv'
  <2>0. Watches(j)
    BY <1>1 DEF WatcherStep, Launch, Stash, Sends, Returns, ReturnsSilently, TimesOut,
       Expire, CommandExits
  <2> DEFINE e == entry[j]
  <2>a. /\ watcher[j] = "select" /\ e \in Entries /\ queue[j] \in 0..Capacity
        /\ sent[j] \in 0..MaxChunks /\ command[j] \in {"none", "running", "zero", "nonzero", "killed"}
    BY <2>0 DEF IInv, TypeOK, EntryInv, Open, Watches
  <2>b. Open(e) /\ e.out + queue[j] = sent[j] /\ e.out \in 0..MaxChunks
    BY <2>a DEF IInv, EntryInv, Open, Entries
  <2>t. TypeOK
    BY DEF IInv
  <2>1. CASE Launch(j)
    <3> USE <2>1 DEF Launch
    <3>1. TypeOK'
      BY <2>t DEF TypeOK, controller, history
    <3> QED
      BY <3>1, <2>a, <2>b, <2>0, JobStep
  <2>2. CASE Stash(j)
    <3>1. queue[j] - 1 \in 0..Capacity /\ e.out + 1 \in 0..MaxChunks
      BY <2>2, <2>a, <2>b DEF Stash
    <3> DEFINE f == [e EXCEPT !.out = e.out + 1]
    <3>2. entry' = [entry EXCEPT ![j] = f] /\ queue' = [queue EXCEPT ![j] = queue[j] - 1]
      BY <2>2 DEF Stash
    <3>3. f \in Entries /\ Open(f) /\ f.out = e.out + 1
      BY <3>1, <2>a, <2>b DEF Open, Entries
    <3>4. f.out + (queue[j] - 1) = sent[j]
      BY <2>a, <2>b, <3>3
    <3> HIDE DEF f
    <3>5. TypeOK'
      BY <2>2, <2>t, <3>1, <3>2, <3>3 DEF Stash, TypeOK, controller, history
    <3>6. entry'[j] = f /\ queue'[j] = queue[j] - 1
      BY <2>t, <3>2 DEF TypeOK
    <3>7. \A i \in Ids : i # j => entry'[i] = entry[i] /\ queue'[i] = queue[i]
      BY <2>t, <3>2 DEF TypeOK
    <3> QED
      BY <2>2, <3>3, <3>4, <3>5, <3>6, <3>7, <2>a, <2>0, JobStep DEF Stash
  <2>3. CASE Sends(j)
    <3>1. PICK k \in 1..Capacity : /\ sent[j] + k <= MaxChunks
                                   /\ sent' = [sent EXCEPT ![j] = sent[j] + k]
                                   /\ queue' = [queue EXCEPT ![j] = k]
      BY <2>3 DEF Sends
    <3>2. sent[j] + k \in 0..MaxChunks /\ k \in 0..Capacity /\ e.out + k = sent[j] + k
      BY <3>1, <2>3, <2>a, <2>b DEF Sends
    <3>3. TypeOK'
      BY <2>3, <2>t, <3>1, <3>2 DEF Sends, TypeOK, controller, history
    <3>4. sent'[j] = sent[j] + k /\ queue'[j] = k
      BY <2>t, <3>1 DEF TypeOK
    <3>5. \A i \in Ids : i # j => sent'[i] = sent[i] /\ queue'[i] = queue[i]
      BY <2>t, <3>1 DEF TypeOK
    <3> QED
      BY <2>3, <3>2, <3>3, <3>4, <3>5, <2>a, <2>b, <2>0, JobStep DEF Sends
  <2>4. CASE Returns(j) \/ ReturnsSilently(j) \/ TimesOut(j)
    <3> DEFINE Typed(f) == f \in Entries /\ Closed(f)
    <3>1. ASSUME NEW f, entry' = [entry EXCEPT ![j] = f], Typed(f),
                 NEW n \in 0..MaxChunks, sent' = [sent EXCEPT ![j] = n],
                 f.error # "timeout" => f.out = n,
                 UNCHANGED <<controller, agent, queue, expired, history>>,
                 watcher' = [watcher EXCEPT ![j] = "over"],
                 command' = [command EXCEPT ![j] = "none"]
          PROVE  IInv'
      <4>1. TypeOK'
        BY <3>1, <2>t DEF TypeOK, controller, history
      <4>2. entry'[j] = f /\ sent'[j] = n /\ watcher'[j] = "over"
        BY <3>1, <2>t DEF TypeOK
      <4>3. \A i \in Ids : i # j => /\ entry'[i] = entry[i] /\ watcher'[i] = watcher[i]
                                    /\ queue'[i] = queue[i] /\ sent'[i] = sent[i]
        BY <3>1, <2>t DEF TypeOK
      <4> QED
        BY <3>1, <4>1, <4>2, <4>3, <2>0, JobStep
    <3>2. sent = [sent EXCEPT ![j] = sent[j]]
      BY <2>t DEF TypeOK
    <3>3. CASE Returns(j)
      <4>1. PICK k \in 0..(Capacity - 1) :
              /\ sent[j] + k <= MaxChunks
              /\ sent' = [sent EXCEPT ![j] = sent[j] + k]
              /\ entry' = [entry EXCEPT ![j] = Terminal(j, Finish(j, k))]
        BY <3>3 DEF Returns
      <4>2. /\ sent[j] + k \in 0..MaxChunks /\ e.out + k = sent[j] + k /\ k \in Nat
            /\ command[j] \in {"none", "zero", "nonzero", "killed"}
        BY <4>1, <3>3, <2>a, <2>b DEF Returns
      <4> DEFINE f == Terminal(j, Finish(j, k))
      <4>3. Typed(f) /\ f.out = sent[j] + k
        <5>0. e.out + k <= MaxChunks
          BY <4>2
        <5>1. CASE command[j] \in {"none", "killed"}
          <6>1. f = [Finish(j, k) EXCEPT !.error = "module"]
            BY <5>1 DEF Terminal
          <6> HIDE DEF f
          <6> QED
            BY <6>1, <5>0, <4>2, <2>b, EndsEntry
        <5>2. CASE command[j] \in {"zero", "nonzero"}
          <6>1. f = [Finish(j, k) EXCEPT !.rc = command[j]]
            BY <5>2 DEF Terminal
          <6> HIDE DEF f
          <6> QED
            BY <6>1, <5>0, <5>2, <4>2, <2>b, EndsEntry
        <5> QED
          BY <5>1, <5>2, <4>2
      <4>4. entry' = [entry EXCEPT ![j] = f]
        BY <4>1
      <4> HIDE DEF f
      <4> QED
        BY <3>1, <3>3, <4>1, <4>2, <4>3, <4>4 DEF Returns
    <3>4. CASE ReturnsSilently(j)
      <4> DEFINE f == [Finish(j, 0) EXCEPT !.error = "internal"]
      <4>1. entry' = [entry EXCEPT ![j] = f]
        BY <3>4 DEF ReturnsSilently
      <4>2. e.out + 0 <= MaxChunks /\ e.out + 0 = sent[j]
        BY <3>4, <2>a, <2>b DEF ReturnsSilently
      <4>3. Typed(f) /\ f.out = sent[j]
        BY <4>2, <2>b, EndsEntry
      <4> HIDE DEF f
      <4> QED
        BY <3>1, <3>2, <3>4, <4>1, <4>3, <2>a DEF ReturnsSilently
    <3>5. CASE TimesOut(j)
      <4> DEFINE f == [Finish(j, 0) EXCEPT !.error = "timeout"]
      <4>1. entry' = [entry EXCEPT ![j] = f]
        BY <3>5 DEF TimesOut
      <4>2. e.out + 0 <= MaxChunks
        BY <2>b
      <4>3. Typed(f) /\ f.error = "timeout"
        BY <4>2, <2>b, EndsEntry
      <4> HIDE DEF f
      <4> QED
        BY <3>1, <3>2, <3>5, <4>1, <4>3, <2>a DEF TimesOut
    <3> QED
      BY <2>4, <3>3, <3>4, <3>5
  <2>5. CASE Expire(j)
    <3> USE <2>5 DEF Expire
    <3>1. TypeOK'
      BY <2>t DEF TypeOK, controller, history
    <3> QED
      BY <3>1, <2>a, <2>b, <2>0, JobStep
  <2>6. CASE CommandExits(j)
    <3>1. PICK c \in {"zero", "nonzero", "killed"} : command' = [command EXCEPT ![j] = c]
      BY <2>6 DEF CommandExits
    <3>2. TypeOK'
      BY <2>6, <3>1, <2>t DEF CommandExits, TypeOK, controller, history
    <3> QED
      BY <2>6, <3>2, <2>a, <2>b, <2>0, JobStep DEF CommandExits
  <2> QED
    BY <1>1, <2>1, <2>2, <2>3, <2>4, <2>5, <2>6 DEF WatcherStep
<1>2. CASE AgentGoes
  <2> USE <1>2 DEF AgentGoes, AllJobs, IInv, controller, history
  <2>1. TypeOK'
    BY DEF TypeOK
  <2>2. EntryInv'
    BY DEF EntryInv
  <2>3. Numbered' /\ ToldClosed' /\ Drawn' /\ OwnJob'
    BY DEF Numbered, ToldClosed, Drawn, OwnJob
  <2> QED
    BY <2>1, <2>2, <2>3
<1> QED
  BY <1>1, <1>2

\* Every step preserves the invariant.
LEMMA StepInv == IInv /\ [Next]_vars => IInv'
<1>1. ASSUME IInv, UNCHANGED vars PROVE IInv'
  BY <1>1 DEF IInv, vars, controller, job, history, TypeOK, EntryInv, Numbered,
     ToldClosed, Drawn, OwnJob
<1> QED
  BY <1>1, WalkerInv, AgentInv DEF Next

\* The invariant holds in every reachable state.
THEOREM Invariance == SafeSpec => []IInv
  BY InitInv, StepInv, PTL DEF SafeSpec

-----------------------------------------------------------------------------
\* The job table and the walkers keep their types, for any bounds.
THEOREM TypeCorrect == SafeSpec => []TypeOK
<1>1. IInv => TypeOK
  BY DEF IInv
<1> QED
  BY <1>1, Invariance, PTL

\* A finished job has an exit code or an error, never both, never neither:
\* the arms of the select exclude each other.
THEOREM VerdictUnique == SafeSpec => []OneVerdict
<1>1. IInv => OneVerdict
  BY DEF IInv, EntryInv, TypeOK, OneVerdict, Finished, Open, Closed
<1> QED
  BY <1>1, Invariance, PTL

\* A job that is not timed out keeps all the output its command sent.
THEOREM OutputComplete == SafeSpec => []FullOutput
<1>1. IInv => FullOutput
  BY DEF IInv, EntryInv, TypeOK, FullOutput, Finished, Open, Closed
<1> QED
  BY <1>1, Invariance, PTL

\* A registered job id names a job of the walker that registered it, however
\* many walkers start jobs on the agent.
THEOREM IdsOwned == SafeSpec => []OwnJob
<1>1. IInv => OwnJob
  BY DEF IInv
<1> QED
  BY <1>1, Invariance, PTL

\* Once a walker has been told that a job is finished, its entry is final.
THEOREM FinalAnswers == SafeSpec => AnswersFinal
<1>1. IInv /\ [Next]_vars => [agent' = "up" => \A j \in told : entry'[j] = entry[j]]_vars
  <2> SUFFICES ASSUME IInv, Next, agent' = "up", NEW j \in told PROVE entry'[j] = entry[j]
    OBVIOUS
  <2>1. j \in Ids /\ owner[j] # Nobody
    BY DEF IInv, Numbered, TypeOK
  <2>2. agent = "up"
    BY DEF Next, WalkerStep, WatcherStep, Draw, Start, FireAndForget, BadPoll, BeginPolling,
       Poll, Judge, Broken, Lapse, AsksStatus, Launch, Stash, Sends, Returns,
       ReturnsSilently, TimesOut, Expire, CommandExits, AgentGoes
  <2>3. watcher[j] = "over"
    BY <2>2 DEF IInv, ToldClosed
  <2>4. CASE entry' = entry
    BY <2>4
  <2>5. ASSUME NEW w \in Walkers, Start(w) PROVE entry'[j] = entry[j]
    <3>1. seq[w] # j
      BY <2>1, <2>5 DEF IInv, Drawn, Start
    <3> QED
      BY <2>1, <2>5, <3>1 DEF Start, RunStart, IInv, TypeOK
  <2>6. ASSUME NEW i \in Ids, Stash(i) \/ Returns(i) \/ ReturnsSilently(i) \/ TimesOut(i)
        PROVE  entry'[j] = entry[j]
    <3>1. i # j
      BY <2>3, <2>6 DEF Stash, Returns, ReturnsSilently, TimesOut, Watches
    <3> QED
      BY <2>1, <2>6, <3>1 DEF Stash, Returns, ReturnsSilently, TimesOut, IInv, TypeOK
  <2> QED
    BY <2>2, <2>4, <2>5, <2>6 DEF Next, WalkerStep, WatcherStep, Draw, FireAndForget, BadPoll,
       BeginPolling, Poll, Judge, Broken, Lapse, AsksStatus, Launch, Sends, Expire,
       CommandExits, AgentGoes, job
<1> QED
  BY <1>1, Invariance, PTL DEF SafeSpec, AnswersFinal

\* The job table tells the truth to the walker that asks, for any number of
\* walkers and jobs: one verdict, all the output, the job it started.
THEOREM TableTrue == SafeSpec => []JobsTrue
<1>1. TypeOK /\ OneVerdict /\ FullOutput /\ OwnJob <=> JobsTrue
  BY DEF JobsTrue
<1> QED
  BY <1>1, TypeCorrect, VerdictUnique, OutputComplete, IdsOwned, PTL
=============================================================================
