----------------------------- MODULE ReportPush -----------------------------
(***************************************************************************)
(* The HTTP report sink (report_http.rs): `HttpReporter` hands the results *)
(* of a run to a background worker over an unbounded channel; the worker   *)
(* batches them, posts each batch with bounded retries, renews the lease   *)
(* of the run and, on the Finalize marker, flushes and posts the verdict.  *)
(* The server and the network are an environment that may refuse a         *)
(* request, be busy, lose it, or handle it and lose the answer.            *)
(*                                                                         *)
(* RunLoop.tla extends this module with the run that produces the results. *)
(***************************************************************************)
EXTENDS Integers, Sequences, SequencesExt, FiniteSets

CONSTANTS
  BatchMax,    \* BATCH_MAX
  MaxRetries,  \* MAX_RETRIES
  Answers      \* what may become of a request; a subset of AllAnswers

AllAnswers == {"ok", "refused", "busy", "lost", "unanswered"}

ASSUME PushAssumption ==
  BatchMax \in Nat \ {0} /\ MaxRetries \in Nat /\ Answers \subseteq AllAnswers

VARIABLES
  seq,       \* HttpReporter::the sequence number of the next item
  chan,      \* the channel to the worker: items and the Finalize marker
  worker,    \* "off" | "select" | "flush" | "finalize" | "gone"
  buf,       \* the items taken off the channel and not delivered yet
  goal,      \* what follows the flush under way: "select" | "finalize" | "gone"
  attempt,   \* attempts made of the post under way
  fin,       \* the Finalize marker taken off the channel, or NoVerdict
  renewDue,  \* the renewal timer has fired
  server     \* [seen : items ingested, verdict, lease : "none" | "held" | "overdue" | "expired"]

pushVars == <<seq, chan, worker, buf, goal, attempt, fin, renewDue, server>>
process == <<seq, chan>>

NoVerdict == "none"
Items == 0 .. seq - 1
IsItem(m) == "seq" \in DOMAIN m

PushInit ==
  /\ seq = 0 /\ chan = <<>>
  /\ worker = "off" /\ buf = <<>> /\ goal = "select" /\ attempt = 0
  /\ fin = NoVerdict /\ renewDue = FALSE
  /\ server = [seen |-> {}, verdict |-> NoVerdict, lease |-> "none"]

Handled(answer) == answer \in {"ok", "unanswered"}

\* `HttpReporter::open`: one attempt.  A run whose opening is not answered is
\* open at the server all the same, and the command ends.
OpenReport(answer) ==
  /\ worker = "off"
  /\ worker' = IF answer = "ok" THEN "select" ELSE "gone"
  /\ server' = IF Handled(answer) THEN [server EXCEPT !.lease = "held"] ELSE server
  /\ UNCHANGED <<process, buf, goal, attempt, fin, renewDue>>

-----------------------------------------------------------------------------
(* Reporter::on_task and Reporter::finish: never block *)

OnTask == /\ chan' = Append(chan, [seq |-> seq])
          /\ seq' = seq + 1
          /\ UNCHANGED <<worker, buf, goal, attempt, fin, renewDue, server>>

OnFinish(verdict) ==
  /\ chan' = Append(chan, [verdict |-> verdict])
  /\ UNCHANGED <<seq, worker, buf, goal, attempt, fin, renewDue, server>>

-----------------------------------------------------------------------------
(* The worker's select loop *)

Goto(next) == /\ worker' = next
              /\ attempt' = 0

\* `flush_items(next)`: nothing to do for an empty buffer.
Flush(items, next) ==
  /\ goal' = next
  /\ Goto(IF items = <<>> THEN next ELSE "flush")

TakeItem ==
  /\ worker = "select" /\ chan # <<>> /\ IsItem(Head(chan))
  /\ buf' = Append(buf, Head(chan).seq)
  /\ chan' = Tail(chan)
  /\ IF Len(buf') >= BatchMax THEN Flush(buf', "select") ELSE UNCHANGED <<worker, goal, attempt>>
  /\ UNCHANGED <<seq, fin, renewDue, server>>

TakeFinalize ==
  /\ worker = "select" /\ chan # <<>> /\ ~IsItem(Head(chan))
  /\ fin' = Head(chan).verdict
  /\ chan' = Tail(chan)
  /\ Flush(buf, "finalize")
  /\ UNCHANGED <<seq, buf, renewDue, server>>

FlushTick ==
  /\ worker = "select" /\ buf # <<>>
  /\ Flush(buf, "select")
  /\ UNCHANGED <<process, buf, fin, renewDue, server>>

\* The server refuses everything for a run whose lease has expired.
Possible == IF server.lease = "expired" THEN Answers \ {"ok", "unanswered"} ELSE Answers

\* `renew`: one attempt per tick; its failure is only logged.
RenewTick(answer) ==
  /\ worker = "select" /\ renewDue
  /\ renewDue' = FALSE
  /\ server' = IF Handled(answer) THEN [server EXCEPT !.lease = "held"] ELSE server
  /\ UNCHANGED <<process, worker, buf, goal, attempt, fin>>

-----------------------------------------------------------------------------
(* post_with_retry *)

\* Mutant of GivesUp: one attempt too many.
GivesUpLate(answer) == answer = "refused" \/ attempt = MaxRetries + 1

\* A 4xx other than 429 is permanent; everything else is tried MaxRetries more
\* times.
GivesUp(answer) == answer = "refused" \/ attempt = MaxRetries

\* Mutant of KeepBuffer: a batch is dropped whatever became of it.
KeepNothing(answer) == <<>>

\* "On success the buffer is cleared; on persistent failure the items stay
\* buffered".
KeepBuffer(answer) == IF answer = "ok" THEN <<>> ELSE buf

PostItems(answer) ==
  /\ worker = "flush"
  /\ server' = IF Handled(answer) THEN [server EXCEPT !.seen = @ \cup Range(buf)] ELSE server
  /\ IF answer = "ok" \/ GivesUp(answer)
       THEN /\ buf' = KeepBuffer(answer)
            /\ Goto(goal)
       ELSE /\ attempt' = attempt + 1
            /\ UNCHANGED <<buf, worker>>
  /\ UNCHANGED <<process, goal, fin, renewDue>>

PostFinalize(answer) ==
  /\ worker = "finalize"
  /\ server' = IF Handled(answer) THEN [server EXCEPT !.verdict = fin] ELSE server
  /\ IF answer = "ok" \/ GivesUp(answer)
       THEN Goto("gone")
       ELSE /\ attempt' = attempt + 1
            /\ UNCHANGED worker
  /\ UNCHANGED <<process, buf, goal, fin, renewDue>>

\* Time passes: the renewal timer fires, and the server may give up a run
\* whose renewal is overdue.
RenewalDue ==
  /\ worker \notin {"off", "gone"} /\ ~renewDue
  /\ renewDue' = TRUE
  /\ server' = IF server.lease = "held" THEN [server EXCEPT !.lease = "overdue"] ELSE server
  /\ UNCHANGED <<process, worker, buf, goal, attempt, fin>>

LeaseExpires ==
  /\ server.lease = "overdue" /\ server.verdict = NoVerdict
  /\ server' = [server EXCEPT !.lease = "expired"]
  /\ UNCHANGED <<process, worker, buf, goal, attempt, fin, renewDue>>

Post == \E answer \in Possible : PostItems(answer) \/ PostFinalize(answer)

WorkerStep == \/ TakeItem \/ TakeFinalize \/ FlushTick \/ Post
              \/ \E answer \in Possible : RenewTick(answer)

Environment == RenewalDue \/ LeaseExpires

\* tokio polls the worker, and `select!` picks at random among the branches
\* that are ready, so none that is ready again and again is passed over forever.
PushFairness ==
  /\ WF_pushVars(Post)
  /\ SF_pushVars(TakeItem) /\ SF_pushVars(TakeFinalize)

-----------------------------------------------------------------------------
(* Properties *)

PushTypeOK ==
  /\ seq \in Nat /\ attempt \in 0 .. MaxRetries
  /\ chan \in Seq([seq : Items] \cup [verdict : {"succeeded", "failed"}])
  /\ buf \in Seq(Items)
  /\ worker \in {"off", "select", "flush", "finalize", "gone"}
  /\ goal \in {"select", "finalize", "gone"}
  /\ fin \in {NoVerdict, "succeeded", "failed"}
  /\ renewDue \in BOOLEAN
  /\ server \in [seen : SUBSET Items, verdict : {NoVerdict, "succeeded", "failed"},
                 lease : {"none", "held", "overdue", "expired"}]
=============================================================================
