----------------------------- MODULE MCRetryLoop -----------------------------
(* Every shape of task, with no, one and two retries, over a connection to   *)
(* an agent whose commands print nothing, on both streams, or twice on one.  *)
EXTENDS RetryLink

MCCounts == 0 .. 2
MCOutputs == {[s \in Streams |-> IF s = "stdout" THEN 2 ELSE 0], [s \in Streams |-> 1]}
Plain == [retries |-> NoRetries, until |-> FALSE, failedWhen |-> FALSE,
          changedWhen |-> FALSE, register |-> TRUE]
MCLinked == {Plain, [Plain EXCEPT !.retries = 1], [Plain EXCEPT !.retries = 2, !.until = TRUE]}
=============================================================================
