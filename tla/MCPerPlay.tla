------------------------------ MODULE MCPerPlay ------------------------------
(* Plays for PerPlay: the task trees and what may happen where.            *)
EXTENDS PerPlay

CONSTANTS h1, h2, h3

TwoHosts == <<h1, h2>>
ThreeHosts == <<h1, h2, h3>>
NoHandlers == <<>>
NoNotify == [t \in Tasks |-> {}]

OnePlay(tasks, slots, policy) == [tasks |-> tasks, slots |-> slots, policy |-> policy]

(* Two plays.  A, under `continue`: 0 a leaf; 1 a block of 2 (a block of 3    *)
(* and run_once 4), always run_once 5; 6 meta: flush_handlers; 7 a block of  *)
(* 8 and 9, rescue 10 (a block of 11, rescue 12) and 13; 14 run_once.        *)
(* Handlers 15, 25, a block that may notify its neighbours, and 16.         *)
(* E, under `stop`: run_once 17 dropped by tags; 18 a looped block of        *)
(* run_once 19, meta 20, rescue 21, always 22; 23 a leaf.  Handler 24.       *)
ArmsAE == [t \in {1, 2, 7, 10, 18} |->
             CASE t = 1 -> Block(<<2>>, <<>>, <<5>>)
               [] t = 2 -> Block(<<3, 4>>, <<>>, <<>>)
               [] t = 7 -> Block(<<8, 9>>, <<10, 13>>, <<>>)
               [] t = 10 -> Block(<<11>>, <<12>>, <<>>)
               [] t = 18 -> Block(<<19, 20>>, <<21>>, <<22>>)]
TreeAE == Tree(26, ArmsAE)
KindAE == Kinds(26, ArmsAE, {6, 20})
PlaysAE == {OnePlay(<<0, 1, 6, 7, 14>>, 0 .. 14, "continue"),
            OnePlay(<<17, 18, 23>>, 17 .. 23, "stop")}
HandlersAE == <<15, 25, 16, 24>>
NotifyAE == [t \in Tasks |-> CASE t = 3 -> {15} [] t = 5 -> {15}
                               [] t = 8 -> {16, 25} [] t = 25 -> {15}
                               [] t = 19 -> {24} [] OTHER -> {}]
\* In A the runner reaches every run_once task; anything may happen to the
\* other host, and the run_once tasks themselves may fail.  In E anything may
\* happen on any host.
MayAE == [ht \in Hosts \X Tasks |->
            CASE ht[2] = 18 -> {"skipped", "error"}
              [] ht[2] = 19 -> {"changed", "failed"}
              [] ht[2] = 21 -> {"unchanged", "failed"}
              [] ht[2] = 22 -> {"unchanged", "broken"}
              [] ht[2] = 24 -> {"changed", "failed"}
              [] ht[2] = 25 -> IF ht[1] = h1 THEN {"unchanged"} ELSE {"unchanged", "lost"}
              [] ht[2] \in {17, 20, 23} -> {"unchanged"}
              [] OTHER ->
            IF ht[1] = h1
              THEN CASE ht[2] \in {8, 15} -> {"unchanged", "changed"}
                     [] ht[2] = 5 -> {"unchanged", "changed", "failed"}
                     [] OTHER -> {"unchanged"}
              ELSE CASE ht[2] = 3 -> {"changed", "failed", "broken"}
                     [] ht[2] \in {1, 7} -> {"skipped", "error"}
                     [] ht[2] \in {8, 9, 11, 12} -> {"unchanged", "failed"}
                     [] ht[2] \in {15, 16} -> {"changed", "failed", "broken"}
                     [] OTHER -> {"unchanged"}]

(* Play C: a block with a rescue arm and a run_once task in its always arm.  *)
ArmsC == [t \in {0} |-> Block(<<1>>, <<2>>, <<3>>)]
TreeC == Tree(4, ArmsC)
KindC == Kinds(4, ArmsC, {})
PlayC == {OnePlay(<<0>>, 0 .. 3, "stop")}
MayC == [ht \in Hosts \X Tasks |->
           IF ht = <<h2, 1>> THEN {"unchanged", "failed"} ELSE {"unchanged"}]

(* Play D: a task that may fail on any host, then a run_once task.          *)
TreeD == Tree(2, <<>>)
KindD == Kinds(2, <<>>, {})
PlayD == {OnePlay(<<0, 1>>, 0 .. 1, "mark_host_failed")}
MayD == [ht \in Hosts \X Tasks |->
           IF ht[2] = 0 THEN {"unchanged", "failed"} ELSE {"unchanged", "changed"}]
=============================================================================
