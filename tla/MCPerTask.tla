------------------------------ MODULE MCPerTask ------------------------------
(* Plays for PerTask: the task trees and what may happen where.            *)
EXTENDS PerTask

CONSTANTS h1, h2, h3

ThreeHosts == <<h1, h2, h3>>

(* Play F: 0 a leaf; 1 run_once; 2 meta: flush_handlers; 3 a block of        *)
(* run_once 4 and 5, always 6; 7 dropped by tags; 8 a leaf.  Handlers 9, 11, *)
(* a block that may notify the one before and the one after it, and 10.     *)
ArmsF == [t \in {3} |-> Block(<<4, 5>>, <<>>, <<6>>)]
TreeF == Tree(12, ArmsF)
KindF == Kinds(12, ArmsF, {2})
PlayF == <<0, 1, 2, 3, 7, 8>>
HandlersF == <<9, 11, 10>>
NotifyF == [t \in Tasks |-> CASE t \in {0, 11} -> {9} [] t = 1 -> {10} [] t = 4 -> {9, 11}
                              [] OTHER -> {}]
MayF == [ht \in Hosts \X Tasks |->
           CASE ht[2] = 0 -> {"changed", "failed"}
             [] ht[2] = 1 -> {"changed", "unchanged", "spoiled"}
             [] ht[2] = 4 -> {"changed", "skipped", "failed"}
             [] ht[2] = 5 -> {"unchanged", "broken"}
             [] ht[2] = 9 -> {"changed", "broken"}
             [] ht = <<h1, 11>> -> {"lost"}
             [] ht = <<h3, 11>> -> {"skipped"}
             [] OTHER -> {"unchanged"}]
=============================================================================
