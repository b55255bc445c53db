----------------------------- MODULE BiddingMC ------------------------------
(* The default policy's proportions on a small scale, and fees that reach   *)
(* every ceiling, zero and the largest integer included.                    *)
EXTENDS Bidding

SomeBaseFees == {0, 1, 3, 9, 24, 70, 9999}
SomeTips == 0..12 \cup {9999}
=============================================================================
