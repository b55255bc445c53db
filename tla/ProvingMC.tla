------------------------------ MODULE ProvingMC ------------------------------
(* Two calls on one host, of the same job or of two jobs. *)
EXTENDS Proving

CONSTANTS j1, j2

OneHost == {<<j1, 1>>, <<j1, 2>>, <<j2, 1>>}

\* Any two of the three calls are made.
TwoCalls == Next /\ \E c \in Call : pc'[c] = "waiting"

TwoCallsSpec == Init /\ [][TwoCalls]_vars /\ Fairness
=============================================================================
