------------------------------ MODULE RelayMC -------------------------------
(* Instances of the relay: which jobs spend which nullifier. *)
EXTENDS Relay

\* A function on jobs has no notation in a configuration.
OwnNullifiers == [j \in Job |-> j]
SharedNullifier == [j \in Job |-> "shared"]
=============================================================================
