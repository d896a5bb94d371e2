-------------------------- MODULE MCReplicatedLog --------------------------
(* Instances of ReplicatedLog for TLC. *)
EXTENDS ReplicatedLog, TLC

\* Followers are interchangeable, and so are the operations that apply cleanly.
Symmetry == Permutations(Node \ {Boot}) \cup Permutations(Req \ Bad)
=============================================================================
