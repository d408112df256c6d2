---------------------------- MODULE MCSubnetEngine ----------------------------
(* Instances of SubnetEngine for TLC. *)
EXTENDS SubnetEngine, TLC

Symmetry == Permutations(Mac) \cup Permutations(ClientId)

MCAddr == 0..3
MCSmallAddr == 0..2
MCNoPools == << >>
MCPool1 == <<[start |-> 1, end |-> 1]>>
MCSplitPools == <<[start |-> 1, end |-> 1], [start |-> 2, end |-> 3]>>
MCNoHosts == [m \in Mac |-> NoAddr]
MCPoolChoice == {[start |-> 1, end |-> 1], [start |-> 2, end |-> 2]}
MCHostChoice == Mac \X {1}
=============================================================================
