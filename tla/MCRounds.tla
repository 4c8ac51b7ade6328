------------------------------ MODULE MCRounds ------------------------------
(* Three players, two teams and one place for a pauser: the second pauser  *)
(* has the first one kicked, in the middle of a loop as well.              *)
EXTENDS Rounds

CONSTANTS p1, p2, p3

MCIds  == {p1, p2, p3}
MCPair == {p1, p2}

PlayersAlike == Permutations(Ids)
=============================================================================
