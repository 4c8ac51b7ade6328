------------------------------ MODULE MCRoster ------------------------------
(* Two teams for humans, one with two bases and one with one, the pause    *)
(* team and a robot team; five clients for three bases, so that teams fill *)
(* up, and at most two pausers, so that a third one has them kicked.       *)
EXTENDS Roster, TLC

CONSTANTS h1, h2, h3, h4, h5, r1, b1, b2, b3, b4

MCHumans   == {h1, h2, h3, h4, h5}
MCRobots   == {r1}
MCTeams    == 0..3
MCBases    == {b1, b2, b3, b4}
MCBaseTeam == b1 :> 1 @@ b2 :> 1 @@ b3 :> 2 @@ b4 :> 3

ClientsAlike == Permutations(Humans)
=============================================================================
