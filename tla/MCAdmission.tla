---------------------------- MODULE MCAdmission ----------------------------
(* Three clients for one base or two; two of them differ only in the case  *)
(* of their nick, and two share a computer.                                *)
EXTENDS Admission

CONSTANTS c1, c2, c3

MCClients == {c1, c2, c3}
MCNickOf  == (c1 :> "bob") @@ (c2 :> "eve") @@ (c3 :> "bob")
MCHostOf  == (c1 :> "x") @@ (c2 :> "x") @@ (c3 :> "y")
=============================================================================
