------------------------------ MODULE MCSetup ------------------------------
(***************************************************************************)
(* Instances of Setup for TLC.                                             *)
(***************************************************************************)
EXTENDS Setup, TLC

CONSTANTS r1, r2, r3

Three == {r1, r2, r3}
TwoAddresses == {"a", "b"}
\* The second form is the first one sent twice; the third is another person's.
ResentAddress == [r \in Requests |-> IF r = r3 THEN "b" ELSE "a"]
=============================================================================
