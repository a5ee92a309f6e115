------------------------- MODULE MCCertificateAgent --------------------------
(* One client that uses up its budget, mostly with a wrong token, beside
   another one that asks for a name it may not have. *)
EXTENDS CertificateAgent, TLC

CONSTANTS q1, q2, q3, q4, c1, c2, n1, n2

SomeAsks == [r \in Requests |->
               [client |-> IF r = q4 THEN c2 ELSE c1,
                token |-> r \in {q1, q4},
                name |-> IF r = q4 THEN n2 ELSE n1]]

Alike == Permutations({q2, q3})
=============================================================================
