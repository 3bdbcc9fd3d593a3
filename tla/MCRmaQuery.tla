------------------------------ MODULE MCRmaQuery ------------------------------
EXTENDS RmaQuery

PhoneOfMC == [n \in Found |-> IF n = "L1" THEN "P1" ELSE "P2"]
\* P3 has the mask of P1.
SignatureMC == [p \in Phones |-> IF p = "P3" THEN "P1" ELSE p]
=============================================================================
