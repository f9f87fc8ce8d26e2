---------------------- MODULE MCCreditClassification ----------------------
EXTENDS CreditClassification, TLC

CONSTANTS s1, s2, x1, x2, c, d

StartOf == (s1 :> 0) @@ (s2 :> 1)

\* Two handoffs of the same amount; the others differ.
EnvelopeOf == [e \in Handoffs \cup Events |-> IF e \in Handoffs THEN x1 ELSE e]
=============================================================================
