-------------------------- MODULE MCSourceCapacity --------------------------
(* TLC instances of SourceCapacity.                                        *)
EXTENDS SourceCapacity, TLC

CONSTANTS p, f, w

\* Of a cash of 4, p fits beside f with the fee of 1, the withdrawal w fits
\* beside p without it, so that p does not fit beside w, and w never fits
\* beside f.
AmountOf == (p :> 1) @@ (f :> 2) @@ (w :> 3)
=============================================================================
