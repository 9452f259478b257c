---------------------------- MODULE MCReviewLoop ----------------------------
(* Instances of ReviewLoop for TLC.                                        *)
EXTENDS ReviewLoop

CONSTANTS a, b, h1, h2, i1, i2

=============================================================================
