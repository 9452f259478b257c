---------------------------- MODULE MCIndexSync ----------------------------
(* Instances of IndexSync for TLC.                                         *)
EXTENDS IndexSync

CONSTANTS c1, c2, n1, n2, r1

=============================================================================
