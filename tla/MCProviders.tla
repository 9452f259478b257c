----------------------------- MODULE MCProviders -----------------------------
(* Instances of Providers for TLC.                                         *)
EXTENDS Providers

CONSTANTS s1, s2, h1, h2

=============================================================================
