---------------------------- MODULE MCTokenCache ----------------------------
(***************************************************************************)
(* An instance of TokenCache for TLC: one sender and three instances.      *)
(***************************************************************************)
EXTENDS TokenCache

CONSTANTS s1, i1, i2, i3
=============================================================================
