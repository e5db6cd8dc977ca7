----------------------------- MODULE MCCadence -----------------------------
(***************************************************************************)
(* An instance of Cadence for TLC: an environment whose ranges are partly  *)
(* upside down, and administrators who save a slower pace, try to save one *)
(* that is not valid, or switch the humanizer off.                         *)
(***************************************************************************)
EXTENDS Cadence, TLC

FromEnvironment ==
  [Enabled |-> TRUE, InitialDelayMin |-> 1, InitialDelayMax |-> 0,
   BaseDelayMin |-> 2, BaseDelayMax |-> 3, BurstSizeMin |-> 0, BurstSizeMax |-> 2,
   BurstPauseMin |-> 4, BurstPauseMax |-> 0]

Slower ==
  [FromEnvironment EXCEPT !.InitialDelayMax = 1, !.BaseDelayMin = 3,
     !.BurstSizeMin = 2, !.BurstPauseMin = 5, !.BurstPauseMax = 5]

\* Instances are interchangeable.
SameInstances == Permutations(Instances)

SaveAttempts == {Slower, [Slower EXCEPT !.Enabled = FALSE], FromEnvironment}
=============================================================================
