------------------------- MODULE MCInstanceScheduler -------------------------
(***************************************************************************)
(* Two invocations at a time and two alarms.                               *)
(***************************************************************************)
EXTENDS InstanceScheduler, TLC

MCSymmetry == Permutations(Tasks) \cup Permutations(Alarms)

=============================================================================
