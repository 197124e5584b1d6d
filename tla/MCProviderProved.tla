-------------------------- MODULE MCProviderProved --------------------------
(***************************************************************************)
(* The instances of MCProvider that the theorems are about.                *)
(***************************************************************************)
EXTENDS MCProvider

ASSUME MCCircumstances ==
    /\ Circumstances /\ OldInputsToDelete /\ DiffHasPaths
    /\ SyncNames /\ \E a \in APIs : SyncShaped(a)
    /\ ModernEngines => DiffCircumstances /\ SyncCircumstances

=============================================================================
