----------------------------- MODULE MCConfigStore -----------------------------
(***************************************************************************)
(* ConfigStore for TLC: entries and keys are model values.                 *)
(***************************************************************************)
EXTENDS ConfigStore, TLC

(* Keys and entries are interchangeable.                                   *)
Symmetry == Permutations(Key) \cup Permutations(Entry)

================================================================================
