----------------------------- MODULE MCStateFile ----------------------------
(* Instances of StateFile for model checking. *)
EXTENDS StateFile
=============================================================================
