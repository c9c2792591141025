---------------------------- MODULE MCOtaUpdate ----------------------------
(* Two versions that share two paths and each have one of their own, so    *)
(* that an update replaces files, installs one and deletes one.            *)
EXTENDS OtaUpdate, TLC
CONSTANTS v1, v2, shared, both, only1, only2
MCHas == [v \in Versions |-> Paths \ (IF v = v1 THEN {only2} ELSE {only1})]
(* Where every version has every path, versions and paths are alike. *)
MCAlike == Permutations({v1, v2}) \cup Permutations({shared, both})
============================================================================
