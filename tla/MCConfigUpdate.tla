--------------------------- MODULE MCConfigUpdate ---------------------------
(* Small instances of ConfigUpdate for TLC. *)
EXTENDS ConfigUpdate

NoFaults == {}
KillIo   == {"kill", "io"}
Symmetry  == Permutations(Procs) \union Permutations(Displays) \union Permutations(Profiles)
=============================================================================
