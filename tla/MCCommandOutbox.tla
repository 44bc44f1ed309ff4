-------------------------- MODULE MCCommandOutbox --------------------------
(* Instances of CommandOutbox for TLC. *)
EXTENDS CommandOutbox, TLC

CONSTANTS w1, w2, r1, r2, k1

MCWorkers   == {w1, w2}
TwoReplayers == {r1, r2}
OneReplayer == {r1}
OneCleaner  == {k1}
NoCleaner   == {}
Symmetry    == Permutations(MCWorkers) \cup Permutations(TwoReplayers)

OneCommand  == {1}
TwoCommands == {1, 2}
NoVehicle   == {}
SecondIsVehicle == {2}
=============================================================================
