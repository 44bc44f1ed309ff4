--------------------------- MODULE MCOcpiCommand ---------------------------
(* Instances of OcpiCommand for TLC. *)
EXTENDS OcpiCommand, TLC

CONSTANTS r1, r2

TwoCalls     == {r1, r2}
TwoOutcomes  == {"Accepted", "Rejected"}
CallSymmetry == Permutations(TwoCalls)
=============================================================================
