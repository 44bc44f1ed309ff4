------------------------ MODULE MCBookingLifecycle ------------------------
(* Instances of BookingLifecycle for TLC. *)
EXTENDS BookingLifecycle, TLC

CONSTANTS r1, r2

TwoCalls     == {r1, r2}
\* a success, and a refusal that both sources may report
TwoOutcomes  == {"Accepted", "Rejected"}
CallSymmetry == Permutations(TwoCalls)
=============================================================================
