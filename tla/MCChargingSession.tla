------------------------- MODULE MCChargingSession -------------------------
(* Instances of ChargingSession for TLC. *)
EXTENDS ChargingSession, TLC

CONSTANTS h1, h2, c1, c2

TwoHandlers == {h1, h2}
TwoCalls    == {c1, c2}

Reading(type, meter) == [type |-> type, meter |-> meter]

\* a reading below meterStart, one without a value, and the end
OneCharge ==
  <<Reading("started", 2), Reading("updated", 1), Reading("updated", NoMeter),
    Reading("updated", 3), Reading("ended", 5)>>

OneValue == {4}
=============================================================================
