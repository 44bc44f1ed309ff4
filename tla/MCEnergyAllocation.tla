------------------------ MODULE MCEnergyAllocation ------------------------
(* Inputs of EnergyAllocation for TLC: three families, each of which varies *)
(* what one part of the function looks at and leaves the rest plain.        *)
EXTENDS EnergyAllocation

CONSTANT NoAmps

AllPhases(values)  == {[p \in Phases |-> v] : v \in values}
AllMembers(value)  == {[m \in Members |-> value]}

\* the values of each field
Plain ==
  [site |-> AllPhases({7}), load |-> AllPhases({0}), buffer |-> AllPhases({0}),
   failSafe |-> AllPhases({7}), override |-> {NoAmps}, method |-> {"EQUAL"},
   mode |-> {"ACTIVE"}, cap |-> AllMembers(NoAmps), prio |-> AllMembers(0),
   prev |-> AllMembers(NoAmps), due |-> AllMembers(FALSE), deadband |-> {1}]

Every(values) ==
  [site : values.site, load : values.load, buffer : values.buffer,
   failSafe : values.failSafe, override : values.override, method : values.method,
   mode : values.mode, cap : values.cap, prio : values.prio,
   prev : values.prev, due : values.due, deadband : values.deadband]

Sorted == {q \in [Members -> 0..2] : \A a, b \in Members : a < b => q[a] <= q[b]}

\* the rounds: limits, caps and priorities
Shares ==
  Every([Plain EXCEPT !.site = AllPhases(1..7), !.method = {"EQUAL", "PRIORITY"},
                      !.cap = [Members -> {0, 1, 3, NoAmps}], !.prio = Sorted])

\* the limit: three phases that differ, and the override
Limits ==
  Every([Plain EXCEPT !.site = [Phases -> 0..3], !.load = [Phases -> 0..1],
                      !.buffer = [Phases -> 0..1], !.failSafe = [Phases -> 1..2],
                      !.override = {1, NoAmps}])

\* the decisions: what each member was given before
Decisions ==
  Every([Plain EXCEPT !.site = AllPhases({1, 3, 6}),
                      !.mode = {"ACTIVE", "OBSERVE_ONLY", "DISABLED"},
                      !.prev = [Members -> {0, 1, 3, NoAmps}],
                      !.due = [Members -> BOOLEAN], !.deadband = 1..2])

MCInputs == Shares \cup Limits \cup Decisions
=============================================================================
