------------------------------ MODULE MCRecords ------------------------------
(***************************************************************************)
(* An instance of Records for TLC: two to five calls on each component.    *)
(***************************************************************************)
EXTENDS Records, TLC

CONSTANTS c1, c2, c3, d1, d2, e1, e2

Three == {c1, c2, c3}
Two   == {d1, d2}
Pair  == {e1, e2}
Five  == Three \cup Two
Symmetry == Permutations(Three) \cup Permutations(Two) \cup Permutations(Pair)

MCAmounts    == {1}
MCReplica    == {"process"}
MCScopes     == {"group"}
MCDispatches == {"dispatch"}
MCTiers      == {"T1", "T4"}
MCCustom     == {"T4"}
MCSubdomains == {"subdomain"}
MCDomains    == {"domain"}
MCPaymentKeys == [t \in MCTiers |-> {"own"}]

\* a fault that stays and a stale reading; a code that is reported twice
MCReports == {[faults |-> <<"x">>, stale |-> TRUE], [faults |-> <<"y", "y">>, stale |-> FALSE]}
=============================================================================
