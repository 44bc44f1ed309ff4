------------------------ MODULE MCPaymentSettlement ------------------------
(* Instances of PaymentSettlement for TLC: the events of one payment. *)
EXTENDS PaymentSettlement, TLC

CONSTANTS r1, r2

TwoCalls     == {r1, r2}
CallSymmetry == Permutations(TwoCalls)
AllEvents    == {"completed", "succeeded", "expired", "other", "otherAmount"}
Success      == {"completed", "succeeded", "otherAmount"}
Failure      == {"expired"}
WrongAmount  == {"otherAmount"}
\* "other" and "succeeded" carry no id of their own
SharedId     == [e \in AllEvents |-> IF e \in {"other", "succeeded"} THEN "payment" ELSE e]
=============================================================================
