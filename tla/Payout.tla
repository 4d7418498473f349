------------------------------- MODULE Payout -------------------------------
(***************************************************************************)
(* What the closing of a cycle promises each member: one payment, which    *)
(* never changes afterwards. CycleClose implements this.                   *)
(***************************************************************************)
EXTENDS Naturals

CONSTANTS Members, Amounts

VARIABLE payments \* each member's payments for the cycle: movement and amount

PayoutInit == payments = [m \in Members |-> {}]

\* A member without a payment gets one, whatever its page id.
Pay(m) ==
  /\ payments[m] = {}
  /\ \E p \in payments'[m] :
       /\ p.amount \in Amounts
       /\ payments' = [payments EXCEPT ![m] = {p}]

PayoutSpec == PayoutInit /\ [][\E m \in Members : Pay(m)]_payments
=============================================================================
