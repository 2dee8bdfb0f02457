----------------------------- MODULE OneCharge -----------------------------
(***************************************************************************)
(* What the checkout promises the client and the business: one charge at    *)
(* the most, and none beside a card that was checked or a payment that is   *)
(* recorded; and the slot is booked when the check or the payment is        *)
(* recorded or not at all.                                                  *)
(***************************************************************************)
CONSTANT Charges        \* whatever may charge the client

VARIABLES
  underWay, taken,      \* the charges a bank has yet to answer, and those that took money
  record,               \* none, checked or paid
  slot                  \* awaiting_payment, booked or expired

Init == underWay = {} /\ taken = {} /\ record = "none" /\ slot = "awaiting_payment"

Nothing == underWay = {} /\ taken = {}

\* Also when the slot is gone: then it is refunded.
Pay(c) ==
  /\ record = "none" /\ Nothing
  /\ \/ underWay' = {c} /\ UNCHANGED taken
     \/ taken' = {c} /\ UNCHANGED underWay
  /\ UNCHANGED <<record, slot>>

Accept ==
  /\ record = "none" /\ underWay # {} /\ taken = {}
  /\ taken' = underWay /\ underWay' = {}
  /\ UNCHANGED <<record, slot>>

Decline == underWay # {} /\ underWay' = {} /\ UNCHANGED <<taken, record, slot>>

Record ==
  /\ record = "none"
  /\ \/ record' = "paid" /\ taken # {}
     \/ record' = "checked" /\ Nothing
  /\ slot' = slot \/ (slot = "awaiting_payment" /\ slot' = "booked")
  /\ UNCHANGED <<underWay, taken>>

Expire == slot = "awaiting_payment" /\ slot' = "expired" /\ UNCHANGED <<underWay, taken, record>>

Next == (\E c \in Charges : Pay(c)) \/ Accept \/ Decline \/ Record \/ Expire

Spec == Init /\ [][Next]_<<underWay, taken, record, slot>>

=============================================================================
