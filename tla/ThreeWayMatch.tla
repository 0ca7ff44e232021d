---------------------------- MODULE ThreeWayMatch ---------------------------
(***************************************************************************)
(* An invoice against its order and what was received                      *)
(* (three_way_match.py), within a tolerance that is set while goods come   *)
(* in (match_tolerance_service.py).  The code computes with Decimal, so    *)
(* the percentages are kept as products.  No route links an invoice to an  *)
(* order yet: the match is what the tests of the service exercise.         *)
(***************************************************************************)
EXTENDS Integers, FiniteSets, FiniteSetsExt

CONSTANTS Invoiced,        \* the total that is billed
          Lines, Ordered,  \* the lines and the quantity of each
          Price,           \* of a unit of each line
          Percents,        \* the tolerances that are tried
          MaxOver          \* bound: the quantity received beyond what was ordered

MAX_PERCENT == 25

ASSUME MatchAssumption ==
  /\ Invoiced \in Nat
  /\ IsFiniteSet(Lines) /\ Lines # {}
  /\ Ordered \in [Lines -> Nat \ {0}] /\ Price \in [Lines -> Nat \ {0}]
  /\ Percents \subseteq Nat /\ MaxOver \in Nat

VARIABLES received,        \* received_quantity of each line
          tolerance        \* amount_percent and quantity_percent

matchVars == <<received, tolerance>>

OrderTotal == SumFunctionOnSet([l \in Lines |-> Ordered[l] * Price[l]], Lines)
ReceivedValue == SumFunctionOnSet([l \in Lines |-> received[l] * Price[l]], Lines)

DEFAULT_MATCH_TOLERANCE == [amount |-> 2, quantity |-> 5]

MatchInit ==
  /\ received = [l \in Lines |-> 0]
  /\ tolerance = DEFAULT_MATCH_TOLERANCE

\* record_receipt, seen from here: more may come than was ordered.
Receive(l) ==
  /\ received[l] < Ordered[l] + MaxOver
  /\ received' = [received EXCEPT ![l] = @ + 1]
  /\ UNCHANGED tolerance

SetTolerance(amount, quantity) ==
  /\ amount <= MAX_PERCENT /\ quantity <= MAX_PERCENT
  /\ tolerance' = [amount |-> amount, quantity |-> quantity]
  /\ UNCHANGED received

MatchNext ==
  \/ \E l \in Lines : Receive(l)
  \/ \E amount, quantity \in Percents : SetTolerance(amount, quantity)

MatchSpec == MatchInit /\ [][MatchNext]_matchVars

-----------------------------------------------------------------------------

\* The excess over the order that is let pass.
Above(excess) == 100 * excess > OrderTotal * tolerance.amount

OverBilled == Above(Invoiced - OrderTotal)

ShortLines ==
  {l \in Lines : 100 * (Ordered[l] - received[l]) > Ordered[l] * tolerance.quantity}

NothingReceived == \A l \in Lines : received[l] = 0

\* Mutant: what was received is counted, not valued.
UndeliveredCounted == NothingReceived

Undelivered == NothingReceived \/ Above(Invoiced - ReceivedValue)

match_invoice ==
  IF OverBilled \/ ShortLines # {} \/ Undelivered THEN "mismatched"
  ELSE IF Invoiced = OrderTotal THEN "matched" ELSE "within_tolerance"

-----------------------------------------------------------------------------
(* Properties.                                                             *)

\* three_way_match.py: what passes is billed for goods that came: whatever the
\* tolerance was set to, the bill exceeds their value by a quarter of the order
\* at the most, and something came.
BilledForDelivered ==
  match_invoice # "mismatched" =>
    /\ ReceivedValue > 0
    /\ 4 * (Invoiced - ReceivedValue) <= OrderTotal

=============================================================================
