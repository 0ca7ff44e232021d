----------------------------- MODULE Settlement -----------------------------
(***************************************************************************)
(* What paying means, without runs, people, vendors or bank details: an    *)
(* invoice is paid at most once, by one payer, and what has been paid      *)
(* stays paid by that payer.  A payer is a payment run, which pays in one  *)
(* go, or the desk, which marks invoices paid one at a time.               *)
(***************************************************************************)
CONSTANTS Invoices, Runs, Desk

VARIABLES paid,     \* the invoices that are settled
          payers    \* who settled each of them

Payers == Runs \cup {Desk}

Init == /\ paid = {}
        /\ payers = [i \in Invoices |-> {}]

Settle(p, S) ==
  /\ S \subseteq Invoices \ paid
  /\ p \in Runs => \A i \in Invoices : p \notin payers[i]
  /\ paid' = paid \cup S
  /\ payers' = [i \in Invoices |-> IF i \in S THEN {p} ELSE payers[i]]

Next == \E p \in Payers, S \in SUBSET Invoices : Settle(p, S)

Spec == Init /\ [][Next]_<<paid, payers>>

=============================================================================
