-------------------------- MODULE InvoiceLifecycle --------------------------
(***************************************************************************)
(* What the accounts payable desk promises the rest of the system about an *)
(* invoice: which states it moves through and when its amount may change,  *)
(* with no word on who moves it or why.  InvoiceApproval, which has the    *)
(* people, the gates, the approval matrix and autopilot, implements it;    *)
(* PaymentRuns is built on it.                                             *)
(*                                                                         *)
(* "absent" is an invoice nobody has recorded yet and "withdrawn" one that *)
(* was soft-deleted.  The configured workflow also has edges to            *)
(* `cancelled' and from `rejected' back to `draft'; no operation of the    *)
(* program takes them.                                                     *)
(***************************************************************************)
EXTENDS Naturals

CONSTANTS Invoices,
          Amounts    \* bound: the totals an invoice may carry

ASSUME AmountsAssumption == Amounts \subseteq Nat

VARIABLES invState, invAmount

invVars == <<invState, invAmount>>

InvStates == {"absent", "draft", "validated", "pending_approval", "approved",
              "rejected", "paid", "withdrawn"}

InvTypeOK == /\ invState \in [Invoices -> InvStates]
             /\ invAmount \in [Invoices -> Amounts \cup {0}]

InvInit == /\ invState = [i \in Invoices |-> "absent"]
           /\ invAmount = [i \in Invoices |-> 0]

-----------------------------------------------------------------------------
\* transition_state: current_state, from one state to an allowed other.
Transition(i, from, to) ==
  /\ invState[i] = from
  /\ invState' = [invState EXCEPT ![i] = to]

Create(i, a) == /\ Transition(i, "absent", "draft")
                /\ invAmount' = [invAmount EXCEPT ![i] = a]

\* Mutant: a submitted invoice stays editable.
EditAlsoSubmitted(i, a) ==
  /\ invState[i] \in {"draft", "rejected", "pending_approval"}
  /\ invAmount' = [invAmount EXCEPT ![i] = a]
  /\ UNCHANGED invState

\* Editable before anything is built on the figures, and after a rejection.
Edit(i, a) == /\ invState[i] \in {"draft", "rejected"}
              /\ invAmount' = [invAmount EXCEPT ![i] = a]
              /\ UNCHANGED invState

Validate(i) == /\ Transition(i, "draft", "validated")
               /\ invAmount[i] > 0
               /\ UNCHANGED invAmount

Withdraw(i) == Transition(i, "draft", "withdrawn") /\ UNCHANGED invAmount
Submit(i)   == Transition(i, "validated", "pending_approval") /\ UNCHANGED invAmount
Reject(i)   == Transition(i, "pending_approval", "rejected") /\ UNCHANGED invAmount

\* Mutant: what was paid meanwhile is sent back as well.
RevertAlsoPaid(i) == /\ invState[i] \in {"approved", "paid"}
                     /\ invState' = [invState EXCEPT ![i] = "pending_approval"]
                     /\ UNCHANGED invAmount

Revert(i)   == Transition(i, "approved", "pending_approval") /\ UNCHANGED invAmount

\* One approval, or one autopilot run over a batch.
Approve(S) == /\ \A i \in S : invState[i] = "pending_approval"
              /\ invState' = [i \in Invoices |-> IF i \in S THEN "approved" ELSE invState[i]]
              /\ UNCHANGED invAmount

\* Mutant: paid is accepted as a transition from paid.
PayAgain(S) == /\ \A i \in S : invState[i] \in {"approved", "paid"}
               /\ invState' = [i \in Invoices |-> IF i \in S THEN "paid" ELSE invState[i]]
               /\ UNCHANGED invAmount

\* The settlement of one invoice, or of every invoice of a payment run.
Pay(S) == /\ \A i \in S : invState[i] = "approved"
          /\ invState' = [i \in Invoices |-> IF i \in S THEN "paid" ELSE invState[i]]
          /\ UNCHANGED invAmount

DeskStep ==
  \/ \E i \in Invoices :
       \/ \E a \in Amounts : Create(i, a) \/ Edit(i, a)
       \/ Validate(i) \/ Withdraw(i) \/ Submit(i) \/ Reject(i) \/ Revert(i)
  \/ \E S \in SUBSET Invoices : Approve(S)

InvNext == DeskStep \/ \E S \in SUBSET Invoices : Pay(S)

InvSpec == InvInit /\ [][InvNext]_invVars

=============================================================================
