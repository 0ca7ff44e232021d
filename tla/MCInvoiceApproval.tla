------------------------- MODULE MCInvoiceApproval --------------------------
(***************************************************************************)
(* Small instances of InvoiceApproval.                                     *)
(***************************************************************************)
EXTENDS InvoiceInbox, TLC

CONSTANTS ann, mia, bob, cy, nobody,   \* a clerk, a manager, a CFO, an administrator
          acme, i1, i2, null

RoleIn(people) ==
  [u \in people |-> CASE u = ann -> "ap_clerk" [] u = mia -> "manager"
                      [] u = bob -> "cfo"      [] u = cy -> "admin"]
Desk == {ann, mia, cy}
DeskRoles == RoleIn(Desk)
Approvers == {ann, bob, cy}
ApproverRoles == RoleIn(Approvers)

AdminLendsClerk == {<<cy, ann>>}
NoPairs == {}

TwoInvoices == {i1, i2}
AllAcme == [i \in Invoices |-> acme]
NoAccount == {[f \in {} |-> null]}
NoFields == {}

CfoOver250k == [priority |-> 100, operator |-> "greater_than",
                amount_threshold |-> 250000, required_role |-> "cfo"]
ManagerUpTo250k == [priority |-> 0, operator |-> "greater_equal",
                    amount_threshold |-> 0, required_role |-> "manager"]
DefaultPolicies == {CfoOver250k, ManagerUpTo250k}
CfoPolicy == {CfoOver250k}

\* Autopilot within 400,000, with and without its own checks.
Within(strict) == [enabled |-> TRUE, cap |-> 400000,
                   require_active_vendor |-> strict, require_no_duplicate |-> strict]
StrictOrLax == {Within(TRUE), Within(FALSE)}

\* The desk with one invoice behind it, already submitted or already paid: the
\* vendor was on file, i2 recorded, validated and submitted by ann and, when
\* paid, approved by cy.  i1 is still to come.
OpenDesk(behind) ==
  /\ DelegationInit
  /\ venStatus = [v \in Vendors |-> "active"]
  /\ venCreator = [v \in Vendors |-> ann]
  /\ account = [v \in Vendors |-> [f \in Fields |-> NoValue]]
  /\ invState = (i1 :> "absent" @@ i2 :> behind)
  /\ invAmount = (i1 :> 0 @@ i2 :> 100000)
  /\ creator = (i1 :> nobody @@ i2 :> ann)
  /\ approver = (i1 :> nobody @@ i2 :> IF behind = "paid" THEN cy ELSE nobody)
  /\ lastApproval = (i1 :> "none" @@ i2 :> IF behind = "paid" THEN "approved" ELSE "none")
  /\ duplicate = [i \in Invoices |-> "none"]
  /\ everAuto = [i \in Invoices |-> FALSE]
  /\ policies = Policies
  /\ autopilot = NoAutopilot

OpenSpec == (OpenDesk("paid") \/ OpenDesk("pending_approval")) /\ [][Next]_vars

=============================================================================
