---------------------------- MODULE InvoiceInbox ----------------------------
(***************************************************************************)
(* The decision inbox over invoices (decision_inbox_service.py, _invoices):*)
(* each pending invoice under its single most blocking next step.  The     *)
(* inbox repeats the rules of the desk in queries of its own.              *)
(***************************************************************************)
EXTENDS InvoiceApproval

CONSTANT EscalateTo   \* the role an overdue approval escalates to (workflow SLA)

Pending == {i \in Invoices : invState[i] = "pending_approval"}

\* Mutant: an acknowledged duplicate is a duplicate still.
FlaggedEver(i) == duplicate[i] # "none"

Flagged(i) == duplicate[i] = "flagged"

DuplicateItems(u) == {i \in Pending : May(u, "invoices.approve") /\ Flagged(i)}

VendorItems(u) ==
  {i \in Pending : May(u, "vendors.manage") /\ ~Flagged(i) /\ ~VendorActive(i)}

RoutedTo(u, i) ==
  \E role \in RequiredRoles(policies, invAmount[i]) : IsAdmin(u) \/ RoleOf[u] = role

\* late: the invoices whose deadline, priced at reading time, has passed.
EscalatedTo(u, i, late) == i \in late /\ RoleOf[u] = EscalateTo

ApprovalItems(u, late) ==
  {i \in Pending : /\ May(u, "invoices.approve")
                   /\ ~Flagged(i) /\ VendorActive(i)
                   /\ RoutedTo(u, i) \/ EscalatedTo(u, i, late)}

-----------------------------------------------------------------------------
(* Properties.                                                             *)

StandsInForNobody(u) == \A p \in lent : p[2] # u

\* decision_inbox_service.py:22-24, only what the caller can act on: for those
\* who hold no borrowed authority the inbox has every invoice they could
\* approve; and what it asks of anybody, the desk accepts, but for an approval
\* of one's own invoice, the activation of one's own vendor, and an approval
\* listed only because it is overdue.
InvoiceWorkShown ==
  \A u \in Users, late \in {{}, Invoices} :
    LET approvable == {i \in Invoices : CanApproveInvoice(u, i)}
        shown == ApprovalItems(u, late) IN
    /\ StandsInForNobody(u) => approvable \subseteq shown
    /\ \A i \in shown \ approvable : creator[i] = u \/ EscalatedTo(u, i, late)
    /\ \A i \in DuplicateItems(u) : CanResolveDuplicate(u, i)
    /\ \A i \in VendorItems(u) :
         \/ CanSetVendorStatus(u, VendorOf[i], "active")
         \/ venCreator[VendorOf[i]] = u

=============================================================================
