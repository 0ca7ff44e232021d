---------------------------- MODULE Procurement -----------------------------
(***************************************************************************)
(* From a need to an order (requisition_service.py, sourcing_service.py,   *)
(* purchase_order_service.py): a requisition is approved up to an          *)
(* estimate, a tender collects quotes and is awarded, the award becomes a  *)
(* draft order, and an order is approved, issued, received against and     *)
(* closed.  An order may also be raised directly.                          *)
(***************************************************************************)
EXTENDS Delegation, FiniteSets

CONSTANTS Needs, Tenders, Orders,
          Suppliers,
          Prices,      \* bound: estimates, quotes and order totals
          Policies,    \* bound: the approval policies a tenant may have
          NoSupplier, NoTender

ASSUME ProcurementAssumption ==
  /\ Prices \subseteq Nat /\ NoSupplier \notin Suppliers /\ NoTender \notin Tenders

VARIABLES need, tender, order,
          active,    \* the vendors in active status
          policies   \* the live approval policies

setting == <<active, policies, lent>>
procVars == <<need, tender, order, setting>>

NoQuotes == [v \in {} |-> 0]
NoNeed == [state |-> "none", by |-> NoUser, approver |-> NoUser, estimate |-> 0]
NoRfq == [state |-> "none", need |-> "none", by |-> NoUser, invited |-> {}, quotes |-> NoQuotes,
          refused |-> {}, winner |-> NoSupplier, reasoned |-> FALSE, awarder |-> NoUser]
NoOrder == [state |-> "none", tender |-> NoTender, supplier |-> NoSupplier, total |-> 0,
            by |-> NoUser, approver |-> NoUser, received |-> FALSE]

ProcurementInit ==
  /\ need = [n \in Needs |-> NoNeed]
  /\ tender = [f \in Tenders |-> NoRfq]
  /\ order = [o \in Orders |-> NoOrder]
  /\ active = Suppliers
  /\ policies \in SUBSET Policies
  /\ DelegationInit

NeedStep(n, u, perm, from, to) ==
  /\ May(u, perm)
  /\ need[n].state \in from
  /\ need' = [need EXCEPT ![n].state = to]
  /\ UNCHANGED <<tender, order, setting>>

-----------------------------------------------------------------------------
(* Requisitions.                                                           *)

CreateRequisition(u, n, estimate) ==
  /\ May(u, "requisitions.create")
  /\ need[n].state = "none"
  /\ need' = [need EXCEPT ![n] = [state |-> "draft", by |-> u, approver |-> NoUser,
                                  estimate |-> estimate]]
  /\ UNCHANGED <<tender, order, setting>>

\* requisition_has_lines: something is asked for.
SubmitRequisition(u, n) ==
  /\ need[n].estimate > 0
  /\ NeedStep(n, u, "requisitions.create", {"draft"}, "pending_approval")

\* The permission may be borrowed; the limit is that of the own role.
CanApproveRequisition(u, n) ==
  /\ need[n].state = "pending_approval"
  /\ ResolvePermission(u, "requisitions.approve")
  /\ ~ViolatesSelfApproval(need[n].by, u)
  /\ CanApproveAmount(RoleOf[u], need[n].estimate)

ApproveRequisition(u, n) ==
  /\ CanApproveRequisition(u, n)
  /\ need' = [need EXCEPT ![n].state = "approved", ![n].approver = u]
  /\ UNCHANGED <<tender, order, setting>>

RejectRequisition(u, n) ==
  /\ ResolvePermission(u, "requisitions.approve")
  /\ need[n].state = "pending_approval"
  /\ need' = [need EXCEPT ![n].state = "rejected"]
  /\ UNCHANGED <<tender, order, setting>>

CancelRequisition(u, n) ==
  NeedStep(n, u, "requisitions.create", {"draft", "approved"}, "cancelled")

-----------------------------------------------------------------------------
(* Tenders.                                                                *)

TenderChange(f, record) ==
  /\ tender' = [tender EXCEPT ![f] = record]
  /\ UNCHANGED <<need, order, setting>>

CreateTender(u, f, n, suppliers) ==
  /\ May(u, "sourcing.manage")
  /\ tender[f].state = "none"
  /\ need[n].state = "approved"
  /\ suppliers \subseteq active
  /\ TenderChange(f, [NoRfq EXCEPT !.state = "draft", !.need = n, !.by = u,
                                   !.invited = suppliers])

\* Mutant: an awarded tender still takes quotes.
OpenAfterAward(f) == tender[f].state \notin {"none", "closed", "cancelled"}

\* _refuse_if_closed: a draft takes quotes as well.
OpenToQuotes(f) == tender[f].state \notin {"none", "closed", "awarded", "cancelled"}

InviteVendor(u, f, v) ==
  /\ May(u, "sourcing.manage")
  /\ OpenToQuotes(f)
  /\ v \in active
  /\ TenderChange(f, [tender[f] EXCEPT !.invited = @ \cup {v}])

\* rfq_has_invited_vendors: two at least.
IssueTender(u, f) ==
  /\ May(u, "sourcing.manage")
  /\ tender[f].state = "draft"
  /\ Cardinality(tender[f].invited) >= 2
  /\ TenderChange(f, [tender[f] EXCEPT !.state = "issued"])

\* One quote per invited vendor; no operation alters or withdraws it.
RecordQuote(u, f, v, price, compliant) ==
  /\ May(u, "sourcing.manage")
  /\ OpenToQuotes(f)
  /\ v \in tender[f].invited \ DOMAIN tender[f].quotes
  /\ price > 0
  /\ TenderChange(f, [tender[f] EXCEPT
       !.quotes = [w \in DOMAIN @ \cup {v} |-> IF w = v THEN price ELSE @[w]],
       !.refused = IF compliant THEN @ ELSE @ \cup {v}])

CloseTender(u, f) ==
  /\ May(u, "sourcing.manage")
  /\ tender[f].state = "issued"
  /\ TenderChange(f, [tender[f] EXCEPT !.state = "closed"])

Compliant(f) == DOMAIN tender[f].quotes \ tender[f].refused

\* Equal prices: whichever comes first.
Lowest(f) ==
  {v \in Compliant(f) : \A w \in Compliant(f) : tender[f].quotes[v] <= tender[f].quotes[w]}

\* Not choosing the cheapest compliant quote takes a written reason.
CanAwardQuote(u, f, v, reasoned) ==
  /\ ResolvePermission(u, "sourcing.award")
  /\ tender[f].state = "closed"
  /\ v \in Compliant(f)
  /\ v \in Lowest(f) \/ reasoned

AwardQuote(u, f, v, reasoned) ==
  /\ CanAwardQuote(u, f, v, reasoned)
  /\ TenderChange(f, [tender[f] EXCEPT !.state = "awarded", !.winner = v,
                                       !.reasoned = reasoned, !.awarder = u])

CancelTender(u, f) ==
  /\ May(u, "sourcing.manage")
  /\ tender[f].state \in {"draft", "issued", "closed"}
  /\ TenderChange(f, [tender[f] EXCEPT !.state = "cancelled"])

Award(f) == tender[f].quotes[tender[f].winner]

\* Mutant: the requisition is left approved.
ConvertKeepingNeed(u, f, o) ==
  /\ May(u, "sourcing.manage")
  /\ order[o].state = "none" /\ tender[f].state = "awarded"
  /\ need[tender[f].need].state = "approved"
  /\ Award(f) <= need[tender[f].need].estimate
  /\ order' = [order EXCEPT ![o] = [NoOrder EXCEPT !.state = "draft", !.tender = f,
                 !.supplier = tender[f].winner, !.total = Award(f), !.by = u]]
  /\ UNCHANGED <<need, tender, setting>>

\* convert_award_to_order.
ConvertAward(u, f, o) ==
  /\ May(u, "sourcing.manage")
  /\ order[o].state = "none" /\ tender[f].state = "awarded"
  /\ need[tender[f].need].state = "approved"
  /\ Award(f) <= need[tender[f].need].estimate
  /\ order' = [order EXCEPT ![o] = [NoOrder EXCEPT !.state = "draft", !.tender = f,
                 !.supplier = tender[f].winner, !.total = Award(f), !.by = u]]
  /\ need' = [need EXCEPT ![tender[f].need].state = "converted"]
  /\ UNCHANGED <<tender, setting>>

-----------------------------------------------------------------------------
(* Purchase orders.                                                        *)

OrderChange(o, record) ==
  /\ order' = [order EXCEPT ![o] = record]
  /\ UNCHANGED <<need, tender, setting>>

OrderStep(o, u, perm, from, to) ==
  /\ May(u, perm)
  /\ order[o].state = from
  /\ OrderChange(o, [order[o] EXCEPT !.state = to])

\* Any vendor on file, active or not.
CreateOrder(u, o, v, total) ==
  /\ May(u, "purchase_orders.create")
  /\ order[o].state = "none"
  /\ OrderChange(o, [NoOrder EXCEPT !.state = "draft", !.supplier = v, !.total = total, !.by = u])

\* Mutant: an order can still be edited while it waits for its approval.
UpdateOrderPending(u, o, v, total) ==
  /\ May(u, "purchase_orders.update")
  /\ order[o].state \in {"draft", "pending_approval"}
  /\ OrderChange(o, [order[o] EXCEPT !.supplier = v, !.total = total])

UpdateOrder(u, o, v, total) ==
  /\ May(u, "purchase_orders.update")
  /\ order[o].state = "draft"
  /\ OrderChange(o, [order[o] EXCEPT !.supplier = v, !.total = total])

\* po_has_lines.
SubmitOrder(u, o) ==
  /\ order[o].total > 0
  /\ OrderStep(o, u, "purchase_orders.create", "draft", "pending_approval")

\* Mutant: the limit of the own role decides, as it does for a requisition.
ApproveByOwnLimit(u, o) ==
  /\ ResolvePermission(u, "purchase_orders.approve")
  /\ order[o].state = "pending_approval"
  /\ ~ViolatesSelfApproval(order[o].by, u)
  /\ CanApproveAmount(RoleOf[u], order[o].total)

CanApproveOrder(u, o) ==
  /\ ResolvePermission(u, "purchase_orders.approve")
  /\ order[o].state = "pending_approval"
  /\ ~ViolatesSelfApproval(order[o].by, u)
  /\ \E required \in RequiredRoles(policies, order[o].total) : ResolveAuthority(u, required)

ApproveOrder(u, o) ==
  /\ CanApproveOrder(u, o)
  /\ OrderChange(o, [order[o] EXCEPT !.state = "approved", !.approver = u])

RejectOrder(u, o) ==
  /\ ResolvePermission(u, "purchase_orders.approve")
  /\ order[o].state = "pending_approval"
  /\ OrderChange(o, [order[o] EXCEPT !.state = "rejected"])

\* The vendor_active guard of the workflow.
IssueOrder(u, o) ==
  /\ order[o].supplier \in active
  /\ OrderStep(o, u, "purchase_orders.create", "approved", "issued")

CloseOrder(u, o) == OrderStep(o, u, "purchase_orders.create", "issued", "closed")

RecordReceipt(u, o) ==
  /\ May(u, "purchase_orders.receive")
  /\ order[o].state = "issued"
  /\ OrderChange(o, [order[o] EXCEPT !.received = TRUE])

\* vendor_service.set_status, seen from here.
BlockOrActivate(u, v) ==
  /\ May(u, "vendors.manage")
  /\ active' = IF v \in active THEN active \ {v} ELSE active \cup {v}
  /\ UNCHANGED <<need, tender, order, policies, lent>>

\* policy_service.create, update and delete.
EditPolicies(u, p, q) ==
  /\ May(u, "policies.manage")
  /\ policies' \in {policies \cup {p}, policies \ {p}, (policies \ {p}) \cup {q}}
  /\ UNCHANGED <<need, tender, order, active, lent>>

NeedOps(u, n) ==
  \/ \E estimate \in Prices : CreateRequisition(u, n, estimate)
  \/ SubmitRequisition(u, n) \/ ApproveRequisition(u, n)
  \/ RejectRequisition(u, n) \/ CancelRequisition(u, n)

TenderOps(u, f) ==
  \/ \E n \in Needs, s \in SUBSET Suppliers : CreateTender(u, f, n, s)
  \/ \E v \in Suppliers : \/ InviteVendor(u, f, v)
                          \/ \E p \in Prices, ok \in BOOLEAN : RecordQuote(u, f, v, p, ok)
                          \/ \E why \in BOOLEAN : AwardQuote(u, f, v, why)
  \/ IssueTender(u, f) \/ CloseTender(u, f) \/ CancelTender(u, f)
  \/ \E o \in Orders : ConvertAward(u, f, o)

OrderOps(u, o) ==
  \/ \E v \in Suppliers, p \in Prices : CreateOrder(u, o, v, p) \/ UpdateOrder(u, o, v, p)
  \/ SubmitOrder(u, o) \/ ApproveOrder(u, o) \/ RejectOrder(u, o)
  \/ IssueOrder(u, o) \/ CloseOrder(u, o) \/ RecordReceipt(u, o)

ProcurementNext ==
  \/ \E u \in Users : \/ \E n \in Needs : NeedOps(u, n)
                      \/ \E f \in Tenders : TenderOps(u, f)
                      \/ \E o \in Orders : OrderOps(u, o)
                      \/ \E v \in Suppliers : BlockOrActivate(u, v)
                      \/ \E p, q \in Policies : EditPolicies(u, p, q)
  \/ DelegationNext /\ UNCHANGED <<need, tender, order, active, policies>>

ProcurementSpec == ProcurementInit /\ [][ProcurementNext]_procVars

-----------------------------------------------------------------------------
(* Properties.                                                             *)

RequisitionsOK ==
  need \in [Needs ->
    [state : {"none", "draft", "pending_approval", "approved", "converted", "rejected",
              "cancelled"},
     by : Users \cup {NoUser}, approver : Users \cup {NoUser}, estimate : Prices \cup {0}]]

TenderRecords ==
  [state : {"none", "draft", "issued", "closed", "awarded", "cancelled"},
   need : Needs \cup {"none"}, by : Users \cup {NoUser}, invited : SUBSET Suppliers,
   quotes : UNION {[S -> Prices] : S \in SUBSET Suppliers}, refused : SUBSET Suppliers,
   winner : Suppliers \cup {NoSupplier}, reasoned : BOOLEAN, awarder : Users \cup {NoUser}]

TendersOK ==
  /\ tender \in [Tenders -> TenderRecords]
  /\ \A f \in Tenders : DOMAIN tender[f].quotes \subseteq tender[f].invited

OrderRecords ==
  [state : {"none", "draft", "pending_approval", "approved", "issued", "rejected", "closed"},
   tender : Tenders \cup {NoTender}, supplier : Suppliers \cup {NoSupplier},
   total : Prices \cup {0}, by : Users \cup {NoUser}, approver : Users \cup {NoUser},
   received : BOOLEAN]

OrdersOK == order \in [Orders -> OrderRecords]

\* Records hold values of their kind.
ProcurementTypeOK ==
  /\ RequisitionsOK /\ TendersOK /\ OrdersOK
  /\ active \subseteq Suppliers /\ policies \subseteq Policies

\* sourcing_service.py:551-552: one approval cannot be spent twice, however many
\* tenders a requisition was taken to.
SpentOnce ==
  \A o, p \in Orders :
    (o # p /\ order[o].tender # NoTender /\ order[p].tender # NoTender)
      => tender[order[o].tender].need # tender[order[p].tender].need

StandsUp(f) ==
  /\ tender[f].winner \in Compliant(f)
  /\ tender[f].reasoned \/ tender[f].winner \in Lowest(f)

\* sourcing_service.py:9-19: the award stands up to the field it was chosen from:
\* the winner complies and was cheapest, or there is a reason on record.
AwardStandsUp == \A f \in Tenders : tender[f].state = "awarded" => StandsUp(f)

Terms(o) == <<order[o].tender, order[o].supplier, order[o].total, order[o].by>>
Bound == {"approved", "issued", "closed"}

\* Signing for the order took u the permission, an authority that the policies
\* in force ask for at its total, borrowed perhaps, and not to have raised it.
Signs(u, o) ==
  /\ ResolvePermission(u, "purchase_orders.approve")
  /\ IsAdmin(u) \/ u # order[o].by
  /\ \E role \in RequiredRoles(policies, order[o].total) :
       EffectiveRoles(u) \cap {"admin", role} # {}

\* purchase_order_service.py:123-125, the approval, the receipt and the invoice
\* refer to the same thing: from its submission on an order keeps its vendor, its
\* total, its tender and its raiser.  It becomes binding only from being
\* submitted, by the approval of somebody who may sign for that total at that
\* moment, stays so with that approver, and is received against only once issued.
OrderedAsApproved ==
  [][\A o \in Orders :
       /\ order[o].state \notin {"none", "draft"} => UNCHANGED Terms(o)
       /\ order[o].state \in Bound =>
            order'[o].state \in Bound /\ order'[o].approver = order[o].approver
       /\ order[o].state \notin Bound /\ order'[o].state \in Bound =>
            /\ order[o].state = "pending_approval" /\ order'[o].state = "approved"
            /\ \E u \in Users : order'[o].approver = u /\ Signs(u, o)
       /\ order'[o].received => order[o].received \/ order[o].state = "issued"]_procVars

\* requisition_service.py:12-15: the approved estimate is a ceiling, an order
\* raised against a requisition may not exceed it.
CeilingHolds ==
  \A o \in Orders :
    (order[o].tender # NoTender /\ order[o].state = "issued")
      => order[o].total <= need[tender[order[o].tender].need].estimate

=============================================================================
