------------------------------ MODULE SpendInbox ----------------------------
(***************************************************************************)
(* The decision inbox over requisitions, tenders, orders, adjustments and  *)
(* returns (decision_inbox_service.py).  The inbox repeats from the        *)
(* services who may decide what; each collector is one operator here.      *)
(***************************************************************************)
EXTENDS Procurement, Warehouse

RequisitionItems(u) ==
  {n \in Needs : /\ May(u, "requisitions.approve")
                 /\ need[n].state = "pending_approval"
                 /\ ~ViolatesSelfApproval(need[n].by, u)}

TenderItems(u) ==
  {f \in Tenders : May(u, "sourcing.award") /\ tender[f].state = "closed"}

OrderItems(u) ==
  {o \in Orders : /\ May(u, "purchase_orders.approve")
                  /\ order[o].state = "pending_approval"
                  /\ ~ViolatesSelfApproval(order[o].by, u)}

\* Mutant: what carries a first signature is done with.
UnsignedItems(u) ==
  {a \in Adjustments : /\ May(u, "inventory.approve_adjustment")
                       /\ adjustment[a].state = "pending_approval"
                       /\ adjustment[a].by # u
                       /\ adjustment[a].first = NoUser}

AdjustmentItems(u) ==
  {a \in Adjustments : /\ May(u, "inventory.approve_adjustment")
                       /\ adjustment[a].state = "pending_approval"
                       /\ u \notin {adjustment[a].by, adjustment[a].first}}

ReturnItems(u) ==
  {r \in Returns : /\ May(u, "inventory.approve_return")
                   /\ vendorReturn[r].state = "pending_approval"
                   /\ vendorReturn[r].by # u}

-----------------------------------------------------------------------------
(* Properties.                                                             *)

\* decision_inbox_service.py:263-265 and 484-486: nothing is hidden from a
\* person who may act on it: what a user can decide on the authority of the own
\* role, through whichever of the services, is in the user's inbox.  Of returns
\* and adjustments the inbox lists nothing else either; an adjustment may still
\* find the shelf short when it is posted.
OwnWorkShown ==
  \A u \in Users : EffectiveRoles(u) = {RoleOf[u]} =>
    /\ \A n \in Needs : CanApproveRequisition(u, n) => n \in RequisitionItems(u)
    /\ \A o \in Orders : CanApproveOrder(u, o) => o \in OrderItems(u)
    /\ \A f \in Tenders, v \in Suppliers, why \in BOOLEAN :
         CanAwardQuote(u, f, v, why) => f \in TenderItems(u)
    /\ AdjustmentItems(u) = {a \in Adjustments : CanSignFirst(u, a) \/ CanSignLast(u, a)}
    /\ ReturnItems(u) = {r \in Returns : CanApproveReturn(u, r)}

=============================================================================
