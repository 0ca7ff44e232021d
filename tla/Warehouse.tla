------------------------------ MODULE Warehouse ------------------------------
(***************************************************************************)
(* The documents that move stock (inventory_adjustment_service.py,         *)
(* vendor_return_service.py, quality_check_service.py): write-offs and     *)
(* other adjustments, returns to a vendor, inspections and putaways of     *)
(* what was delivered.  Requests run one after another here; StockLedger   *)
(* has the transactions that overlap.                                      *)
(*                                                                         *)
(* One item.  Every document is about the same location, the shelf; what   *)
(* fails an inspection moves to quarantine, where one is set up.           *)
(***************************************************************************)
EXTENDS Governance, Integers, FiniteSets, FiniteSetsExt

CONSTANTS Adjustments, Returns,
          Checks, Deliveries,  \* inspections, and the receipt lines they are of
          Delivered,           \* how much came on each line
          Opening,             \* what the shelf holds at the start
          Quantities, Costs,      \* bounds: quantities of a document, standard costs
          MaxMoved             \* bound on what is put away

ASSUME WarehouseAssumption ==
  /\ Delivered \in [Deliveries -> Nat] /\ Opening \in Nat /\ MaxMoved \in Nat
  /\ Quantities \subseteq Int \ {0} /\ Costs \subseteq Nat
  /\ IsFiniteSet(Adjustments) /\ IsFiniteSet(Returns) /\ IsFiniteSet(Checks)

VARIABLES adjustment, vendorReturn, check,
          onHand,    \* the balances of the shelf, the quarantine and the store
          putAway,   \* what was put away so far
          cost       \* the item's standard_cost

houseVars == <<adjustment, vendorReturn, check, onHand, putAway, cost>>

DEFAULT_DUAL_APPROVAL_THRESHOLD == 50000

NoAdjustment == [state |-> "none", by |-> NoUser, change |-> 0, cost |-> 0, dual |-> FALSE,
                 first |-> NoUser, second |-> NoUser]
NoReturn == [state |-> "none", by |-> NoUser, quantity |-> 0, approver |-> NoUser]
NoCheck == [of |-> "none", accepted |-> 0, rejected |-> 0]

WarehouseInit ==
  /\ adjustment = [a \in Adjustments |-> NoAdjustment]
  /\ vendorReturn = [r \in Returns |-> NoReturn]
  /\ check = [c \in Checks |-> NoCheck]
  /\ onHand = [shelf |-> Opening, quarantine |-> 0, store |-> 0]
  /\ putAway = 0
  /\ cost \in Costs

\* post_movement: no balance falls below zero, or the whole request is undone.
Covers(at, quantity) == onHand[at] + quantity >= 0

Moves(at, quantity) ==
  /\ Covers(at, quantity)
  /\ onHand' = [onHand EXCEPT ![at] = @ + quantity]

Transfers(to, quantity) ==
  /\ onHand.shelf >= quantity
  /\ onHand' = [onHand EXCEPT !.shelf = @ - quantity, ![to] = @ + quantity]

-----------------------------------------------------------------------------
(* Adjustments.                                                            *)

AdjustmentChange(a, record) ==
  /\ adjustment' = [adjustment EXCEPT ![a] = record]
  /\ UNCHANGED <<vendorReturn, check, putAway, cost>>

\* The line keeps the cost of the day.
CreateAdjustment(u, a, change) ==
  /\ May(u, "inventory.adjust")
  /\ adjustment[a].state = "none"
  /\ AdjustmentChange(a, [NoAdjustment EXCEPT !.state = "draft", !.by = u, !.change = change,
                                              !.cost = cost])
  /\ UNCHANGED onHand

Abs(n) == IF n < 0 THEN -n ELSE n
Value(a) == Abs(adjustment[a].change) * adjustment[a].cost

SubmitAdjustment(u, a) ==
  /\ May(u, "inventory.adjust")
  /\ adjustment[a].state = "draft"
  /\ AdjustmentChange(a, [adjustment[a] EXCEPT
       !.state = "pending_approval", !.dual = Value(a) > DEFAULT_DUAL_APPROVAL_THRESHOLD])
  /\ UNCHANGED onHand

Approvable(u, a) ==
  /\ May(u, "inventory.approve_adjustment")
  /\ adjustment[a].state = "pending_approval"
  /\ adjustment[a].by # u

CanSignFirst(u, a) == Approvable(u, a) /\ adjustment[a].first = NoUser /\ adjustment[a].dual

FirstOfTwo(u, a) ==
  /\ CanSignFirst(u, a)
  /\ AdjustmentChange(a, [adjustment[a] EXCEPT !.first = u])
  /\ UNCHANGED onHand

\* Mutant: whoever approved first may approve again.
ApproveAlone(u, a) ==
  /\ Approvable(u, a)
  /\ \/ adjustment[a].first = NoUser /\ ~adjustment[a].dual
     \/ adjustment[a].first # NoUser
  /\ Moves("shelf", adjustment[a].change)
  /\ AdjustmentChange(a, [adjustment[a] EXCEPT
       !.state = "posted",
       !.first  = IF @ = NoUser THEN u ELSE @,
       !.second = IF adjustment[a].first = NoUser THEN NoUser ELSE u])

CanSignLast(u, a) ==
  /\ Approvable(u, a)
  /\ \/ adjustment[a].first = NoUser /\ ~adjustment[a].dual
     \/ adjustment[a].first \notin {NoUser, u}

\* The last approval posts the adjustment in the same transaction.
ApproveAdjustment(u, a) ==
  /\ CanSignLast(u, a)
  /\ Moves("shelf", adjustment[a].change)
  /\ AdjustmentChange(a, [adjustment[a] EXCEPT
       !.state = "posted",
       !.first  = IF @ = NoUser THEN u ELSE @,
       !.second = IF adjustment[a].first = NoUser THEN NoUser ELSE u])

RejectAdjustment(u, a) ==
  /\ May(u, "inventory.approve_adjustment")
  /\ adjustment[a].state = "pending_approval"
  /\ AdjustmentChange(a, [adjustment[a] EXCEPT !.state = "rejected"])
  /\ UNCHANGED onHand

CancelAdjustment(u, a) ==
  /\ May(u, "inventory.adjust")
  /\ adjustment[a].state \notin {"none", "posted", "cancelled"}
  /\ AdjustmentChange(a, [adjustment[a] EXCEPT !.state = "cancelled"])
  /\ UNCHANGED onHand

-----------------------------------------------------------------------------
(* Returns to a vendor.                                                    *)

ReturnChange(r, record) ==
  /\ vendorReturn' = [vendorReturn EXCEPT ![r] = record]
  /\ UNCHANGED <<adjustment, check, putAway, cost>>

ReturnStep(u, r, perm, from, to) ==
  /\ May(u, perm)
  /\ vendorReturn[r].state \in from
  /\ ReturnChange(r, [vendorReturn[r] EXCEPT !.state = to])

CreateReturn(u, r, quantity) ==
  /\ May(u, "inventory.manage_returns")
  /\ vendorReturn[r].state = "none" /\ quantity > 0
  /\ ReturnChange(r, [NoReturn EXCEPT !.state = "draft", !.by = u, !.quantity = quantity])
  /\ UNCHANGED onHand

SubmitReturn(u, r) ==
  /\ ReturnStep(u, r, "inventory.manage_returns", {"draft"}, "pending_approval")
  /\ UNCHANGED onHand

CanApproveReturn(u, r) ==
  /\ May(u, "inventory.approve_return")
  /\ vendorReturn[r].state = "pending_approval"
  /\ vendorReturn[r].by # u

ApproveReturn(u, r) ==
  /\ CanApproveReturn(u, r)
  /\ ReturnChange(r, [vendorReturn[r] EXCEPT !.state = "approved", !.approver = u])
  /\ UNCHANGED onHand

\* Stock leaves when the goods do, not when somebody agrees to it.
Dispatch(u, r) ==
  /\ ReturnStep(u, r, "inventory.manage_returns", {"approved"}, "dispatched")
  /\ Moves("shelf", -vendorReturn[r].quantity)

RecordCredit(u, r) ==
  /\ ReturnStep(u, r, "inventory.manage_returns", {"dispatched"}, "credited")
  /\ UNCHANGED onHand

RejectReturn(u, r) ==
  /\ ReturnStep(u, r, "inventory.approve_return", {"pending_approval"}, "rejected")
  /\ UNCHANGED onHand

\* Mutant: goods that left can be called back on paper.
CancelReturnGone(u, r) ==
  /\ ReturnStep(u, r, "inventory.manage_returns",
       {"draft", "pending_approval", "approved", "rejected", "dispatched"}, "cancelled")
  /\ UNCHANGED onHand

CancelReturn(u, r) ==
  /\ ReturnStep(u, r, "inventory.manage_returns",
       {"draft", "pending_approval", "approved", "rejected"}, "cancelled")
  /\ UNCHANGED onHand

-----------------------------------------------------------------------------
(* Inspection and putaway.                                                 *)

\* One check covers no more than its line; nothing adds up two checks of a line.
RecordCheck(u, c, d, accepted, rejected) ==
  /\ May(u, "inventory.inspect")
  /\ check[c] = NoCheck
  /\ accepted + rejected > 0 /\ accepted + rejected <= Delivered[d]
  /\ check' = [check EXCEPT ![c] = [of |-> d, accepted |-> accepted, rejected |-> rejected]]
  /\ IF rejected > 0 THEN Transfers("quarantine", rejected) ELSE UNCHANGED onHand
  /\ UNCHANGED <<adjustment, vendorReturn, putAway, cost>>

\* From the shelf to the store, whatever the line brought.
Putaway(u, quantity) ==
  /\ May(u, "inventory.inspect")
  /\ quantity > 0 /\ putAway + quantity <= MaxMoved
  /\ Transfers("store", quantity)
  /\ putAway' = putAway + quantity
  /\ UNCHANGED <<adjustment, vendorReturn, check, cost>>

\* update_item.
UpdateItemCost(u, c) ==
  /\ May(u, "inventory.manage_items")
  /\ cost' = c
  /\ UNCHANGED <<adjustment, vendorReturn, check, onHand, putAway>>

AdjustmentOps(u, a) ==
  \/ \E change \in Quantities : CreateAdjustment(u, a, change)
  \/ SubmitAdjustment(u, a) \/ FirstOfTwo(u, a) \/ ApproveAdjustment(u, a)
  \/ RejectAdjustment(u, a) \/ CancelAdjustment(u, a)

ReturnOps(u, r) ==
  \/ \E quantity \in Quantities : CreateReturn(u, r, quantity)
  \/ SubmitReturn(u, r) \/ ApproveReturn(u, r) \/ RejectReturn(u, r)
  \/ Dispatch(u, r) \/ RecordCredit(u, r) \/ CancelReturn(u, r)

InspectionOps(u) ==
  \/ \E c \in Checks, d \in Deliveries : \E accepted, rejected \in 0 .. Delivered[d] :
       RecordCheck(u, c, d, accepted, rejected)
  \/ \E quantity \in 1 .. MaxMoved : Putaway(u, quantity)

WarehouseNext ==
  \E u \in Users : \/ \E a \in Adjustments : AdjustmentOps(u, a)
                   \/ \E r \in Returns : ReturnOps(u, r)
                   \/ InspectionOps(u)
                   \/ \E c \in Costs : UpdateItemCost(u, c)

WarehouseSpec == WarehouseInit /\ [][WarehouseNext]_houseVars

-----------------------------------------------------------------------------
(* Properties.                                                             *)

AdjustmentRecords ==
  [state : {"none", "draft", "pending_approval", "posted", "rejected", "cancelled"},
   by : Users \cup {NoUser}, change : Quantities \cup {0}, cost : Costs \cup {0},
   dual : BOOLEAN, first : Users \cup {NoUser}, second : Users \cup {NoUser}]

ReturnRecords ==
  [state : {"none", "draft", "pending_approval", "approved", "dispatched", "credited",
            "rejected", "cancelled"},
   by : Users \cup {NoUser}, quantity : Nat, approver : Users \cup {NoUser}]

CheckRecords == [of : Deliveries \cup {"none"}, accepted : Nat, rejected : Nat]

\* Records hold values of their kind, and no balance is below zero.
WarehouseTypeOK ==
  /\ adjustment \in [Adjustments -> AdjustmentRecords]
  /\ vendorReturn \in [Returns -> ReturnRecords]
  /\ check \in [Checks -> CheckRecords]
  /\ onHand \in [{"shelf", "quarantine", "store"} -> Nat]
  /\ putAway \in 0 .. MaxMoved /\ cost \in Costs

\* inventory_adjustment_service.py: whoever counts the shelf never signs the
\* write-off, administrators included, and one worth more than the threshold
\* when it was raised carries two different signatures, whatever the item costs
\* by the time it is posted.
WriteOffsCountersigned ==
  \A a \in Adjustments : adjustment[a].state = "posted" =>
    /\ adjustment[a].first \notin {NoUser, adjustment[a].by}
    /\ Value(a) > DEFAULT_DUAL_APPROVAL_THRESHOLD =>
         adjustment[a].second \notin {NoUser, adjustment[a].by, adjustment[a].first}

\* What the adjustments that stand posted changed, what the returns that stand
\* sent took away, and what inspections rejected.
PostedChange ==
  [a \in Adjustments |-> IF adjustment[a].state = "posted" THEN adjustment[a].change ELSE 0]
SentBack ==
  [r \in Returns |-> IF vendorReturn[r].state \in {"dispatched", "credited"}
                     THEN vendorReturn[r].quantity ELSE 0]
Rejected == [c \in Checks |-> check[c].rejected]

\* vendor_return_service.py:18-20 and the documents' terminal states: the shelf
\* holds what it held, plus the adjustments that stand posted, less the returns
\* that stand sent and what inspections and putaways took away.
StockExplained ==
  LET rejected == SumFunctionOnSet(Rejected, Checks)
  IN /\ onHand.shelf = Opening + SumFunctionOnSet(PostedChange, Adjustments)
                         - SumFunctionOnSet(SentBack, Returns) - rejected - putAway
     /\ onHand.quarantine = rejected /\ onHand.store = putAway

\* quality_check_service.py:91-96: a check cannot cover more than was delivered.
InspectedWithinDelivery ==
  \A d \in Deliveries :
    LET covered == [c \in Checks |-> check[c].accepted + check[c].rejected]
    IN  SumFunctionOnSet(covered, {c \in Checks : check[c].of = d}) <= Delivered[d]

=============================================================================
