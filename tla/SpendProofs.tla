----------------------------- MODULE SpendProofs ----------------------------
(***************************************************************************)
(* Theorems about what is spent and what is in stock: Procurement,         *)
(* Warehouse, the inbox their approvals share and ThreeWayMatch, for any   *)
(* number of people, documents and goods.                                  *)
(***************************************************************************)
EXTENDS SpendInbox, ThreeWayMatch, Sums

-----------------------------------------------------------------------------
(* Procurement: records of their kind.                                     *)

\* A tender that was begun is about a need.
TendersNamed == \A f \in Tenders : tender[f].state # "none" => tender[f].need \in Needs

\* A tender that was never opened is a row like any other, without quotes.
LEMMA NoRfqType == NoRfq \in TenderRecords /\ DOMAIN NoRfq.quotes = {}
<1>1. NoQuotes \in [{} -> Prices] /\ {} \in SUBSET Suppliers
  BY DEF NoQuotes
<1>2. NoQuotes \in UNION {[S -> Prices] : S \in SUBSET Suppliers}
  BY <1>1
<1> QED
  BY <1>1, <1>2 DEF NoRfq, TenderRecords

\* The books start with rows of their kind.
LEMMA ProcurementInitType == ProcurementInit => ProcurementTypeOK
BY NoRfqType DEF ProcurementInit, ProcurementTypeOK, RequisitionsOK, TendersOK, OrdersOK, OrderRecords,
                 NoNeed, NoOrder

\* What people do with a requisition keeps every row of its kind.
LEMMA NeedType ==
  ASSUME ProcurementTypeOK, NEW u \in Users, NEW n \in Needs, NeedOps(u, n)
  PROVE  ProcurementTypeOK'
<1>1. RequisitionsOK'
  <2> USE DEF ProcurementTypeOK, RequisitionsOK
  <2>1. ASSUME NEW estimate \in Prices, CreateRequisition(u, n, estimate)
        PROVE  RequisitionsOK'
    BY <2>1 DEF CreateRequisition
  <2>2. CASE ApproveRequisition(u, n)
    <3>1. need' = [need EXCEPT ![n] = [need[n] EXCEPT !.state = "approved", !.approver = u]]
      BY <2>2 DEF ApproveRequisition, CanApproveRequisition
    <3> QED
      BY <3>1
  <2>3. CASE SubmitRequisition(u, n)
    BY <2>3 DEF SubmitRequisition, NeedStep
  <2>4. CASE RejectRequisition(u, n)
    BY <2>4 DEF RejectRequisition
  <2>5. CASE CancelRequisition(u, n)
    BY <2>5 DEF CancelRequisition, NeedStep
  <2> QED BY <2>1, <2>2, <2>3, <2>4, <2>5 DEF NeedOps
<1>2. UNCHANGED <<tender, order, active, policies>>
  BY DEF setting, NeedOps, CreateRequisition, SubmitRequisition, ApproveRequisition,
         CanApproveRequisition, RejectRequisition,
         CancelRequisition, NeedStep
<1> QED
  BY <1>1, <1>2 DEF ProcurementTypeOK, TendersOK, OrdersOK

\* A change of one tender keeps every row of its kind and the other tenders
\* as they are.
LEMMA TenderChangeType ==
  ASSUME ProcurementTypeOK, NEW f \in Tenders, NEW r \in TenderRecords,
         DOMAIN r.quotes \subseteq r.invited, TenderChange(f, r)
  PROVE  /\ ProcurementTypeOK'
         /\ \A g \in Tenders : tender'[g] = IF g = f THEN r ELSE tender[g]
<1>1. \A g \in Tenders : tender'[g] = IF g = f THEN r ELSE tender[g]
  BY DEF TenderChange, ProcurementTypeOK, TendersOK
<1>2. tender' \in [Tenders -> TenderRecords]
  BY DEF TenderChange, ProcurementTypeOK, TendersOK
<1> QED
  BY <1>1, <1>2 DEF setting, TenderChange, ProcurementTypeOK, TendersOK, RequisitionsOK, OrdersOK

\* A tender that changes keeps its need, was not awarded, and is awarded only
\* to a winner that stands up.
LEMMA TenderStep ==
  ASSUME ProcurementTypeOK, NEW u \in Users, NEW f \in Tenders, TenderOps(u, f),
         ~\E o \in Orders : ConvertAward(u, f, o)
  PROVE  /\ ProcurementTypeOK'
         /\ UNCHANGED <<need, order>>
         /\ \A g \in Tenders \ {f} : tender'[g] = tender[g]
         /\ tender[f].state # "awarded"
         /\ tender'[f].need \in IF tender[f].state = "none" THEN Needs ELSE {tender[f].need}
         /\ tender'[f].state = "awarded" => StandsUp(f)'
<1> DEFINE
      Goal == /\ ProcurementTypeOK'
              /\ UNCHANGED <<need, order>>
              /\ \A g \in Tenders \ {f} : tender'[g] = tender[g]
              /\ tender[f].state # "awarded"
              /\ tender'[f].need \in IF tender[f].state = "none" THEN Needs ELSE {tender[f].need}
              /\ tender'[f].state = "awarded" => StandsUp(f)'
<1> SUFFICES Goal
  OBVIOUS
<1>0. tender[f] \in TenderRecords /\ DOMAIN tender[f].quotes \subseteq tender[f].invited
  BY DEF ProcurementTypeOK, TendersOK
<1>1. ASSUME NEW r \in TenderRecords, DOMAIN r.quotes \subseteq r.invited, TenderChange(f, r),
             tender[f].state # "awarded", r.state # "awarded",
             r.need \in IF tender[f].state = "none" THEN Needs ELSE {tender[f].need}
      PROVE  Goal
  <2>1. ProcurementTypeOK' /\ \A g \in Tenders : tender'[g] = IF g = f THEN r ELSE tender[g]
    BY <1>1, TenderChangeType
  <2>2. tender'[f] = r /\ \A g \in Tenders \ {f} : tender'[g] = tender[g]
    BY <2>1
  <2> QED
    BY <1>1, <2>1, <2>2 DEF TenderChange
<1> HIDE DEF Goal
<1>2. ASSUME NEW n \in Needs, NEW s \in SUBSET Suppliers, CreateTender(u, f, n, s)
      PROVE  Goal
  <2> DEFINE r == [NoRfq EXCEPT !.state = "draft", !.need = n, !.by = u, !.invited = s]
  <2>1. r \in TenderRecords /\ r.quotes = NoRfq.quotes /\ r.state = "draft" /\ r.need = n
    BY NoRfqType DEF TenderRecords
  <2>2. DOMAIN r.quotes \subseteq r.invited
    BY <2>1, NoRfqType
  <2>3. TenderChange(f, r) /\ tender[f].state = "none"
    BY <1>2 DEF CreateTender
  <2> HIDE DEF r
  <2> QED
    BY <1>1, <2>1, <2>2, <2>3
<1>3. ASSUME NEW v \in Suppliers, InviteVendor(u, f, v)
      PROVE  Goal
  <2> DEFINE r == [tender[f] EXCEPT !.invited = @ \cup {v}]
  <2>1. /\ r \in TenderRecords /\ DOMAIN r.quotes \subseteq r.invited
        /\ r.state = tender[f].state /\ r.need = tender[f].need
    BY <1>0 DEF TenderRecords
  <2>2. TenderChange(f, r) /\ tender[f].state \notin {"none", "awarded"}
    BY <1>3 DEF InviteVendor, OpenToQuotes
  <2> HIDE DEF r
  <2> QED
    BY <1>1, <2>1, <2>2
<1>4. ASSUME NEW v \in Suppliers, NEW p \in Prices, NEW ok \in BOOLEAN,
             RecordQuote(u, f, v, p, ok)
      PROVE  Goal
  <2> DEFINE q == [w \in DOMAIN tender[f].quotes \cup {v} |->
                     IF w = v THEN p ELSE tender[f].quotes[w]]
             b == IF ok THEN tender[f].refused ELSE tender[f].refused \cup {v}
             r == [tender[f] EXCEPT !.quotes = q, !.refused = b]
  <2>1. v \in tender[f].invited /\ tender[f].state \notin {"none", "awarded"}
    BY <1>4 DEF RecordQuote, OpenToQuotes
  <2>2. q \in UNION {[S -> Prices] : S \in SUBSET Suppliers} /\ DOMAIN q \subseteq tender[f].invited
    <3>1. PICK S \in SUBSET Suppliers : tender[f].quotes \in [S -> Prices]
      BY <1>0 DEF TenderRecords
    <3>2. q \in [S \cup {v} -> Prices] /\ S \cup {v} \in SUBSET Suppliers
      BY <3>1
    <3> QED
      BY <1>0, <2>1, <3>1, <3>2
  <2>3. b \in SUBSET Suppliers
    BY <1>0 DEF TenderRecords
  <2>4. TenderChange(f, r)
    BY <1>4 DEF RecordQuote
  <2> HIDE DEF q, b
  <2>5. /\ r \in TenderRecords /\ DOMAIN r.quotes \subseteq r.invited
        /\ r.state = tender[f].state /\ r.need = tender[f].need
    BY <1>0, <2>2, <2>3 DEF TenderRecords
  <2> HIDE DEF r
  <2> QED
    BY <1>1, <2>1, <2>4, <2>5
<1>5. ASSUME NEW v \in Suppliers, NEW why \in BOOLEAN, AwardQuote(u, f, v, why)
      PROVE  Goal
  <2> DEFINE r == [tender[f] EXCEPT !.state = "awarded", !.winner = v, !.reasoned = why,
                                    !.awarder = u]
  <2>1. /\ r \in TenderRecords /\ DOMAIN r.quotes \subseteq r.invited
        /\ r.need = tender[f].need /\ r.quotes = tender[f].quotes /\ r.refused = tender[f].refused
        /\ r.winner = v /\ r.reasoned = why
    BY <1>0 DEF TenderRecords
  <2>2. /\ TenderChange(f, r) /\ tender[f].state = "closed"
        /\ v \in Compliant(f) /\ (v \in Lowest(f) \/ why)
    BY <1>5 DEF AwardQuote, CanAwardQuote
  <2>3. ProcurementTypeOK' /\ \A g \in Tenders : tender'[g] = IF g = f THEN r ELSE tender[g]
    BY <2>1, <2>2, TenderChangeType
  <2>4. tender'[f] = r /\ \A g \in Tenders \ {f} : tender'[g] = tender[g]
    BY <2>3
  <2> HIDE DEF r
  <2>5. StandsUp(f)'
    BY <2>1, <2>2, <2>4 DEF StandsUp, Compliant, Lowest
  <2> QED
    BY <2>1, <2>2, <2>3, <2>4, <2>5 DEF Goal, TenderChange
<1> DEFINE Moved(to) == [tender[f] EXCEPT !.state = to]
<1>6. ASSUME NEW to \in {"issued", "closed", "cancelled"}, TenderChange(f, Moved(to)),
             tender[f].state \in {"draft", "issued", "closed"}
      PROVE  Goal
  <2> DEFINE r == Moved(to)
  <2>1. /\ r \in TenderRecords /\ DOMAIN r.quotes \subseteq r.invited
        /\ r.state = to /\ r.need = tender[f].need
    BY <1>0 DEF TenderRecords
  <2>2. TenderChange(f, r) /\ tender[f].state \notin {"none", "awarded"} /\ r.state # "awarded"
    BY <1>6, <2>1
  <2> HIDE DEF r
  <2> QED
    BY <1>1, <2>1, <2>2
<1>7. CASE IssueTender(u, f) \/ CloseTender(u, f) \/ CancelTender(u, f)
  <2>1. PICK to \in {"issued", "closed", "cancelled"} : TenderChange(f, Moved(to))
    BY <1>7 DEF IssueTender, CloseTender, CancelTender
  <2>2. tender[f].state \in {"draft", "issued", "closed"}
    BY <1>7 DEF IssueTender, CloseTender, CancelTender
  <2> HIDE DEF Moved
  <2> QED
    BY <1>6, <2>1, <2>2
<1> QED
  BY <1>2, <1>3, <1>4, <1>5, <1>7 DEF TenderOps

\* What may become of order o in a step: the record k.
OrderKept(o, k) ==
  /\ order[o].state \notin {"none", "draft"} =>
       <<k.tender, k.supplier, k.total, k.by>> = Terms(o)
  /\ order[o].state \in Bound => k.state \in Bound /\ k.approver = order[o].approver
  /\ order[o].state \notin Bound /\ k.state \in Bound =>
       /\ order[o].state = "pending_approval" /\ k.state = "approved"
       /\ \E u \in Users : k.approver = u /\ Signs(u, o)
  /\ k.received => order[o].received \/ order[o].state = "issued"

\* Whoever passes the gates of an approval may sign.
LEMMA ApproverSigns ==
  ASSUME NEW u \in Users, NEW o \in Orders, CanApproveOrder(u, o)
  PROVE  order[o].state = "pending_approval" /\ Signs(u, o)
BY DEF CanApproveOrder, Signs, ViolatesSelfApproval, ResolveAuthority

\* An order that changes comes from no other tender than before, and past the
\* draft keeps what it says.
LEMMA OrderStepKeeps ==
  ASSUME ProcurementTypeOK, NEW u \in Users, NEW o \in Orders, OrderOps(u, o)
  PROVE  /\ ProcurementTypeOK'
         /\ UNCHANGED <<need, tender>>
         /\ \A p \in Orders \ {o} : order'[p] = order[p]
         /\ order'[o].tender \in {order[o].tender, NoTender}
         /\ OrderKept(o, order'[o])
<1> USE DEF Bound, Terms
<1> DEFINE
      Keeps(r) == r.tender \in {order[o].tender, NoTender} /\ OrderKept(o, r)
      Goal == /\ ProcurementTypeOK'
              /\ UNCHANGED <<need, tender>>
              /\ \A p \in Orders \ {o} : order'[p] = order[p]
              /\ Keeps(order'[o])
<1> SUFFICES Goal
  OBVIOUS
<1>0. order[o] \in OrderRecords
  BY DEF ProcurementTypeOK, OrdersOK
<1>1. ASSUME NEW r \in OrderRecords, OrderChange(o, r), Keeps(r)
      PROVE  Goal
  <2>1. order' \in [Orders -> OrderRecords] /\ \A p \in Orders : order'[p] = IF p = o THEN r ELSE order[p]
    BY <1>1 DEF OrderChange, ProcurementTypeOK, OrdersOK
  <2>2. ProcurementTypeOK'
    BY <1>1, <2>1 DEF setting, OrderChange, ProcurementTypeOK, OrdersOK, RequisitionsOK, TendersOK
  <2>3. order'[o] = r
    BY <2>1
  <2> HIDE DEF Keeps
  <2> QED
    BY <1>1, <2>1, <2>2, <2>3 DEF OrderChange
<1> HIDE DEF Goal
<1>2. ASSUME NEW v \in Suppliers, NEW p \in Prices, CreateOrder(u, o, v, p)
      PROVE  Goal
  <2> DEFINE r == [NoOrder EXCEPT !.state = "draft", !.supplier = v, !.total = p, !.by = u]
  <2>1. r \in OrderRecords /\ r.tender = NoTender /\ r.state = "draft" /\ ~r.received
    BY DEF OrderRecords, NoOrder
  <2>2. OrderChange(o, r) /\ order[o].state = "none"
    BY <1>2 DEF CreateOrder
  <2>3. Keeps(r)
    BY <2>1, <2>2 DEF OrderKept
  <2> HIDE DEF r, Keeps
  <2> QED
    BY <1>1, <2>1, <2>2, <2>3
<1>3. ASSUME NEW v \in Suppliers, NEW p \in Prices, UpdateOrder(u, o, v, p)
      PROVE  Goal
  <2> DEFINE r == [order[o] EXCEPT !.supplier = v, !.total = p]
  <2>1. /\ r \in OrderRecords /\ r.tender = order[o].tender
        /\ r.state = order[o].state /\ r.received = order[o].received
    BY <1>0 DEF OrderRecords
  <2>2. OrderChange(o, r) /\ order[o].state = "draft"
    BY <1>3 DEF UpdateOrder
  <2>3. Keeps(r)
    BY <2>1, <2>2 DEF OrderKept
  <2> HIDE DEF r, Keeps
  <2> QED
    BY <1>1, <2>1, <2>2, <2>3
<1> DEFINE Moved(to) == [order[o] EXCEPT !.state = to]
<1>4. ASSUME NEW to \in {"pending_approval", "rejected", "issued", "closed"},
             OrderChange(o, Moved(to)),
             to \in Bound <=> order[o].state \in Bound
      PROVE  Goal
  <2> DEFINE r == Moved(to)
  <2>1. r \in OrderRecords /\ Keeps(r)
    BY <1>0, <1>4 DEF OrderRecords, OrderKept
  <2>2. OrderChange(o, r)
    BY <1>4
  <2> HIDE DEF r, Keeps
  <2> QED
    BY <1>1, <2>1, <2>2
<1>5. CASE ApproveOrder(u, o)
  <2> DEFINE r == [order[o] EXCEPT !.state = "approved", !.approver = u]
  <2>1. CanApproveOrder(u, o) /\ OrderChange(o, r)
    BY <1>5 DEF ApproveOrder
  <2>2. r \in OrderRecords /\ Keeps(r)
    <3>1. order[o].state = "pending_approval" /\ Signs(u, o)
      BY <2>1, ApproverSigns
    <3> QED
      BY <1>0, <3>1 DEF OrderRecords, OrderKept
  <2> HIDE DEF r, Keeps
  <2> QED
    BY <1>1, <2>1, <2>2
<1>6. CASE RecordReceipt(u, o)
  <2> DEFINE r == [order[o] EXCEPT !.received = TRUE]
  <2>1. OrderChange(o, r) /\ order[o].state = "issued"
    BY <1>6 DEF RecordReceipt
  <2>2. r \in OrderRecords /\ Keeps(r)
    BY <1>0, <2>1 DEF OrderRecords, OrderKept
  <2> HIDE DEF r, Keeps
  <2> QED
    BY <1>1, <2>1, <2>2
<1>7. CASE SubmitOrder(u, o) \/ RejectOrder(u, o) \/ IssueOrder(u, o) \/ CloseOrder(u, o)
  <2>1. PICK to \in {"pending_approval", "rejected", "issued", "closed"} :
          /\ OrderChange(o, Moved(to))
          /\ to \in Bound <=> order[o].state \in Bound
    BY <1>7 DEF SubmitOrder, RejectOrder, IssueOrder, CloseOrder, OrderStep
  <2> HIDE DEF Moved
  <2> QED
    BY <1>4, <2>1
<1> QED
  BY <1>2, <1>3, <1>5, <1>6, <1>7 DEF OrderOps

\* The award of an approved need becomes an order at the price that won.
LEMMA ConvertKeeps ==
  ASSUME ProcurementTypeOK, AwardStandsUp, TendersNamed,
         NEW u \in Users, NEW f \in Tenders, NEW o \in Orders, ConvertAward(u, f, o)
  PROVE  /\ ProcurementTypeOK'
         /\ UNCHANGED tender
         /\ order[o].state = "none" /\ order'[o].tender = f
         /\ order'[o].state = "draft" /\ ~order'[o].received
         /\ \A p \in Orders \ {o} : order'[p] = order[p]
         /\ tender[f].state = "awarded" /\ tender[f].need \in Needs
         /\ need[tender[f].need].state = "approved"
         /\ need'[tender[f].need].state = "converted"
         /\ \A n \in Needs \ {tender[f].need} : need'[n] = need[n]
<1> DEFINE n == tender[f].need
           r == [NoOrder EXCEPT !.state = "draft", !.tender = f, !.supplier = tender[f].winner,
                                !.total = Award(f), !.by = u]
<1>1. /\ order[o].state = "none" /\ tender[f].state = "awarded" /\ need[n].state = "approved"
      /\ order' = [order EXCEPT ![o] = r]
      /\ need' = [need EXCEPT ![n].state = "converted"]
      /\ UNCHANGED <<tender, active, policies>>
  BY DEF ConvertAward, setting
<1>2. n \in Needs /\ tender[f].winner \in DOMAIN tender[f].quotes
  BY <1>1 DEF TendersNamed, AwardStandsUp, StandsUp, Compliant
<1>3. tender[f] \in TenderRecords
  BY DEF ProcurementTypeOK, TendersOK
<1>4. Award(f) \in Prices
  <2>1. PICK S \in SUBSET Suppliers : tender[f].quotes \in [S -> Prices]
    BY <1>3 DEF TenderRecords
  <2> QED
    BY <1>2, <2>1 DEF Award
<1>5. r \in OrderRecords /\ r.tender = f /\ r.state = "draft" /\ ~r.received
  BY <1>3, <1>4 DEF OrderRecords, NoOrder, TenderRecords
<1> HIDE DEF r
<1>6. OrdersOK' /\ \A p \in Orders : order'[p] = IF p = o THEN r ELSE order[p]
  BY <1>1, <1>5 DEF ProcurementTypeOK, OrdersOK
<1>7. /\ RequisitionsOK' /\ need'[n].state = "converted"
      /\ \A m \in Needs \ {n} : need'[m] = need[m]
  BY <1>1, <1>2 DEF ProcurementTypeOK, RequisitionsOK
<1>8. TendersOK' /\ active' \subseteq Suppliers /\ policies' \subseteq Policies
  BY <1>1 DEF ProcurementTypeOK, TendersOK
<1>9. ProcurementTypeOK'
  BY <1>6, <1>7, <1>8 DEF ProcurementTypeOK
<1> QED
  BY <1>1, <1>2, <1>5, <1>6, <1>7, <1>9

\* The steps of others: a vendor, a policy or a delegation comes or goes.
OthersStep ==
  \/ \E u \in Users, v \in Suppliers : BlockOrActivate(u, v)
  \/ \E u \in Users, p, q \in Policies : EditPolicies(u, p, q)
  \/ DelegationNext /\ UNCHANGED <<need, tender, order, active, policies>>

\* They leave the books as they are.
LEMMA OthersKeep ==
  ASSUME ProcurementTypeOK, OthersStep \/ UNCHANGED procVars
  PROVE  ProcurementTypeOK' /\ UNCHANGED <<need, tender, order>>
<1>1. UNCHANGED <<need, tender, order>>
  BY DEF OthersStep, BlockOrActivate, EditPolicies, procVars
<1>2. active' \subseteq Suppliers /\ policies' \subseteq Policies
  BY DEF OthersStep, BlockOrActivate, EditPolicies, procVars, setting, ProcurementTypeOK
<1> QED
  BY <1>1, <1>2 DEF ProcurementTypeOK, RequisitionsOK, TendersOK, OrdersOK

\* What happens to a need leaves the other books alone.
LEMMA NeedStepKeeps ==
  ASSUME ProcurementTypeOK, NEW u \in Users, NEW n \in Needs, NeedOps(u, n)
  PROVE  /\ UNCHANGED <<tender, order>>
         /\ \A m \in Needs : need[m].state = "converted" => need'[m] = need[m]
<1>1. \A m \in Needs : m # n => need'[m] = need[m]
  BY DEF ProcurementTypeOK, RequisitionsOK, NeedOps, CreateRequisition, SubmitRequisition,
         ApproveRequisition, CanApproveRequisition, RejectRequisition, CancelRequisition, NeedStep
<1>2. need[n].state # "converted" /\ UNCHANGED <<tender, order>>
  BY DEF NeedOps, CreateRequisition, SubmitRequisition,
         ApproveRequisition, CanApproveRequisition, RejectRequisition, CancelRequisition, NeedStep
<1> QED
  BY <1>1, <1>2

-----------------------------------------------------------------------------
(* Procurement: what is kept from the first step to the last.              *)

\* The tender of an order stays awarded and its need stays converted, so no
\* other award of that need finds it approved.
OrdersSpend ==
  \A o \in Orders : order[o].tender # NoTender =>
    /\ tender[order[o].tender].state = "awarded"
    /\ need[tender[order[o].tender].need].state = "converted"

ProcurementInv ==
  /\ ProcurementTypeOK
  /\ TendersNamed /\ OrdersSpend
  /\ SpentOnce /\ AwardStandsUp

\* Empty books hold no order, so nothing is spent or awarded.
LEMMA ProcurementInitInv == ProcurementInit => ProcurementInv
<1> SUFFICES ASSUME ProcurementInit PROVE TendersNamed /\ OrdersSpend /\ SpentOnce /\ AwardStandsUp
  BY ProcurementInitType DEF ProcurementInv
<1>1. \A f \in Tenders : tender[f].state = "none"
  BY DEF ProcurementInit, NoRfq
<1>2. \A o \in Orders : order[o].tender = NoTender
  BY DEF ProcurementInit, NoOrder
<1> QED
  BY <1>1, <1>2 DEF TendersNamed, OrdersSpend, SpentOnce, AwardStandsUp

\* Nothing is converted and no tender or order changes but in its state.
LEMMA BooksKept ==
  ASSUME ProcurementInv, ProcurementTypeOK', UNCHANGED tender,
         \A o \in Orders : order'[o].tender \in {order[o].tender, NoTender},
         \A n \in Needs : need[n].state = "converted" => need'[n].state = "converted"
  PROVE  ProcurementInv'
<1> USE DEF ProcurementInv
<1>1. \A o \in Orders : order[o].tender \in Tenders \cup {NoTender}
  BY DEF ProcurementTypeOK, OrdersOK, OrderRecords
<1>2. OrdersSpend'
  BY <1>1 DEF OrdersSpend, TendersNamed
<1>3. SpentOnce'
  BY DEF SpentOnce
<1>4. TendersNamed' /\ AwardStandsUp'
  BY DEF TendersNamed, AwardStandsUp, StandsUp, Compliant, Lowest
<1> QED
  BY <1>2, <1>3, <1>4

\* Every step of the buyers keeps the invariant: each kind of step has its lemma
\* above.
LEMMA ProcurementStep == ASSUME ProcurementInv, [ProcurementNext]_procVars PROVE ProcurementInv'
<1>0. ProcurementTypeOK
  BY DEF ProcurementInv
<1>1. ASSUME NEW u \in Users, NEW n \in Needs, NeedOps(u, n)
      PROVE  ProcurementInv'
  BY <1>0, <1>1, NeedType, NeedStepKeeps, BooksKept
<1>2. ASSUME NEW u \in Users, NEW f \in Tenders, TenderOps(u, f),
             ~\E o \in Orders : ConvertAward(u, f, o)
      PROVE  ProcurementInv'
  <2>1. /\ ProcurementTypeOK' /\ UNCHANGED <<need, order>>
        /\ \A g \in Tenders \ {f} : tender'[g] = tender[g]
        /\ tender[f].state # "awarded"
        /\ tender'[f].need \in IF tender[f].state = "none" THEN Needs ELSE {tender[f].need}
        /\ tender'[f].state = "awarded" => StandsUp(f)'
    BY <1>0, <1>2, TenderStep
  <2>2. \A o \in Orders : order[o].tender # NoTender => order[o].tender \in Tenders \ {f}
    BY <1>0, <2>1 DEF ProcurementInv, OrdersSpend, ProcurementTypeOK, OrdersOK, OrderRecords
  <2>3. TendersNamed'
    BY <2>1 DEF ProcurementInv, TendersNamed
  <2>4. OrdersSpend' /\ SpentOnce'
    BY <2>1, <2>2 DEF ProcurementInv, OrdersSpend, SpentOnce
  <2>5. AwardStandsUp'
    BY <2>1 DEF ProcurementInv, AwardStandsUp, StandsUp, Compliant, Lowest
  <2> QED
    BY <2>1, <2>3, <2>4, <2>5 DEF ProcurementInv
<1>3. ASSUME NEW u \in Users, NEW f \in Tenders, NEW o \in Orders, ConvertAward(u, f, o)
      PROVE  ProcurementInv'
  <2>1. /\ ProcurementTypeOK' /\ UNCHANGED tender
        /\ order'[o].tender = f /\ \A p \in Orders \ {o} : order'[p] = order[p]
        /\ tender[f].state = "awarded" /\ tender[f].need \in Needs
        /\ need[tender[f].need].state = "approved"
        /\ need'[tender[f].need].state = "converted"
        /\ \A n \in Needs \ {tender[f].need} : need'[n] = need[n]
    BY <1>3, ConvertKeeps DEF ProcurementInv
  <2>2. \A p \in Orders \ {o} : order[p].tender # NoTender =>
          order[p].tender \in Tenders /\ tender[order[p].tender].need \in Needs \ {tender[f].need}
    BY <1>0, <2>1
       DEF ProcurementInv, OrdersSpend, TendersNamed, ProcurementTypeOK, OrdersOK, OrderRecords
  <2>3. TendersNamed' /\ AwardStandsUp'
    BY <2>1 DEF ProcurementInv, TendersNamed, AwardStandsUp, StandsUp, Compliant, Lowest
  <2>4. OrdersSpend'
    BY <2>1, <2>2 DEF ProcurementInv, OrdersSpend
  <2>5. SpentOnce'
    BY <2>1, <2>2 DEF ProcurementInv, SpentOnce
  <2> QED
    BY <2>1, <2>3, <2>4, <2>5 DEF ProcurementInv
<1>4. ASSUME NEW u \in Users, NEW o \in Orders, OrderOps(u, o)
      PROVE  ProcurementInv'
  BY <1>0, <1>4, OrderStepKeeps, BooksKept
<1>5. CASE OthersStep \/ UNCHANGED procVars
  BY <1>0, <1>5, OthersKeep, BooksKept
<1> QED
  BY <1>1, <1>2, <1>3, <1>4, <1>5 DEF ProcurementNext, OthersStep

\* The buyers' invariant holds in every state.
LEMMA ProcurementHolds == ProcurementSpec => []ProcurementInv
BY ProcurementInitInv, ProcurementStep, PTL DEF ProcurementSpec

\* Requisitions, tenders and orders hold values of their kind, quotes come from
\* invited vendors only.
THEOREM ProcurementTypeCorrect == ProcurementSpec => []ProcurementTypeOK
BY ProcurementHolds, PTL DEF ProcurementInv

\* However many tenders a requisition is taken to, and whoever converts their
\* awards, one order at the most comes of it.
THEOREM ApprovalSpentOnce == ProcurementSpec => []SpentOnce
BY ProcurementHolds, PTL DEF ProcurementInv

\* An award goes to a compliant quote, and to the cheapest one or with a reason
\* on record: no quote that comes or changes later undoes that.
THEOREM AwardsStandUp == ProcurementSpec => []AwardStandsUp
BY ProcurementHolds, PTL DEF ProcurementInv

\* From its submission on an order keeps what it says; nothing but the approval
\* of somebody who may sign for its total makes it binding, and nothing but an
\* order that was issued after that is received against.
THEOREM OrdersStayAsApproved == ProcurementSpec => OrderedAsApproved
<1>1. ASSUME ProcurementInv, [ProcurementNext]_procVars, NEW o \in Orders
      PROVE  OrderKept(o, order'[o])
  <2>0. ProcurementTypeOK
    BY <1>1 DEF ProcurementInv
  <2>1. order'[o] = order[o] => OrderKept(o, order'[o])
    BY DEF OrderKept, Terms
  <2>2. ASSUME NEW u \in Users, NEW n \in Needs, NeedOps(u, n)
        PROVE  order' = order
    BY <2>0, <2>2, NeedStepKeeps
  <2>3. ASSUME NEW u \in Users, NEW f \in Tenders, TenderOps(u, f),
               ~\E p \in Orders : ConvertAward(u, f, p)
        PROVE  order' = order
    BY <2>0, <2>3, TenderStep
  <2>4. ASSUME NEW u \in Users, NEW f \in Tenders, NEW p \in Orders, ConvertAward(u, f, p)
        PROVE  OrderKept(o, order'[o])
    <3>1. CASE p = o
      <4>1. order[o].state = "none" /\ order'[o].state = "draft" /\ ~order'[o].received
        BY <1>1, <2>4, <3>1, ConvertKeeps DEF ProcurementInv
      <4> QED
        BY <4>1 DEF OrderKept, Bound
    <3>2. CASE p # o
      BY <1>1, <2>1, <2>4, <3>2, ConvertKeeps DEF ProcurementInv
    <3> QED
      BY <3>1, <3>2
  <2>5. ASSUME NEW u \in Users, NEW p \in Orders, OrderOps(u, p)
        PROVE  OrderKept(o, order'[o])
    BY <2>0, <2>1, <2>5, OrderStepKeeps
  <2>6. CASE OthersStep \/ UNCHANGED procVars
    BY <2>0, <2>1, <2>6, OthersKeep
  <2> QED
    BY <1>1, <2>1, <2>2, <2>3, <2>4, <2>5, <2>6 DEF ProcurementNext, OthersStep
<1>2. ASSUME NEW o \in Orders, OrderKept(o, order'[o])
      PROVE  /\ order[o].state \notin {"none", "draft"} => UNCHANGED Terms(o)
             /\ order[o].state \in Bound =>
                  order'[o].state \in Bound /\ order'[o].approver = order[o].approver
             /\ order[o].state \notin Bound /\ order'[o].state \in Bound =>
                  /\ order[o].state = "pending_approval" /\ order'[o].state = "approved"
                  /\ \E u \in Users : order'[o].approver = u /\ Signs(u, o)
             /\ order'[o].received => order[o].received \/ order[o].state = "issued"
  BY <1>2 DEF OrderKept, Terms
<1> DEFINE Step == \A o \in Orders :
             /\ order[o].state \notin {"none", "draft"} => UNCHANGED Terms(o)
             /\ order[o].state \in Bound =>
                  order'[o].state \in Bound /\ order'[o].approver = order[o].approver
             /\ order[o].state \notin Bound /\ order'[o].state \in Bound =>
                  /\ order[o].state = "pending_approval" /\ order'[o].state = "approved"
                  /\ \E u \in Users : order'[o].approver = u /\ Signs(u, o)
             /\ order'[o].received => order[o].received \/ order[o].state = "issued"
<1>3. ProcurementInv /\ [ProcurementNext]_procVars => [Step]_procVars
  BY <1>1, <1>2
<1> QED
  BY <1>3, ProcurementHolds, PTL DEF ProcurementSpec, OrderedAsApproved

-----------------------------------------------------------------------------
(* Warehouse.                                                              *)

\* What an adjustment moves, or nothing, is an integer.
LEMMA QuantitiesInt == Quantities \cup {0} \subseteq Int
<1>1. Quantities \subseteq Int \ {0}
  BY WarehouseAssumption
<1>2. \A q \in Quantities : q \in Int
  BY <1>1
<1> QED
  BY <1>2

\* What the signatures of an adjustment amount to, from its draft on.
Countersigned(a) ==
  /\ adjustment[a].first # NoUser => adjustment[a].first # adjustment[a].by
  /\ adjustment[a].state \in {"pending_approval", "posted"} =>
       (adjustment[a].dual <=> Value(a) > DEFAULT_DUAL_APPROVAL_THRESHOLD)
  /\ adjustment[a].state = "posted" =>
       /\ adjustment[a].first # NoUser
       /\ adjustment[a].dual =>
            adjustment[a].second \notin {NoUser, adjustment[a].by, adjustment[a].first}

\* An adjustment that changes was not posted, and the shelf moves by what it
\* says once it is.
LEMMA AdjustmentStep ==
  ASSUME WarehouseTypeOK, NEW u \in Users, NEW a \in Adjustments, Countersigned(a),
         AdjustmentOps(u, a)
  PROVE  /\ WarehouseTypeOK' /\ Countersigned(a)'
         /\ UNCHANGED <<vendorReturn, check, putAway, cost>>
         /\ \A b \in Adjustments \ {a} : adjustment'[b] = adjustment[b]
         /\ adjustment[a].state # "posted"
         /\ onHand'["shelf"] = onHand["shelf"]
              + (IF adjustment'[a].state = "posted" THEN adjustment'[a].change ELSE 0)
         /\ onHand'["quarantine"] = onHand["quarantine"] /\ onHand'["store"] = onHand["store"]
<1> DEFINE
      Stays == UNCHANGED onHand
      Goal == /\ WarehouseTypeOK' /\ Countersigned(a)'
              /\ UNCHANGED <<vendorReturn, check, putAway, cost>>
              /\ \A b \in Adjustments \ {a} : adjustment'[b] = adjustment[b]
              /\ adjustment[a].state # "posted"
              /\ onHand'["shelf"] = onHand["shelf"]
                   + (IF adjustment'[a].state = "posted" THEN adjustment'[a].change ELSE 0)
              /\ onHand'["quarantine"] = onHand["quarantine"]
              /\ onHand'["store"] = onHand["store"]
<1> SUFFICES Goal
  OBVIOUS
<1>0. adjustment[a] \in AdjustmentRecords /\ onHand \in [{"shelf", "quarantine", "store"} -> Nat]
  BY DEF WarehouseTypeOK
<1>1. ASSUME NEW r \in AdjustmentRecords, AdjustmentChange(a, r), adjustment[a].state # "posted",
             Countersigned(a)',
             IF r.state = "posted" THEN Moves("shelf", r.change) ELSE UNCHANGED onHand
      PROVE  Goal
  <2>1. /\ adjustment' \in [Adjustments -> AdjustmentRecords] /\ adjustment'[a] = r
        /\ \A b \in Adjustments \ {a} : adjustment'[b] = adjustment[b]
    BY <1>1 DEF AdjustmentChange, WarehouseTypeOK
  <2>2. CASE r.state = "posted"
    <3>0. r.change \in Quantities \cup {0}
      BY DEF AdjustmentRecords
    <3>1. r.change \in Int
      BY <3>0, QuantitiesInt
    <3>2. /\ onHand' \in [{"shelf", "quarantine", "store"} -> Nat]
          /\ onHand'["shelf"] = onHand["shelf"] + r.change
          /\ onHand'["quarantine"] = onHand["quarantine"] /\ onHand'["store"] = onHand["store"]
      BY <1>0, <1>1, <2>2, <3>1 DEF Moves, Covers
    <3> QED
      BY <1>1, <2>1, <2>2, <3>2 DEF AdjustmentChange, WarehouseTypeOK
  <2>3. CASE r.state # "posted"
    BY <1>0, <1>1, <2>1, <2>3 DEF AdjustmentChange, WarehouseTypeOK
  <2> QED
    BY <2>2, <2>3
<1>2. ASSUME NEW r \in AdjustmentRecords, AdjustmentChange(a, r)
      PROVE  adjustment'[a] = r
  BY <1>2 DEF AdjustmentChange, WarehouseTypeOK
<1>3. ASSUME NEW r \in AdjustmentRecords, AdjustmentChange(a, r),
             r.change = adjustment[a].change, r.cost = adjustment[a].cost
      PROVE  Value(a)' = Value(a)
  BY <1>2, <1>3 DEF Value
<1> HIDE DEF Goal
<1>4. ASSUME NEW change \in Quantities, CreateAdjustment(u, a, change)
      PROVE  Goal
  <2> DEFINE r == [NoAdjustment EXCEPT !.state = "draft", !.by = u, !.change = change,
                                       !.cost = cost]
  <2>1. r \in AdjustmentRecords /\ r.state = "draft" /\ r.first = NoUser
    BY DEF AdjustmentRecords, NoAdjustment, WarehouseTypeOK
  <2>2. AdjustmentChange(a, r) /\ UNCHANGED onHand /\ adjustment[a].state = "none"
    BY <1>4 DEF CreateAdjustment
  <2> HIDE DEF r
  <2>3. Countersigned(a)'
    BY <1>2, <2>1, <2>2 DEF Countersigned
  <2> QED
    BY <1>1, <2>1, <2>2, <2>3
<1>5. CASE SubmitAdjustment(u, a)
  <2> DEFINE big == Value(a) > DEFAULT_DUAL_APPROVAL_THRESHOLD
             r == [adjustment[a] EXCEPT !.state = "pending_approval", !.dual = big]
  <2>0. big \in BOOLEAN
    OBVIOUS
  <2>1. AdjustmentChange(a, r) /\ UNCHANGED onHand /\ adjustment[a].state = "draft"
    BY <1>5 DEF SubmitAdjustment
  <2> HIDE DEF big
  <2>2. /\ r \in AdjustmentRecords /\ r.state = "pending_approval" /\ r.dual = big
        /\ r.change = adjustment[a].change /\ r.cost = adjustment[a].cost
        /\ r.first = adjustment[a].first /\ r.by = adjustment[a].by
    BY <1>0, <2>0 DEF AdjustmentRecords
  <2> HIDE DEF r
  <2>3. adjustment'[a] = r /\ Value(a)' = Value(a)
    BY <1>2, <1>3, <2>1, <2>2
  <2>4. Countersigned(a)'
    BY <2>2, <2>3 DEF Countersigned, big
  <2> QED
    BY <1>1, <2>1, <2>2, <2>4
<1>6. CASE FirstOfTwo(u, a)
  <2> DEFINE r == [adjustment[a] EXCEPT !.first = u]
  <2>1. /\ AdjustmentChange(a, r) /\ UNCHANGED onHand /\ adjustment[a].state = "pending_approval"
        /\ adjustment[a].by # u
    BY <1>6 DEF FirstOfTwo, CanSignFirst, Approvable
  <2>2. /\ r \in AdjustmentRecords /\ r.state = "pending_approval" /\ r.dual = adjustment[a].dual
        /\ r.change = adjustment[a].change /\ r.cost = adjustment[a].cost
        /\ r.first = u /\ r.by = adjustment[a].by
    BY <1>0, <2>1 DEF AdjustmentRecords
  <2> HIDE DEF r
  <2>3. adjustment'[a] = r /\ Value(a)' = Value(a)
    BY <1>2, <1>3, <2>1, <2>2
  <2>4. Countersigned(a)'
    BY <2>1, <2>2, <2>3 DEF Countersigned
  <2> QED
    BY <1>1, <2>1, <2>2, <2>4
<1>7. CASE ApproveAdjustment(u, a)
  <2> DEFINE one == IF adjustment[a].first = NoUser THEN u ELSE adjustment[a].first
             two == IF adjustment[a].first = NoUser THEN NoUser ELSE u
             r == [adjustment[a] EXCEPT !.state = "posted", !.first = one, !.second = two]
  <2>1. /\ AdjustmentChange(a, r) /\ Moves("shelf", adjustment[a].change)
        /\ adjustment[a].state = "pending_approval" /\ adjustment[a].by # u
        /\ \/ adjustment[a].first = NoUser /\ ~adjustment[a].dual
           \/ adjustment[a].first \notin {NoUser, u}
    BY <1>7 DEF ApproveAdjustment, CanSignLast, Approvable
  <2>2. one \in Users /\ two \in Users \cup {NoUser}
    BY <1>0 DEF AdjustmentRecords
  <2>3. /\ one # adjustment[a].by
        /\ adjustment[a].dual => two \notin {NoUser, adjustment[a].by, one}
    BY <2>1, NoUserAssumption DEF Countersigned
  <2> HIDE DEF one, two
  <2>4. /\ r \in AdjustmentRecords /\ r.state = "posted" /\ r.dual = adjustment[a].dual
        /\ r.change = adjustment[a].change /\ r.cost = adjustment[a].cost
        /\ r.first = one /\ r.second = two /\ r.by = adjustment[a].by
    BY <1>0, <2>2 DEF AdjustmentRecords
  <2> HIDE DEF r
  <2>5. adjustment'[a] = r /\ Value(a)' = Value(a)
    BY <1>2, <1>3, <2>1, <2>4
  <2>6. Countersigned(a)'
    BY <2>1, <2>2, <2>3, <2>4, <2>5, NoUserAssumption DEF Countersigned
  <2> QED
    BY <1>1, <2>1, <2>4, <2>6
<1>8. ASSUME NEW to \in {"rejected", "cancelled"},
             AdjustmentChange(a, [adjustment[a] EXCEPT !.state = to]), UNCHANGED onHand,
             adjustment[a].state # "posted"
      PROVE  Goal
  <2> DEFINE r == [adjustment[a] EXCEPT !.state = to]
  <2>1. AdjustmentChange(a, r)
    BY <1>8
  <2>2. /\ r \in AdjustmentRecords /\ r.state = to
        /\ r.first = adjustment[a].first /\ r.by = adjustment[a].by
    BY <1>0 DEF AdjustmentRecords
  <2> HIDE DEF r
  <2>3. Countersigned(a)'
    BY <1>2, <2>1, <2>2 DEF Countersigned
  <2> QED
    BY <1>1, <1>8, <2>1, <2>2, <2>3
<1>9. CASE RejectAdjustment(u, a)
  BY <1>8, <1>9 DEF RejectAdjustment
<1>10. CASE CancelAdjustment(u, a)
  BY <1>8, <1>10 DEF CancelAdjustment
<1> QED
  BY <1>4, <1>5, <1>6, <1>7, <1>9, <1>10 DEF AdjustmentOps

\* The return r is of quantity and has left: what the shelf lacks for it.
LEMMA ReturnStepKeeps ==
  ASSUME WarehouseTypeOK, NEW u \in Users, NEW r \in Returns, ReturnOps(u, r)
  PROVE  /\ WarehouseTypeOK'
         /\ UNCHANGED <<adjustment, check, putAway, cost>>
         /\ \A s \in Returns \ {r} : vendorReturn'[s] = vendorReturn[s]
         /\ onHand'["shelf"] = onHand["shelf"] + SentBack[r] - SentBack'[r]
         /\ onHand'["quarantine"] = onHand["quarantine"] /\ onHand'["store"] = onHand["store"]
<1> DEFINE
      Sent(x) == IF x.state \in {"dispatched", "credited"} THEN x.quantity ELSE 0
      Goal == /\ WarehouseTypeOK'
              /\ UNCHANGED <<adjustment, check, putAway, cost>>
              /\ \A s \in Returns \ {r} : vendorReturn'[s] = vendorReturn[s]
              /\ onHand'["shelf"] = onHand["shelf"] + SentBack[r] - SentBack'[r]
              /\ onHand'["quarantine"] = onHand["quarantine"]
              /\ onHand'["store"] = onHand["store"]
<1> SUFFICES Goal
  OBVIOUS
<1>0. /\ vendorReturn[r] \in ReturnRecords
      /\ onHand \in [{"shelf", "quarantine", "store"} -> Nat]
      /\ vendorReturn[r].quantity \in Nat
  BY DEF WarehouseTypeOK, ReturnRecords
<1>1. ASSUME NEW x \in ReturnRecords, ReturnChange(r, x),
             \/ UNCHANGED onHand /\ Sent(x) = Sent(vendorReturn[r])
             \/ /\ Moves("shelf", -x.quantity)
                /\ Sent(vendorReturn[r]) = 0 /\ Sent(x) = x.quantity
      PROVE  Goal
  <2>1. /\ vendorReturn' \in [Returns -> ReturnRecords] /\ vendorReturn'[r] = x
        /\ \A s \in Returns \ {r} : vendorReturn'[s] = vendorReturn[s]
    BY <1>1 DEF ReturnChange, WarehouseTypeOK
  <2>2. SentBack[r] = Sent(vendorReturn[r]) /\ SentBack'[r] = Sent(x)
    BY <2>1 DEF SentBack
  <2>3. x.quantity \in Nat /\ Sent(x) \in Nat
    BY DEF ReturnRecords
  <2> HIDE DEF Sent
  <2>4. /\ onHand' \in [{"shelf", "quarantine", "store"} -> Nat]
        /\ onHand'["shelf"] = onHand["shelf"] + Sent(vendorReturn[r]) - Sent(x)
        /\ onHand'["quarantine"] = onHand["quarantine"] /\ onHand'["store"] = onHand["store"]
    BY <1>0, <1>1, <2>3 DEF Moves, Covers
  <2> QED
    BY <1>1, <2>1, <2>2, <2>4 DEF ReturnChange, WarehouseTypeOK
<1> DEFINE Moved(to) == [vendorReturn[r] EXCEPT !.state = to]
<1> HIDE DEF Goal
<1>2. ASSUME NEW quantity \in Quantities, CreateReturn(u, r, quantity)
      PROVE  Goal
  <2> DEFINE x == [NoReturn EXCEPT !.state = "draft", !.by = u, !.quantity = quantity]
  <2>1. /\ ReturnChange(r, x) /\ UNCHANGED onHand /\ vendorReturn[r].state = "none"
        /\ quantity \in Nat
    BY <1>2, WarehouseAssumption DEF CreateReturn
  <2>2. x \in ReturnRecords /\ x.state = "draft"
    BY <2>1 DEF ReturnRecords, NoReturn
  <2>3. Sent(x) = Sent(vendorReturn[r])
    BY <2>1, <2>2
  <2> HIDE DEF x, Sent
  <2> QED
    BY <1>1, <2>1, <2>2, <2>3
<1>3. CASE ApproveReturn(u, r)
  <2> DEFINE x == [vendorReturn[r] EXCEPT !.state = "approved", !.approver = u]
  <2>1. ReturnChange(r, x) /\ UNCHANGED onHand /\ vendorReturn[r].state = "pending_approval"
    BY <1>3 DEF ApproveReturn, CanApproveReturn
  <2>2. x \in ReturnRecords /\ x.state = "approved"
    BY <1>0 DEF ReturnRecords
  <2>3. Sent(x) = Sent(vendorReturn[r])
    BY <2>1, <2>2
  <2> HIDE DEF x, Sent
  <2> QED
    BY <1>1, <2>1, <2>2, <2>3
<1>4. ASSUME NEW to \in {"pending_approval", "credited", "rejected", "cancelled"},
             ReturnChange(r, Moved(to)), UNCHANGED onHand,
             vendorReturn[r].state \in {"dispatched", "credited"} <=> to = "credited"
      PROVE  Goal
  <2>1. /\ Moved(to) \in ReturnRecords /\ Moved(to).state = to
        /\ Moved(to).quantity = vendorReturn[r].quantity
    BY <1>0 DEF ReturnRecords
  <2>2. Sent(Moved(to)) = Sent(vendorReturn[r])
    BY <1>4, <2>1
  <2> HIDE DEF Moved, Sent
  <2> QED
    BY <1>1, <1>4, <2>1, <2>2
<1>5. CASE SubmitReturn(u, r) \/ RecordCredit(u, r) \/ RejectReturn(u, r) \/ CancelReturn(u, r)
  <2>1. PICK to \in {"pending_approval", "credited", "rejected", "cancelled"} :
          /\ ReturnChange(r, Moved(to)) /\ UNCHANGED onHand
          /\ vendorReturn[r].state \in {"dispatched", "credited"} <=> to = "credited"
    BY <1>5 DEF SubmitReturn, RecordCredit, RejectReturn, CancelReturn, ReturnStep
  <2> HIDE DEF Moved
  <2> QED
    BY <1>4, <2>1
<1>6. CASE Dispatch(u, r)
  <2> DEFINE x == Moved("dispatched")
  <2>1. /\ ReturnChange(r, x) /\ vendorReturn[r].state = "approved"
        /\ Moves("shelf", -vendorReturn[r].quantity)
    BY <1>6 DEF Dispatch, ReturnStep
  <2>2. /\ x \in ReturnRecords /\ x.state = "dispatched"
        /\ x.quantity = vendorReturn[r].quantity
    BY <1>0 DEF ReturnRecords
  <2>3. Sent(vendorReturn[r]) = 0 /\ Sent(x) = x.quantity
    BY <2>1, <2>2
  <2> HIDE DEF Moved, Sent
  <2> QED
    BY <1>1, <2>1, <2>2, <2>3
<1> QED
  BY <1>2, <1>3, <1>5, <1>6 DEF ReturnOps

\* A check that is recorded was empty, and moves what it rejects to quarantine.
LEMMA CheckStep ==
  ASSUME WarehouseTypeOK, NEW u \in Users, NEW c \in Checks, NEW d \in Deliveries,
         NEW accepted \in 0 .. Delivered[d], NEW rejected \in 0 .. Delivered[d],
         RecordCheck(u, c, d, accepted, rejected)
  PROVE  /\ WarehouseTypeOK'
         /\ UNCHANGED <<adjustment, vendorReturn, putAway, cost>>
         /\ \A e \in Checks \ {c} : check'[e] = check[e]
         /\ check[c].rejected = 0 /\ check'[c].rejected = rejected /\ rejected \in Nat
         /\ onHand'["shelf"] = onHand["shelf"] - rejected
         /\ onHand'["quarantine"] = onHand["quarantine"] + rejected
         /\ onHand'["store"] = onHand["store"]
<1>0. onHand \in [{"shelf", "quarantine", "store"} -> Nat]
  BY DEF WarehouseTypeOK
<1>1. accepted \in Nat /\ rejected \in Nat
  BY WarehouseAssumption
<1> DEFINE x == [of |-> d, accepted |-> accepted, rejected |-> rejected]
<1>2. /\ check' = [check EXCEPT ![c] = x] /\ check[c] = NoCheck
      /\ UNCHANGED <<adjustment, vendorReturn, putAway, cost>>
      /\ IF rejected > 0 THEN Transfers("quarantine", rejected) ELSE UNCHANGED onHand
  BY DEF RecordCheck
<1>3. x \in CheckRecords /\ x.rejected = rejected
  BY <1>1 DEF CheckRecords
<1>4. check[c].rejected = 0
  BY <1>2 DEF NoCheck
<1> HIDE DEF x
<1>5. /\ check' \in [Checks -> CheckRecords] /\ check'[c] = x
      /\ \A e \in Checks \ {c} : check'[e] = check[e]
  BY <1>2, <1>3 DEF WarehouseTypeOK
<1>6. /\ onHand' \in [{"shelf", "quarantine", "store"} -> Nat]
      /\ onHand'["shelf"] = onHand["shelf"] - rejected
      /\ onHand'["quarantine"] = onHand["quarantine"] + rejected
      /\ onHand'["store"] = onHand["store"]
  <2>1. CASE rejected > 0
    <3>1. Transfers("quarantine", rejected)
      BY <1>2, <2>1
    <3> QED
      BY <1>0, <1>1, <3>1 DEF Transfers
  <2>2. CASE rejected = 0
    BY <1>0, <1>2, <2>2
  <2> QED
    BY <1>1, <2>1, <2>2
<1> QED
  BY <1>1, <1>2, <1>3, <1>4, <1>5, <1>6 DEF WarehouseTypeOK

\* Putting away carries stock off the shelf and counts it.
LEMMA PutawayStep ==
  ASSUME WarehouseTypeOK, NEW u \in Users, NEW quantity \in 1 .. MaxMoved, Putaway(u, quantity)
  PROVE  /\ WarehouseTypeOK'
         /\ UNCHANGED <<adjustment, vendorReturn, check, cost>>
         /\ putAway' = putAway + quantity
         /\ onHand'["shelf"] = onHand["shelf"] - quantity
         /\ onHand'["quarantine"] = onHand["quarantine"]
         /\ onHand'["store"] = onHand["store"] + quantity
<1>0. onHand \in [{"shelf", "quarantine", "store"} -> Nat] /\ quantity \in Nat /\ putAway \in Nat
  BY WarehouseAssumption DEF WarehouseTypeOK
<1>1. /\ onHand' \in [{"shelf", "quarantine", "store"} -> Nat]
      /\ onHand'["shelf"] = onHand["shelf"] - quantity
      /\ onHand'["quarantine"] = onHand["quarantine"]
      /\ onHand'["store"] = onHand["store"] + quantity
  BY <1>0 DEF Putaway, Transfers
<1>2. putAway' \in 0 .. MaxMoved
  BY <1>0, WarehouseAssumption DEF Putaway
<1> QED
  BY <1>1, <1>2 DEF Putaway, WarehouseTypeOK

-----------------------------------------------------------------------------
(* Warehouse: what is kept from the first step to the last.                *)

WarehouseInv ==
  /\ WarehouseTypeOK
  /\ \A a \in Adjustments : Countersigned(a)
  /\ StockExplained

\* The three sums are integers, and change as their terms do.
SumsAreIntegers ==
  /\ \A a \in Adjustments : PostedChange[a] \in Int
  /\ \A r \in Returns : SentBack[r] \in Int
  /\ \A c \in Checks : Rejected[c] \in Int
  /\ SumFunctionOnSet(PostedChange, Adjustments) \in Int
  /\ SumFunctionOnSet(SentBack, Returns) \in Int
  /\ SumFunctionOnSet(Rejected, Checks) \in Int

\* What was posted, sent back and rejected adds up to integers.
LEMMA StockSums == WarehouseTypeOK => SumsAreIntegers
<1> SUFFICES ASSUME WarehouseTypeOK PROVE SumsAreIntegers
  OBVIOUS
<1>1. ASSUME NEW a \in Adjustments PROVE PostedChange[a] \in Int
  <2>1. adjustment[a].change \in Quantities \cup {0}
    BY DEF WarehouseTypeOK, AdjustmentRecords
  <2>2. adjustment[a].change \in Int
    BY <2>1, QuantitiesInt
  <2> QED
    BY <2>2 DEF PostedChange
<1>2. ASSUME NEW r \in Returns PROVE SentBack[r] \in Int
  BY DEF WarehouseTypeOK, ReturnRecords, SentBack
<1>3. ASSUME NEW c \in Checks PROVE Rejected[c] \in Int
  BY DEF WarehouseTypeOK, CheckRecords, Rejected
<1> QED
  BY <1>1, <1>2, <1>3, SumInt, WarehouseAssumption DEF SumsAreIntegers

\* The same before and after a step.
LEMMA SumsKept == WarehouseTypeOK /\ WarehouseTypeOK' => SumsAreIntegers /\ SumsAreIntegers'
BY StockSums, PTL

\* A house that starts with its opening stock is explained by it.
LEMMA StockExplainedInit == WarehouseInit => StockExplained
<1> SUFFICES ASSUME WarehouseInit PROVE StockExplained
  OBVIOUS
<1>1. \A a \in Adjustments : PostedChange[a] = 0
  BY DEF WarehouseInit, NoAdjustment, PostedChange
<1>2. \A r \in Returns : SentBack[r] = 0
  BY DEF WarehouseInit, NoReturn, SentBack
<1>3. \A c \in Checks : Rejected[c] = 0
  BY DEF WarehouseInit, NoCheck, Rejected
<1>4. /\ SumFunctionOnSet(PostedChange, Adjustments) = 0
      /\ SumFunctionOnSet(SentBack, Returns) = 0
      /\ SumFunctionOnSet(Rejected, Checks) = 0
  BY <1>1, <1>2, <1>3, SumZero, WarehouseAssumption
<1> QED
  BY <1>4, WarehouseAssumption DEF WarehouseInit, StockExplained

\* A house without documents keeps the invariant.
LEMMA WarehouseInitInv == WarehouseInit => WarehouseInv
<1> SUFFICES ASSUME WarehouseInit PROVE WarehouseTypeOK /\ \A a \in Adjustments : Countersigned(a)
  BY StockExplainedInit DEF WarehouseInv
<1>1. WarehouseTypeOK
  BY WarehouseAssumption
     DEF WarehouseInit, WarehouseTypeOK, NoAdjustment, NoReturn, NoCheck, AdjustmentRecords,
         ReturnRecords, CheckRecords
<1>2. \A a \in Adjustments : Countersigned(a)
  BY DEF WarehouseInit, NoAdjustment, Countersigned
<1> QED
  BY <1>1, <1>2

\* The signatures depend on nothing but the adjustment.
LEMMA SignaturesKept ==
  ASSUME NEW a, adjustment'[a] = adjustment[a], Countersigned(a)
  PROVE  Countersigned(a)'
BY DEF Countersigned, Value

\* Every step of the warehouse keeps the invariant: what it adds to or takes off
\* the shelf, it adds to one of the sums.
LEMMA WarehouseStep == ASSUME WarehouseInv, [WarehouseNext]_houseVars PROVE WarehouseInv'
<1>0. WarehouseTypeOK /\ StockExplained /\ \A a \in Adjustments : Countersigned(a)
  BY DEF WarehouseInv
<1> DEFINE posted == SumFunctionOnSet(PostedChange, Adjustments)
           sent == SumFunctionOnSet(SentBack, Returns)
           rejected == SumFunctionOnSet(Rejected, Checks)
           shelf == onHand["shelf"]
           quarantine == onHand["quarantine"]
           store == onHand["store"]
<1>1. /\ posted \in Int /\ sent \in Int /\ rejected \in Int
      /\ Opening \in Int /\ putAway \in Int
      /\ shelf = Opening + posted - sent - rejected - putAway
      /\ quarantine = rejected /\ store = putAway
  BY <1>0, StockSums, WarehouseAssumption DEF StockExplained, WarehouseTypeOK, SumsAreIntegers
<1>2. StockExplained' <=>
        /\ shelf' = Opening + posted' - sent' - rejected' - putAway'
        /\ quarantine' = rejected' /\ store' = putAway'
  BY DEF StockExplained
<1>3. UNCHANGED vendorReturn => SentBack' = SentBack /\ sent' = sent
  BY DEF SentBack
<1>4. UNCHANGED check => Rejected' = Rejected /\ rejected' = rejected
  BY DEF Rejected
<1>5. UNCHANGED adjustment =>
        /\ PostedChange' = PostedChange /\ posted' = posted
        /\ \A a \in Adjustments : Countersigned(a)'
  BY <1>0, SignaturesKept DEF PostedChange
<1>6. ASSUME NEW u \in Users, NEW a \in Adjustments, AdjustmentOps(u, a)
      PROVE  WarehouseInv'
  <2>1. /\ WarehouseTypeOK' /\ Countersigned(a)'
        /\ UNCHANGED <<vendorReturn, check, putAway>>
        /\ \A b \in Adjustments \ {a} : adjustment'[b] = adjustment[b]
        /\ adjustment[a].state # "posted"
        /\ shelf' = shelf
             + (IF adjustment'[a].state = "posted" THEN adjustment'[a].change ELSE 0)
        /\ quarantine' = quarantine /\ store' = store
    BY <1>0, <1>6, AdjustmentStep
  <2>2. /\ PostedChange[a] = 0
        /\ PostedChange'[a] = IF adjustment'[a].state = "posted" THEN adjustment'[a].change ELSE 0
        /\ \A b \in Adjustments : b # a => PostedChange'[b] = PostedChange[b]
    BY <2>1 DEF PostedChange
  <2>3. /\ \A b \in Adjustments : PostedChange[b] \in Int /\ PostedChange'[b] \in Int
        /\ posted' \in Int
    BY <1>0, <2>1, SumsKept DEF SumsAreIntegers
  <2>4. posted' = posted + PostedChange'[a] - PostedChange[a]
    BY <2>2, <2>3, SumChange, WarehouseAssumption
  <2>5. \A b \in Adjustments : Countersigned(b)'
    BY <1>0, <2>1, SignaturesKept
  <2>6. sent' = sent /\ rejected' = rejected
    BY <1>3, <1>4, <2>1
  <2> HIDE DEF posted, sent, rejected, shelf, quarantine, store
  <2>7. StockExplained'
    BY <1>1, <1>2, <2>1, <2>2, <2>3, <2>4, <2>6
  <2> QED
    BY <2>1, <2>5, <2>7 DEF WarehouseInv
<1>7. ASSUME NEW u \in Users, NEW r \in Returns, ReturnOps(u, r)
      PROVE  WarehouseInv'
  <2>1. /\ WarehouseTypeOK'
        /\ UNCHANGED <<adjustment, check, putAway>>
        /\ \A s \in Returns \ {r} : vendorReturn'[s] = vendorReturn[s]
        /\ shelf' = shelf + SentBack[r] - SentBack'[r]
        /\ quarantine' = quarantine /\ store' = store
    BY <1>0, <1>7, ReturnStepKeeps
  <2>2. \A s \in Returns : s # r => SentBack'[s] = SentBack[s]
    BY <2>1 DEF SentBack
  <2>3. \A s \in Returns : SentBack[s] \in Int /\ SentBack'[s] \in Int
    BY <1>0, <2>1, SumsKept DEF SumsAreIntegers
  <2>4. sent' = sent + SentBack'[r] - SentBack[r]
    BY <2>2, <2>3, SumChange, WarehouseAssumption
  <2>5. posted' = posted /\ rejected' = rejected
    BY <1>4, <1>5, <2>1
  <2> HIDE DEF posted, sent, rejected, shelf, quarantine, store
  <2>6. StockExplained'
    BY <1>1, <1>2, <2>1, <2>3, <2>4, <2>5
  <2> QED
    BY <1>5, <2>1, <2>6 DEF WarehouseInv
<1>8. ASSUME NEW u \in Users, NEW c \in Checks, NEW d \in Deliveries,
             NEW accepted \in 0 .. Delivered[d], NEW bad \in 0 .. Delivered[d],
             RecordCheck(u, c, d, accepted, bad)
      PROVE  WarehouseInv'
  <2>1. /\ WarehouseTypeOK'
        /\ UNCHANGED <<adjustment, vendorReturn, putAway>>
        /\ \A e \in Checks \ {c} : check'[e] = check[e]
        /\ check[c].rejected = 0 /\ check'[c].rejected = bad /\ bad \in Nat
        /\ shelf' = shelf - bad /\ quarantine' = quarantine + bad /\ store' = store
    BY <1>0, <1>8, CheckStep
  <2>2. /\ Rejected[c] = 0 /\ Rejected'[c] = bad
        /\ \A e \in Checks : e # c => Rejected'[e] = Rejected[e]
    BY <2>1 DEF Rejected
  <2>3. \A e \in Checks : Rejected[e] \in Int /\ Rejected'[e] \in Int
    BY <1>0, <2>1, SumsKept DEF SumsAreIntegers
  <2>4. rejected' = rejected + Rejected'[c] - Rejected[c]
    BY <2>2, <2>3, SumChange, WarehouseAssumption
  <2>5. posted' = posted /\ sent' = sent
    BY <1>3, <1>5, <2>1
  <2> HIDE DEF posted, sent, rejected, shelf, quarantine, store
  <2>6. StockExplained'
    BY <1>1, <1>2, <2>1, <2>2, <2>4, <2>5
  <2> QED
    BY <1>5, <2>1, <2>6 DEF WarehouseInv
<1>9. ASSUME NEW u \in Users, NEW quantity \in 1 .. MaxMoved, Putaway(u, quantity)
      PROVE  WarehouseInv'
  <2>1. /\ WarehouseTypeOK'
        /\ UNCHANGED <<adjustment, vendorReturn, check>>
        /\ putAway' = putAway + quantity
        /\ shelf' = shelf - quantity /\ quarantine' = quarantine /\ store' = store + quantity
    BY <1>0, <1>9, PutawayStep
  <2>2. posted' = posted /\ sent' = sent /\ rejected' = rejected
    BY <1>3, <1>4, <1>5, <2>1
  <2> HIDE DEF posted, sent, rejected, shelf, quarantine, store
  <2>3. StockExplained'
    BY <1>1, <1>2, <2>1, <2>2
  <2> QED
    BY <1>5, <2>1, <2>3 DEF WarehouseInv
<1>10. ASSUME UNCHANGED <<adjustment, vendorReturn, check, onHand, putAway>>, cost' \in Costs
       PROVE  WarehouseInv'
  <2>1. WarehouseTypeOK'
    BY <1>0, <1>10 DEF WarehouseTypeOK
  <2> HIDE DEF posted, sent, rejected
  <2>2. StockExplained'
    BY <1>1, <1>2, <1>3, <1>4, <1>5, <1>10
  <2> QED
    BY <1>5, <1>10, <2>1, <2>2 DEF WarehouseInv
<1>11. ASSUME NEW u \in Users, NEW c \in Costs, UpdateItemCost(u, c)
       PROVE  WarehouseInv'
  BY <1>10, <1>11 DEF UpdateItemCost
<1>12. CASE UNCHANGED houseVars
  BY <1>0, <1>10, <1>12 DEF houseVars, WarehouseTypeOK
<1> QED
  BY <1>6, <1>7, <1>8, <1>9, <1>11, <1>12 DEF WarehouseNext, InspectionOps

\* The warehouse's invariant holds in every state.
LEMMA WarehouseHolds == WarehouseSpec => []WarehouseInv
BY WarehouseInitInv, WarehouseStep, PTL DEF WarehouseSpec

\* Documents hold values of their kind, and no balance ever falls below zero.
THEOREM WarehouseTypeCorrect == WarehouseSpec => []WarehouseTypeOK
BY WarehouseHolds, PTL DEF WarehouseInv

\* Whoever raised an adjustment signs it in no case, and one above the threshold
\* carries two signatures that differ, whatever the item costs by then.
THEOREM WriteOffsAreCountersigned == WarehouseSpec => []WriteOffsCountersigned
<1>1. WarehouseInv => WriteOffsCountersigned
  BY DEF WarehouseInv, Countersigned, WriteOffsCountersigned
<1> QED
  BY <1>1, WarehouseHolds, PTL

\* Every unit on the shelf, in quarantine and in the store is accounted for by
\* the documents, however many there are and in whatever order they are decided.
THEOREM StockIsExplained == WarehouseSpec => []StockExplained
BY WarehouseHolds, PTL DEF WarehouseInv

-----------------------------------------------------------------------------
(* ThreeWayMatch.                                                          *)

Tolerances == [amount : 0 .. MAX_PERCENT, quantity : 0 .. MAX_PERCENT]

MatchInv == received \in [Lines -> Nat] /\ tolerance \in Tolerances

\* Whatever was received and however the tolerance is set, both are of their kind.
LEMMA MatchHolds == MatchSpec => []MatchInv
<1>1. MatchInit => MatchInv
  BY DEF MatchInit, MatchInv, Tolerances, DEFAULT_MATCH_TOLERANCE, MAX_PERCENT
<1>2. MatchInv /\ [MatchNext]_matchVars => MatchInv'
  <2> SUFFICES ASSUME MatchInv, [MatchNext]_matchVars PROVE MatchInv'
    OBVIOUS
  <2>1. ASSUME NEW l \in Lines, Receive(l) PROVE MatchInv'
    BY <2>1 DEF Receive, MatchInv
  <2>2. ASSUME NEW amount \in Percents, NEW quantity \in Percents, SetTolerance(amount, quantity)
        PROVE  MatchInv'
    <3>1. amount \in Nat /\ quantity \in Nat
      BY MatchAssumption
    <3>2. amount \in 0 .. MAX_PERCENT /\ quantity \in 0 .. MAX_PERCENT
      BY <2>2, <3>1 DEF SetTolerance, MAX_PERCENT
    <3> QED
      BY <2>2, <3>2 DEF SetTolerance, MatchInv, Tolerances
  <2>3. CASE UNCHANGED matchVars
    BY <2>3 DEF matchVars, MatchInv
  <2> QED
    BY <2>1, <2>2, <2>3 DEF MatchNext
<1> QED
  BY <1>1, <1>2, PTL DEF MatchSpec

\* A product of a quantity and a price above zero is above zero.
LEMMA TimesPositive ==
  ASSUME NEW n \in Nat, NEW m \in Nat \ {0}
  PROVE  n * m \in Nat /\ (n # 0 => n * m > 0)
OBVIOUS

\* At most a quarter over: what no tolerance the service accepts exceeds.
LEMMA Share ==
  ASSUME NEW total \in Nat, NEW percent \in 0 .. 25, NEW excess \in Int,
         100 * excess <= total * percent
  PROVE  4 * excess <= total
<1>1. total * percent <= total * 25
  OBVIOUS
<1>2. total * 25 \in Int /\ total * percent \in Int
  OBVIOUS
<1>3. 100 * excess <= 25 * total
  BY <1>1, <1>2
<1> QED
  BY <1>3

\* A verdict other than `mismatched' is about goods that came.
LEMMA MatchStands == MatchInv => BilledForDelivered
<1> SUFFICES ASSUME MatchInv, match_invoice # "mismatched"
             PROVE  ReceivedValue > 0 /\ 4 * (Invoiced - ReceivedValue) <= OrderTotal
  BY DEF BilledForDelivered
<1> DEFINE value == [l \in Lines |-> received[l] * Price[l]]
           due == [l \in Lines |-> Ordered[l] * Price[l]]
<1>1. ~NothingReceived /\ ~Above(Invoiced - ReceivedValue)
  BY DEF match_invoice, Undelivered
<1>2. \A l \in Lines : received[l] \in Nat /\ Price[l] \in Nat \ {0} /\ Ordered[l] \in Nat
  BY MatchAssumption DEF MatchInv
<1>3. \A l \in Lines : value[l] \in Nat /\ (received[l] # 0 => value[l] > 0)
  <2>1. \A l \in Lines : /\ received[l] * Price[l] \in Nat
                         /\ received[l] # 0 => received[l] * Price[l] > 0
    BY <1>2, TimesPositive
  <2> QED
    BY <2>1
<1>4. \A l \in Lines : due[l] \in Nat
  <2>1. \A l \in Lines : Ordered[l] * Price[l] \in Nat
    BY <1>2, TimesPositive
  <2> QED
    BY <2>1
<1>5. ReceivedValue = SumFunctionOnSet(value, Lines) /\ OrderTotal = SumFunctionOnSet(due, Lines)
  BY DEF ReceivedValue, OrderTotal
<1> HIDE DEF value, due
<1>6. IsFiniteSet(Lines) /\ Invoiced \in Nat
  BY MatchAssumption
<1>7. OrderTotal \in Nat
  BY <1>4, <1>5, <1>6, SumNat
<1>8. ReceivedValue \in Nat /\ \A l \in Lines : value[l] <= ReceivedValue
  BY <1>3, <1>5, <1>6, SumNat
<1>9. ReceivedValue > 0
  <2>1. PICK l \in Lines : received[l] # 0
    BY <1>1 DEF NothingReceived
  <2>2. value[l] \in Nat /\ value[l] > 0 /\ value[l] <= ReceivedValue
    BY <1>3, <1>8, <2>1
  <2> QED
    BY <1>8, <2>2
<1>10. 4 * (Invoiced - ReceivedValue) <= OrderTotal
  <2> DEFINE excess == Invoiced - ReceivedValue
  <2>1. excess \in Int /\ tolerance.amount \in 0 .. 25
    BY <1>6, <1>8 DEF MatchInv, Tolerances, MAX_PERCENT
  <2>2. 100 * excess <= OrderTotal * tolerance.amount
    <3>1. OrderTotal * tolerance.amount \in Int
      BY <1>7, <2>1
    <3> HIDE DEF excess
    <3>2. ~(100 * excess > OrderTotal * tolerance.amount)
      BY <1>1 DEF Above, excess
    <3> QED
      BY <2>1, <3>1, <3>2
  <2> HIDE DEF excess
  <2>3. 4 * excess <= OrderTotal
    BY <1>7, <2>1, <2>2, Share
  <2> QED
    BY <2>3 DEF excess
<1> QED
  BY <1>9, <1>10

\* Whatever was ordered, received and billed, and whatever the tolerance was set
\* to: a bill that passes is for goods that came, and exceeds their value by a
\* quarter of the order at the most.
THEOREM BilledForWhatCame == MatchSpec => []BilledForDelivered
BY MatchHolds, MatchStands, PTL

-----------------------------------------------------------------------------
(* The decision inbox.                                                     *)

\* Who borrows no role of another kind acts by the own role alone.
LEMMA OwnRoleActs ==
  ASSUME NEW u \in Users, EffectiveRoles(u) = {RoleOf[u]}, NEW perm
  PROVE  ResolvePermission(u, perm) <=> May(u, perm)
BY DEF ResolvePermission, May

\* In every state the inbox shows whoever acts on the own authority all that the
\* services would let them decide, and of adjustments and returns nothing else:
\* its filters and the guards of three services agree, the two signatures of an
\* adjustment included.
THEOREM NothingIsHidden == OwnWorkShown
<1> SUFFICES ASSUME NEW u \in Users, EffectiveRoles(u) = {RoleOf[u]}
             PROVE  /\ \A n \in Needs : CanApproveRequisition(u, n) => n \in RequisitionItems(u)
                    /\ \A o \in Orders : CanApproveOrder(u, o) => o \in OrderItems(u)
                    /\ \A f \in Tenders, v \in Suppliers, why \in BOOLEAN :
                         CanAwardQuote(u, f, v, why) => f \in TenderItems(u)
                    /\ AdjustmentItems(u) = {a \in Adjustments : CanSignFirst(u, a) \/ CanSignLast(u, a)}
                    /\ ReturnItems(u) = {r \in Returns : CanApproveReturn(u, r)}
  BY DEF OwnWorkShown
<1>1. \A n \in Needs : CanApproveRequisition(u, n) => n \in RequisitionItems(u)
  BY OwnRoleActs DEF CanApproveRequisition, RequisitionItems
<1>2. \A o \in Orders : CanApproveOrder(u, o) => o \in OrderItems(u)
  BY OwnRoleActs DEF CanApproveOrder, OrderItems
<1>3. \A f \in Tenders, v \in Suppliers, why \in BOOLEAN :
        CanAwardQuote(u, f, v, why) => f \in TenderItems(u)
  BY OwnRoleActs DEF CanAwardQuote, TenderItems
<1>4. ASSUME NEW a \in Adjustments
      PROVE  a \in AdjustmentItems(u) <=> CanSignFirst(u, a) \/ CanSignLast(u, a)
  BY NoUserAssumption DEF AdjustmentItems, CanSignFirst, CanSignLast, Approvable
<1>5. ASSUME NEW r \in Returns
      PROVE  r \in ReturnItems(u) <=> CanApproveReturn(u, r)
  BY OwnRoleActs DEF ReturnItems, CanApproveReturn
<1> QED
  BY <1>1, <1>2, <1>3, <1>4, <1>5 DEF AdjustmentItems, ReturnItems

=============================================================================
