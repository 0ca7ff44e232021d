------------------------------- MODULE MCSpend ------------------------------
(***************************************************************************)
(* From the need to the payment: small instances of four components that   *)
(* share no state - the requisitions, tenders and orders, the stock        *)
(* documents, the three-way match, and the sessions that pay - in one      *)
(* state space.  A behaviour belongs to one of them from its first state   *)
(* on, and the others stay as they are.                                    *)
(***************************************************************************)
EXTENDS SpendInbox, ThreeWayMatch, PaymentSessions, TLC

CONSTANTS mia, cy, ada, nobody,         \* a manager, a CFO, an administrator
          n1, f1, f2, o1, o2, v1, v2, nov, nof,
          a1, q1, c1, d1,
          s1, s2, s3, r1, r2, i1, i2, desk,
          Starts   \* where behaviours start

VARIABLE part

Office == {mia, cy, ada}
OfficeRoles == (mia :> "manager" @@ cy :> "cfo" @@ ada :> "admin")
NoPairs == {}

\* A tenant that wants its CFO from 200,000 on, where the default is 250,000.
CfoFrom200k == {[operator |-> "greater_equal", amount_threshold |-> 200000,
                 required_role |-> "cfo", priority |-> 1]}

TwoDelivered == [d \in Deliveries |-> 2]
DownAndUp == {-2, 1}

FiveOfEach == ("bolt" :> 5 @@ "nut" :> 5)
UnitPrice == ("bolt" :> 20 @@ "nut" :> 4)

\* Two payment runs over two invoices, both over the first.
Overlapping == [r \in Runs |-> IF r = r1 THEN {i1, i2} ELSE {i1}]
EveryOp == RunOps \cup InvoiceOps

\* Nobody recalls a waiting run and nobody pays by hand.
NoRecall == EveryOp \ {"reject", "mark_paid"}

Symmetry == Permutations(Sessions)

-----------------------------------------------------------------------------
(* Where a behaviour starts.  ProcurementInit leads to each of the books.  *)

Approved == [state |-> "approved", by |-> mia, approver |-> cy, estimate |-> 200000]
Withdrawn == [NoRfq EXCEPT !.state = "cancelled", !.need = n1, !.by = ada]
Awarded == [NoRfq EXCEPT !.state = "awarded", !.need = n1, !.by = ada, !.invited = {v1, v2},
                         !.quotes = (v1 :> 200000 @@ v2 :> 200000), !.winner = v1,
                         !.awarder = mia]
Refused == [NoOrder EXCEPT !.state = "rejected", !.supplier = v1, !.total = 200000, !.by = ada]

Books(n, f, g, o) ==
  /\ need = [m \in Needs |-> n]
  /\ tender = (f1 :> f @@ f2 :> g)
  /\ order = [p \in Orders |-> o]
  /\ active = Suppliers
  /\ policies \in SUBSET Policies
  /\ DelegationInit

\* A need is raised; its tender is held; two tenders of one need were awarded;
\* goods are moved; an invoice is matched; payment runs are submitted and released.
ASSUME StartsAssumption ==
  Starts \subseteq {"need", "tender", "awards", "stock", "match", "sessions"}

SpendInit ==
  /\ part \in Starts
  /\ CASE part = "tender" -> Books(Approved, NoRfq, Withdrawn, Refused)
       [] part = "awards" -> Books(Approved, Awarded, Awarded, NoOrder)
       [] OTHER           -> Books(NoNeed, Withdrawn, Withdrawn, Refused)
  /\ (part \in {"stock", "match", "sessions"} => policies = {})
  /\ WarehouseInit /\ (part # "stock" => cost = 20000)
  /\ MatchInit
  /\ Init

Stays(own, state) == IF own THEN TRUE ELSE UNCHANGED state

\* The state of every part but these stays as it is.
Only(names) ==
  /\ part \in names /\ UNCHANGED part
  /\ Stays("need" \in names, procVars)
  /\ Stays("stock" \in names, houseVars)
  /\ Stays("match" \in names, matchVars)
  /\ Stays("sessions" \in names, vars)

SpendNext ==
  \/ Only({"need", "tender", "awards"}) /\ ProcurementNext
  \/ Only({"stock"}) /\ WarehouseNext
  \/ Only({"match"}) /\ MatchNext
  \/ Only({"sessions"}) /\ Next

SpendSpec == SpendInit /\ [][SpendNext]_<<part, procVars, houseVars, matchVars, vars>>

=============================================================================
