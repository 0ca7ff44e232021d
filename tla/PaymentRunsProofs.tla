------------------------- MODULE PaymentRunsProofs --------------------------
(***************************************************************************)
(* Theorems about PaymentRuns, for any number of people, invoices,         *)
(* vendors, runs, lines and change requests.                               *)
(***************************************************************************)
EXTENDS PaymentRuns, VendorBankProofs, SequenceTheorems

-----------------------------------------------------------------------------
(* What the invoices' own steps do.                                        *)

\* The desk, settlements apart, pays nothing and takes no payment back, and
\* changes an amount only of an invoice that is coming, a draft or rejected.
LEMMA DeskEffect ==
  ASSUME InvTypeOK, DeskStep
  PROVE  /\ InvTypeOK'
         /\ \A i \in Invoices :
              /\ invState'[i] = "paid" <=> invState[i] = "paid"
              /\ invState[i] \notin {"absent", "draft", "rejected"} => invAmount'[i] = invAmount[i]
              /\ invState[i] \in {"pending_approval", "approved"}
                   => invState'[i] \in {"pending_approval", "approved", "rejected"}
              /\ invState[i] = "rejected" => invState'[i] = "rejected"
<1> USE AmountsAssumption DEF InvTypeOK, InvStates, Transition
<1>1. CASE \E i \in Invoices, a \in Amounts : Create(i, a) \/ Edit(i, a)
  BY <1>1 DEF Create, Edit
<1>2. CASE \E i \in Invoices : Validate(i) \/ Withdraw(i) \/ Submit(i) \/ Reject(i) \/ Revert(i)
  BY <1>2 DEF Validate, Withdraw, Submit, Reject, Revert
<1>3. CASE \E S \in SUBSET Invoices : Approve(S)
  BY <1>3 DEF Approve
<1> QED BY <1>1, <1>2, <1>3 DEF DeskStep

\* A settlement takes each of its invoices from approved to paid.
LEMMA PayEffect ==
  ASSUME InvTypeOK, NEW S \in SUBSET Invoices, Pay(S)
  PROVE  /\ InvTypeOK'
         /\ UNCHANGED invAmount
         /\ \A i \in S : invState[i] = "approved"
         /\ \A i \in Invoices : invState'[i] = IF i \in S THEN "paid" ELSE invState[i]
BY DEF InvTypeOK, InvStates, Pay

LEMMA CoveredType == ASSUME TypeOK, NEW r \in Runs PROVE Covered(r) \in SUBSET Invoices
<1> SUFFICES ASSUME NEW k \in DOMAIN lines[r] PROVE lines[r][k].inv \in Invoices
  BY DEF Covered
<1>1. lines[r] \in Seq(Line)
  BY DEF TypeOK
<1>2. lines[r][k] \in Line
  BY <1>1, ElementOfSeq
<1> QED BY <1>2 DEF Line

LEMMA PreparedLinesType ==
  ASSUME TypeOK, NEW ids \in InvoiceLists
  PROVE  [k \in DOMAIN ids |-> LineFor(ids[k])] \in Seq(Line)
<1>1. PICK n \in 1..MaxLines : ids \in [1..n -> Invoices]
  BY DEF InvoiceLists
<1>2. n \in Nat /\ DOMAIN ids = 1..n
  BY <1>1, MaxRunsAssumption
<1>3. \A i \in Invoices : account[VendorOf[i]] \in BankDetails
  BY VendorOfAssumption DEF TypeOK, BankTypeOK
<1>4. \A i \in Invoices : LineFor(i) \in Line
  BY <1>3 DEF LineFor, Line, TypeOK, InvTypeOK
<1>5. [k \in DOMAIN ids |-> LineFor(ids[k])] \in [1..n -> Line]
  BY <1>1, <1>2, <1>4
<1> QED BY <1>2, <1>5, SeqDef

-----------------------------------------------------------------------------
(* Type correctness.                                                       *)

LEMMA InitType == Init => TypeOK
<1> SUFFICES ASSUME Init PROVE TypeOK
  OBVIOUS
<1>1. BankTypeOK
  BY BankInitType DEF Init
<1>2. InvTypeOK
  BY DEF Init, InvInit, InvTypeOK, InvStates
<1>3. lines \in [Runs -> Seq(Line)]
  BY EmptySeq DEF Init, RunInit
<1> QED BY <1>1, <1>2, <1>3 DEF Init, RunInit, TypeOK, RunStates

LEMMA TypeStep == ASSUME TypeOK, [Next]_vars PROVE TypeOK'
<1> USE DEF deskVars, invVars, vendorVars, runVars
<1>1. ASSUME NEW u \in Users, NEW r \in Runs, NEW ids \in InvoiceLists, PreparePayment(u, r, ids)
      PROVE  TypeOK'
  BY <1>1, PreparedLinesType
     DEF PreparePayment, TypeOK, RunStates, InvTypeOK, BankTypeOK
<1>2. ASSUME NEW u \in Users, NEW r \in Runs, SubmitForRelease(u, r) \/ RejectPayment(u, r)
      PROVE  TypeOK'
  BY <1>2 DEF SubmitForRelease, RejectPayment, TypeOK, RunStates, InvTypeOK, BankTypeOK
<1>3. ASSUME NEW u \in Users, NEW r \in Runs, ReleasePayment(u, r)
      PROVE  TypeOK'
  <2>1. InvTypeOK'
    BY <1>3, CoveredType, PayEffect DEF ReleasePayment, TypeOK
  <2>2. now' \in Nat
    BY <1>3 DEF ReleasePayment, TypeOK, BankTypeOK
  <2>3. BankTypeOK'
    BY <1>3, <2>2 DEF ReleasePayment, TypeOK, BankTypeOK
  <2> QED BY <1>3, <2>1, <2>2, <2>3 DEF ReleasePayment, TypeOK, RunStates
<1>4. ASSUME NEW u \in Users, NEW i \in Invoices, MarkAsPaid(u, i)
      PROVE  TypeOK'
  <2>1. InvTypeOK'
    BY <1>4, PayEffect DEF MarkAsPaid, TypeOK
  <2> QED BY <1>4, <2>1 DEF MarkAsPaid, TypeOK, BankTypeOK
<1>5. CASE Desk
  <2>1. InvTypeOK'
    BY <1>5, DeskEffect DEF Desk, TypeOK
  <2>2. BankTypeOK'
    BY <1>5 DEF Desk, TypeOK, BankTypeOK, AutoCreateVendors, VendorStatus
  <2> QED BY <1>5, <2>1, <2>2 DEF Desk, TypeOK
<1>6. CASE MaintainVendor
  <2>1. BankTypeOK'
    BY <1>6, VendorStepType DEF MaintainVendor, TypeOK
  <2> QED BY <1>6, <2>1 DEF MaintainVendor, TypeOK, InvTypeOK
<1>7. CASE ChangeBankDetails
  <2>1. BankTypeOK'
    BY <1>7, BankStepType DEF ChangeBankDetails, TypeOK
  <2> QED BY <1>7, <2>1 DEF ChangeBankDetails, TypeOK, InvTypeOK
<1>8. CASE Delegate
  BY <1>8, DelegationStepType DEF Delegate, TypeOK, InvTypeOK, BankTypeOK
<1>9. CASE UNCHANGED vars
  BY <1>9 DEF vars, TypeOK, InvTypeOK, BankTypeOK
<1> QED BY <1>1, <1>2, <1>3, <1>4, <1>5, <1>6, <1>7, <1>8, <1>9 DEF Next, PayStep

\* Every reachable state has a value of its kind in every variable: what the
\* payment runs, the invoices, the vendors, their bank changes and the
\* delegations keep, whoever takes which step.
THEOREM TypeCorrect == Spec => []TypeOK
BY InitType, TypeStep, PTL DEF Spec

-----------------------------------------------------------------------------
(* Settlement.                                                             *)

\* A step that pays nothing and releases nothing leaves every payment as it was.
LEMMA NothingPaid ==
  ASSUME SettledOnce,
         \A i \in Invoices : invState'[i] = "paid" <=> invState[i] = "paid",
         UNCHANGED markedPaid,
         \A r \in Runs : /\ Released(r)' <=> Released(r)
                         /\ Released(r) => lines'[r] = lines[r]
  PROVE  SettledOnce' /\ UNCHANGED <<Settled, PayersOf>>
<1>1. \A r \in Runs : Released(r) => Covered(r)' = Covered(r)
  BY DEF Covered
<1>2. InvoicesSettleOnce'
  BY <1>1 DEF SettledOnce, InvoicesSettleOnce
<1>3. LinesSettleOnce'
  BY DEF SettledOnce, LinesSettleOnce, SettlesEachOnce
<1>4. UNCHANGED Settled
  BY DEF Settled
<1>5. \A i \in Invoices : {r \in Runs : Released(r) /\ i \in Covered(r)}'
                            = {r \in Runs : Released(r) /\ i \in Covered(r)}
  BY <1>1
<1>6. UNCHANGED PayersOf
  BY <1>5 DEF PayersOf
<1> QED BY <1>2, <1>3, <1>4, <1>6 DEF SettledOnce

\* A release pays the invoices of its run, which nothing had paid.
LEMMA ReleaseEffect ==
  ASSUME TypeOK, SettledOnce, NEW u \in Users, NEW r \in Runs, ReleasePayment(u, r)
  PROVE  /\ SettledOnce'
         /\ Paying!Settle(r, Covered(r))
<1>1. Covered(r) \in SUBSET Invoices
  BY CoveredType
<1>2. /\ \A i \in Covered(r) : invState[i] = "approved"
      /\ \A i \in Invoices : invState'[i] = IF i \in Covered(r) THEN "paid" ELSE invState[i]
  BY <1>1, PayEffect DEF ReleasePayment, TypeOK
<1>3. /\ \A q \in Runs : Covered(q)' = Covered(q)
      /\ \A q \in Runs : Released(q)' <=> Released(q) \/ q = r
      /\ ~Released(r)
  BY DEF ReleasePayment, Covered, Released, TypeOK
<1>4. \A i \in Covered(r) :
        i \notin markedPaid /\ \A q \in Runs : Released(q) => i \notin Covered(q)
  BY <1>1, <1>2 DEF SettledOnce, InvoicesSettleOnce
<1>5. UNCHANGED markedPaid
  BY DEF ReleasePayment
<1>6. InvoicesSettleOnce'
  <2> SUFFICES ASSUME NEW i \in Invoices
               PROVE  /\ invState'[i] = "paid"
                           <=> \/ i \in markedPaid
                               \/ \E q \in Runs : (Released(q) \/ q = r) /\ i \in Covered(q)
                      /\ i \in markedPaid
                           => \A q \in Runs : (Released(q) \/ q = r) => i \notin Covered(q)
                      /\ \A p, q \in Runs :
                           (Released(p) \/ p = r) /\ (Released(q) \/ q = r)
                             /\ i \in Covered(p) \cap Covered(q) => p = q
    BY <1>3, <1>5 DEF InvoicesSettleOnce
  <2>1. CASE i \in Covered(r)
    BY <2>1, <1>2, <1>4 
  <2>2. CASE i \notin Covered(r)
    BY <2>2, <1>2 DEF SettledOnce, InvoicesSettleOnce
  <2> QED BY <2>1, <2>2
<1>7. LinesSettleOnce'
  BY <1>3 DEF ReleasePayment, SettledOnce, LinesSettleOnce, SettlesEachOnce
<1>8. Settled' = Settled \cup Covered(r) /\ Covered(r) \subseteq Invoices \ Settled
  BY <1>1, <1>2 DEF Settled
<1>9. \A i \in Invoices : r \notin PayersOf[i]
  BY <1>3, MaxRunsAssumption DEF PayersOf, Runs
<1>10. PayersOf' = [i \in Invoices |-> IF i \in Covered(r) THEN {r} ELSE PayersOf[i]]
  <2> SUFFICES ASSUME NEW i \in Invoices
               PROVE  PayersOf'[i] = IF i \in Covered(r) THEN {r} ELSE PayersOf[i]
    BY DEF PayersOf
  <2>1. PayersOf'[i] = {q \in Runs : (Released(q) \/ q = r) /\ i \in Covered(q)}
                          \cup {0 : j \in {i} \cap markedPaid}
    BY <1>3, <1>5 DEF PayersOf
  <2>2. CASE i \in Covered(r)
    BY <2>1, <2>2, <1>4
  <2>3. CASE i \notin Covered(r)
    BY <2>1, <2>3 DEF PayersOf
  <2> QED BY <2>2, <2>3
<1> QED BY <1>6, <1>7, <1>8, <1>9, <1>10 DEF SettledOnce, Paying!Settle

\* The desk pays one invoice, which nothing had paid.
LEMMA MarkAsPaidEffect ==
  ASSUME TypeOK, SettledOnce, NEW u \in Users, NEW i \in Invoices, MarkAsPaid(u, i)
  PROVE  /\ SettledOnce'
         /\ Paying!Settle(0, {i})
<1>1. /\ invState[i] = "approved"
      /\ \A j \in Invoices : invState'[j] = IF j = i THEN "paid" ELSE invState[j]
  BY PayEffect DEF MarkAsPaid, TypeOK
<1>2. UNCHANGED runVars /\ markedPaid' = markedPaid \cup {i}
  BY DEF MarkAsPaid
<1>3. /\ \A r \in Runs : Covered(r)' = Covered(r)
      /\ \A r \in Runs : Released(r)' <=> Released(r)
  BY <1>2 DEF runVars, Covered, Released
<1>4. i \notin markedPaid /\ \A r \in Runs : Released(r) => i \notin Covered(r)
  BY <1>1 DEF SettledOnce, InvoicesSettleOnce
<1>5. InvoicesSettleOnce'
  BY <1>1, <1>2, <1>3, <1>4 DEF SettledOnce, InvoicesSettleOnce
<1>6. LinesSettleOnce'
  BY <1>2, <1>3 DEF runVars, SettledOnce, LinesSettleOnce, SettlesEachOnce
<1>7. Settled' = Settled \cup {i} /\ {i} \subseteq Invoices \ Settled
  BY <1>1 DEF Settled
<1>8. 0 \notin Runs
  BY DEF Runs
<1>9. PayersOf' = [j \in Invoices |-> IF j \in {i} THEN {0} ELSE PayersOf[j]]
  <2> SUFFICES ASSUME NEW j \in Invoices
               PROVE  PayersOf'[j] = IF j = i THEN {0} ELSE PayersOf[j]
    BY DEF PayersOf
  <2>1. PayersOf'[j] = {r \in Runs : Released(r) /\ j \in Covered(r)}
                          \cup {0 : k \in {j} \cap (markedPaid \cup {i})}
    BY <1>2, <1>3 DEF PayersOf
  <2>2. CASE j = i
    BY <2>1, <2>2, <1>4
  <2>3. CASE j # i
    BY <2>1, <2>3 DEF PayersOf
  <2> QED BY <2>2, <2>3
<1> QED BY <1>5, <1>6, <1>7, <1>8, <1>9 DEF SettledOnce, Paying!Settle

\* Every step keeps SettledOnce, and is a settlement or touches no payment.
LEMMA SettlementStep ==
  ASSUME TypeOK, SettledOnce, [Next]_vars
  PROVE  /\ SettledOnce'
         /\ [Paying!Next]_<<Settled, PayersOf>>
<1> USE DEF deskVars, invVars, vendorVars, runVars
<1>1. ASSUME NEW u \in Users, NEW r \in Runs, ReleasePayment(u, r)
      PROVE  SettledOnce' /\ Paying!Next
  BY <1>1, ReleaseEffect, CoveredType DEF Paying!Next, Paying!Payers
<1>2. ASSUME NEW u \in Users, NEW i \in Invoices, MarkAsPaid(u, i)
      PROVE  SettledOnce' /\ Paying!Next
  BY <1>2, MarkAsPaidEffect DEF Paying!Next, Paying!Payers
<1>3. ASSUME NEW u \in Users, NEW r \in Runs, NEW ids \in InvoiceLists, PreparePayment(u, r, ids)
      PROVE  SettledOnce' /\ UNCHANGED <<Settled, PayersOf>>
  BY <1>3, NothingPaid DEF PreparePayment, Released, TypeOK
<1>4. ASSUME NEW u \in Users, NEW r \in Runs, SubmitForRelease(u, r) \/ RejectPayment(u, r)
      PROVE  SettledOnce' /\ UNCHANGED <<Settled, PayersOf>>
  BY <1>4, NothingPaid DEF SubmitForRelease, RejectPayment, Released, TypeOK
<1>5. CASE Desk
  <2>1. \A i \in Invoices : invState'[i] = "paid" <=> invState[i] = "paid"
    BY <1>5, DeskEffect DEF Desk, TypeOK
  <2> QED BY <1>5, <2>1, NothingPaid DEF Desk, Released
<1>6. CASE MaintainVendor \/ ChangeBankDetails \/ Delegate \/ UNCHANGED vars
  BY <1>6, NothingPaid
     DEF MaintainVendor, ChangeBankDetails, Delegate, vars, Released
<1> QED BY <1>1, <1>2, <1>3, <1>4, <1>5, <1>6 DEF Next, PayStep

LEMMA SettlementInit == Init => SettledOnce /\ Paying!Init
BY DEF Init, InvInit, RunInit, SettledOnce, InvoicesSettleOnce, LinesSettleOnce,
       Released, Settled, PayersOf, Paying!Init

\* No invoice is ever paid twice, whatever runs are prepared over it and
\* whatever the desk marks paid between preparation and release.
THEOREM PaidOnce == Spec => []SettledOnce
BY TypeCorrect, SettlementInit, SettlementStep, PTL DEF Spec

\* The payment runs, the desk and everything that goes on around them implement
\* Settlement.
THEOREM RunsImplementSettlement == Spec => SettlementSpec
<1>1. Init => Paying!Init
  BY SettlementInit
<1>2. TypeOK /\ SettledOnce /\ [Next]_vars => [Paying!Next]_<<Settled, PayersOf>>
  BY SettlementStep
<1> QED BY <1>1, <1>2, TypeCorrect, PaidOnce, PTL DEF Spec, SettlementSpec, Paying!Spec

\* Runs and the desk, with delegates, vendors and bank details changing around
\* them, move an invoice and its amount only as InvoiceLifecycle says: what
\* PaymentRuns knows of the desk is what InvoiceApproval was shown to keep to.
THEOREM PaymentsFollowLifecycle == Spec => InvSpec
<1>1. TypeOK /\ [Next]_vars => [InvNext]_invVars
  <2> SUFFICES ASSUME TypeOK, [Next]_vars PROVE InvNext \/ UNCHANGED invVars
    OBVIOUS
  <2>1. ASSUME NEW u \in Users, NEW r \in Runs, ReleasePayment(u, r) PROVE InvNext
    <3>1. Covered(r) \in SUBSET Invoices /\ Pay(Covered(r))
      BY <2>1, CoveredType DEF ReleasePayment
    <3> QED
      BY <3>1 DEF InvNext
  <2>2. ASSUME NEW u \in Users, NEW i \in Invoices, MarkAsPaid(u, i) PROVE InvNext
    BY <2>2 DEF MarkAsPaid, InvNext
  <2>3. ASSUME NEW u \in Users, NEW r \in Runs, NEW ids \in InvoiceLists, PreparePayment(u, r, ids)
        PROVE  UNCHANGED invVars
    BY <2>3 DEF PreparePayment, deskVars, invVars
  <2>4. ASSUME NEW u \in Users, NEW r \in Runs, SubmitForRelease(u, r) \/ RejectPayment(u, r)
        PROVE  UNCHANGED invVars
    BY <2>4 DEF SubmitForRelease, RejectPayment, deskVars, invVars
  <2>5. CASE Desk
    BY <2>5 DEF Desk, InvNext
  <2>6. CASE MaintainVendor \/ ChangeBankDetails \/ Delegate \/ UNCHANGED vars
    BY <2>6 DEF MaintainVendor, ChangeBankDetails, Delegate, vars, deskVars, invVars
  <2> QED
    BY <2>1, <2>2, <2>3, <2>4, <2>5, <2>6 DEF Next, PayStep
<1>2. Init => InvInit
  BY DEF Init
<1> QED
  BY <1>1, <1>2, TypeCorrect, PTL DEF Spec, InvSpec

-----------------------------------------------------------------------------
(* Amounts.                                                                *)

\* An invoice listed in a run never becomes editable and payable again: it is
\* on its way to being paid, at the amount on the line, or it was rejected,
\* which nothing leads out of.
ListedAsApproved ==
  \A r \in Runs : runState[r] # "absent" => \A k \in DOMAIN lines[r] :
    LET i == lines[r][k].inv IN
    /\ invState[i] \in {"pending_approval", "approved", "paid", "rejected"}
    /\ invState[i] # "rejected" => lines[r][k].amount = invAmount[i]

LEMMA ListedInit == Init => ListedAsApproved
BY DEF Init, RunInit, ListedAsApproved

LEMMA LineInvoice ==
  ASSUME TypeOK, NEW r \in Runs, NEW k \in DOMAIN lines[r]
  PROVE  lines[r][k].inv \in Invoices
BY CoveredType DEF Covered

\* Steps on invoices that keep what runs rely on.
LEMMA ListedKept ==
  ASSUME TypeOK, ListedAsApproved, UNCHANGED lines,
         \A r \in Runs : runState'[r] # "absent" => runState[r] # "absent",
         \A i \in Invoices :
           /\ invState[i] \in {"pending_approval", "approved", "paid"}
                => /\ invState'[i] \in {"pending_approval", "approved", "paid", "rejected"}
                   /\ invAmount'[i] = invAmount[i]
           /\ invState[i] = "rejected" => invState'[i] = "rejected"
  PROVE  ListedAsApproved'
BY LineInvoice DEF ListedAsApproved

LEMMA ListedStep == ASSUME TypeOK, ListedAsApproved, [Next]_vars PROVE ListedAsApproved'
<1> USE DEF deskVars, invVars, vendorVars, runVars
<1>1. ASSUME NEW u \in Users, NEW r \in Runs, NEW ids \in InvoiceLists, PreparePayment(u, r, ids)
      PROVE  ListedAsApproved'
  <2> SUFFICES ASSUME NEW q \in Runs, runState'[q] # "absent", NEW k \in DOMAIN lines'[q]
               PROVE  LET i == lines'[q][k].inv IN
                      /\ invState[i] \in {"pending_approval", "approved", "paid", "rejected"}
                      /\ invState[i] # "rejected" => lines'[q][k].amount = invAmount[i]
    BY <1>1 DEF PreparePayment, ListedAsApproved
  <2>1. CASE q = r
    <3>1. lines'[q] = [j \in DOMAIN ids |-> LineFor(ids[j])]
      BY <1>1, <2>1 DEF PreparePayment, TypeOK
    <3>2. k \in DOMAIN ids /\ lines'[q][k] = LineFor(ids[k])
      BY <3>1
    <3> QED BY <1>1, <3>2 DEF PreparePayment, Payable, LineFor
  <2>2. CASE q # r
    BY <1>1, <2>2 DEF PreparePayment, TypeOK, ListedAsApproved
  <2> QED BY <2>1, <2>2
<1>2. ASSUME NEW u \in Users, NEW r \in Runs, SubmitForRelease(u, r) \/ RejectPayment(u, r)
      PROVE  ListedAsApproved'
  BY <1>2, ListedKept DEF SubmitForRelease, RejectPayment, TypeOK
<1>3. ASSUME NEW u \in Users, NEW r \in Runs, ReleasePayment(u, r)
      PROVE  ListedAsApproved'
  BY <1>3, ListedKept, PayEffect, CoveredType DEF ReleasePayment, TypeOK
<1>4. ASSUME NEW u \in Users, NEW i \in Invoices, MarkAsPaid(u, i)
      PROVE  ListedAsApproved'
  BY <1>4, ListedKept, PayEffect DEF MarkAsPaid, TypeOK
<1>5. CASE Desk
  <2>1. \A i \in Invoices :
          /\ invState'[i] = "paid" <=> invState[i] = "paid"
          /\ invState[i] \notin {"absent", "draft", "rejected"} => invAmount'[i] = invAmount[i]
          /\ invState[i] \in {"pending_approval", "approved"}
               => invState'[i] \in {"pending_approval", "approved", "rejected"}
          /\ invState[i] = "rejected" => invState'[i] = "rejected"
    BY <1>5, DeskEffect DEF Desk, TypeOK
  <2> QED BY <1>5, <2>1, ListedKept DEF Desk
<1>6. CASE MaintainVendor \/ ChangeBankDetails \/ Delegate \/ UNCHANGED vars
  BY <1>6, ListedKept DEF MaintainVendor, ChangeBankDetails, Delegate, vars
<1> QED BY <1>1, <1>2, <1>3, <1>4, <1>5, <1>6 DEF Next, PayStep

\* What a release pays is what was approved: the copy of the amount on the line
\* still is the invoice's amount, however the approval came and went between.
THEOREM AmountsHold == Spec => []PaidAsApproved
<1>1. Spec => []ListedAsApproved
  BY ListedInit, ListedStep, TypeCorrect, PTL DEF Spec
<1>2. TypeOK /\ SettledOnce /\ ListedAsApproved => PaidAsApproved
  <2> SUFFICES ASSUME TypeOK, SettledOnce, ListedAsApproved,
                      NEW r \in Runs, Released(r), NEW k \in DOMAIN lines[r]
               PROVE  lines[r][k].amount = invAmount[lines[r][k].inv]
    BY DEF PaidAsApproved
  <2>1. invState[lines[r][k].inv] = "paid"
    BY LineInvoice DEF SettledOnce, InvoicesSettleOnce, Covered
  <2> QED BY <2>1 DEF ListedAsApproved, Released
<1> QED BY <1>1, <1>2, TypeCorrect, PaidOnce, PTL

-----------------------------------------------------------------------------
(* The trail of bank changes.                                              *)

LEMMA TrailStep == ASSUME TypeOK, TrailInv, [Next]_vars PROVE TrailInv'
<1> USE DEF deskVars, invVars, vendorVars, runVars
<1>0. BankTypeOK /\ now \in Nat
  BY DEF TypeOK, BankTypeOK
<1>1. ASSUME NEW u \in Users, NEW r \in Runs, ReleasePayment(u, r)
      PROVE  TrailInv'
  BY <1>0, <1>1, TrailFrame DEF ReleasePayment
<1>2. ASSUME NEW u \in Users, NEW r \in Runs, NEW ids \in InvoiceLists, PreparePayment(u, r, ids)
      PROVE  TrailInv'
  BY <1>0, <1>2, TrailFrame DEF PreparePayment
<1>3. ASSUME NEW u \in Users, NEW r \in Runs, SubmitForRelease(u, r) \/ RejectPayment(u, r)
      PROVE  TrailInv'
  BY <1>0, <1>3, TrailFrame DEF SubmitForRelease, RejectPayment
<1>4. ASSUME NEW u \in Users, NEW i \in Invoices, MarkAsPaid(u, i)
      PROVE  TrailInv'
  BY <1>0, <1>4, TrailFrame DEF MarkAsPaid
<1>5. CASE Desk
  BY <1>0, <1>5, TrailFrame DEF Desk, AutoCreateVendors
<1>6. CASE MaintainVendor
  BY <1>0, <1>6, TrailFrame, VendorStepOnFile DEF MaintainVendor
<1>7. CASE ChangeBankDetails
  BY <1>0, <1>7, TrailBankStep DEF ChangeBankDetails
<1>8. CASE Delegate \/ UNCHANGED vars
  BY <1>0, <1>8, TrailFrame DEF Delegate, vars
<1> QED BY <1>1, <1>2, <1>3, <1>4, <1>5, <1>6, <1>7, <1>8 DEF Next, PayStep

\* The trail of every vendor's bank changes replays, and an open request's
\* snapshot is the truth until it is applied.
THEOREM TrailHolds == Spec => []TrailReplays
<1>1. Init => TrailInv
  BY TrailInit DEF Init
<1> QED BY <1>1, TrailStep, TypeCorrect, PTL DEF Spec, TrailInv

-----------------------------------------------------------------------------
(* Where the money goes.                                                   *)

\* With the trail: what a line copied is on the vendor's record until a change
\* replaces it, and that change found it there.
PayeesOnFile ==
  \A r \in Runs : \A k \in DOMAIN lines[r] : venStatus[VendorOf[lines[r][k].inv]] # "absent"

KnownAccountInv == PayeesOnFile /\ SentToAKnownAccount

\* Steps that leave the lines alone and neither take a vendor off the books nor
\* details out of the vendor's history.
LEMMA KnownAccountKept ==
  ASSUME TypeOK, KnownAccountInv, UNCHANGED lines,
         \A v \in Vendors : venStatus[v] # "absent" =>
           /\ venStatus'[v] # "absent"
           /\ \A c \in EffectiveChanges(v) : c \in EffectiveChanges(v)' /\ change'[c].old = change[c].old
           /\ \/ account'[v] = account[v]
              \/ \E c \in EffectiveChanges(v)' : change'[c].old = account[v]
  PROVE  KnownAccountInv'
<1> SUFFICES ASSUME NEW r \in Runs, NEW k \in DOMAIN lines[r],
                    NEW v \in Vendors, v = VendorOf[lines[r][k].inv]
             PROVE  /\ venStatus'[v] # "absent"
                    /\ \/ lines[r][k].account = account'[v]
                       \/ \E c \in EffectiveChanges(v)' : lines[r][k].account = change'[c].old
  BY LineInvoice, VendorOfAssumption DEF KnownAccountInv, PayeesOnFile, SentToAKnownAccount
<1>1. venStatus[v] # "absent"
  BY DEF KnownAccountInv, PayeesOnFile
<1>2. CASE lines[r][k].account = account[v]
  BY <1>1, <1>2
<1>3. CASE \E c \in EffectiveChanges(v) : lines[r][k].account = change[c].old
  BY <1>1, <1>3
<1> QED BY <1>2, <1>3 DEF KnownAccountInv, SentToAKnownAccount

LEMMA KnownAccountStep ==
  ASSUME TypeOK, TrailInv, KnownAccountInv, [Next]_vars PROVE KnownAccountInv'
<1> USE DEF deskVars, invVars, vendorVars, runVars
<1>0. BankTypeOK
  BY DEF TypeOK
<1>1. ASSUME NEW u \in Users, NEW r \in Runs, NEW ids \in InvoiceLists, PreparePayment(u, r, ids)
      PROVE  KnownAccountInv'
  <2>0. /\ UNCHANGED <<venStatus, account, change>>
        /\ \A v \in Vendors : EffectiveChanges(v)' = EffectiveChanges(v)
    BY <1>1 DEF PreparePayment, EffectiveChanges
  <2> SUFFICES ASSUME NEW q \in Runs, NEW k \in DOMAIN lines'[q]
               PROVE  LET v == VendorOf[lines'[q][k].inv] IN
                      /\ v \in Vendors /\ venStatus[v] # "absent"
                      /\ \/ lines'[q][k].account = account[v]
                         \/ \E c \in EffectiveChanges(v) : lines'[q][k].account = change[c].old
    BY <2>0 DEF KnownAccountInv, PayeesOnFile, SentToAKnownAccount
  <2>1. CASE q = r
    <3>1. lines'[q] = [j \in DOMAIN ids |-> LineFor(ids[j])]
      BY <1>1, <2>1 DEF PreparePayment, TypeOK
    <3>2. k \in DOMAIN ids /\ lines'[q][k] = LineFor(ids[k])
      BY <3>1
    <3>3. ids[k] \in Invoices
      BY <3>2 DEF InvoiceLists
    <3> QED BY <1>1, <3>2, <3>3, VendorOfAssumption DEF PreparePayment, Payable, LineFor
  <2>2. CASE q # r
    <3>1. lines'[q] = lines[q]
      BY <1>1, <2>2 DEF PreparePayment, TypeOK
    <3>2. VendorOf[lines[q][k].inv] \in Vendors
      BY <3>1, LineInvoice, VendorOfAssumption
    <3> QED BY <3>1, <3>2 DEF KnownAccountInv, PayeesOnFile, SentToAKnownAccount
  <2> QED BY <2>1, <2>2
<1>2. ASSUME NEW u \in Users, NEW r \in Runs, SubmitForRelease(u, r) \/ RejectPayment(u, r)
      PROVE  KnownAccountInv'
  BY <1>2, KnownAccountKept DEF SubmitForRelease, RejectPayment, EffectiveChanges
<1>3. ASSUME NEW u \in Users, NEW r \in Runs, ReleasePayment(u, r)
      PROVE  KnownAccountInv'
  BY <1>3, KnownAccountKept DEF ReleasePayment, EffectiveChanges
<1>4. ASSUME NEW u \in Users, NEW i \in Invoices, MarkAsPaid(u, i)
      PROVE  KnownAccountInv'
  BY <1>4, KnownAccountKept DEF MarkAsPaid, EffectiveChanges
<1>5. CASE Desk
  BY <1>5, KnownAccountKept DEF Desk, AutoCreateVendors, EffectiveChanges
<1>6. CASE MaintainVendor
  BY <1>0, <1>6, KnownAccountKept, VendorStepOnFile DEF MaintainVendor, EffectiveChanges
<1>7. CASE ChangeBankDetails
  <2>1. ASSUME NEW u \in Users, NEW c \in Changes, ApplyChange(u, c)
        PROVE  KnownAccountInv'
    <3>1. change[c] \in ChangeRecord /\ c \in PendingFor(change[c].vendor)
      BY <2>1, <1>0, RequestedIsRecord DEF ApplyChange, PendingFor, Requested, OpenStates
    <3>2. PICK w \in Vendors : w = change[c].vendor /\ change[c].old = account[w]
      BY <3>1 DEF TrailInv, TrailReplays, ChangeRecord
    <3>3. /\ \A v \in Vendors : \A d \in EffectiveChanges(v) :
               d \in EffectiveChanges(v)' /\ change'[d].old = change[d].old
          /\ c \in EffectiveChanges(w)' /\ change'[c].old = account[w]
      BY <2>1, <1>0, <3>1, <3>2 DEF ApplyChange, EffectiveChanges, BankTypeOK, ChangeRecord
    <3>4. \A v \in Vendors : v # w => account'[v] = account[v]
      BY <2>1, <3>2 DEF ApplyChange, TypeOK, BankTypeOK
    <3>5. \A v \in Vendors : \/ account'[v] = account[v]
                            \/ \E d \in EffectiveChanges(v)' : change'[d].old = account[v]
      BY <3>3, <3>4
    <3>6. UNCHANGED <<lines, venStatus>>
      BY <1>7 DEF ChangeBankDetails
    <3> QED BY <3>3, <3>5, <3>6, KnownAccountKept
  <2>2. ASSUME NEW c \in Changes, NEW u \in Users,
               \/ CoolingEnds(c) \/ ApproveChange(u, c) \/ RejectChange(u, c) \/ CancelChange(u, c)
               \/ \E v \in Vendors, p \in Proposals : RequestChange(u, c, v, p)
        PROVE  KnownAccountInv'
    <3>1. UNCHANGED account /\ \A v \in Vendors : \A d \in EffectiveChanges(v) :
            d \in EffectiveChanges(v)' /\ change'[d].old = change[d].old
      BY <2>2 DEF CoolingEnds, ApproveChange, RejectChange, CancelChange, RequestChange, Requested,
                  EffectiveChanges, OpenStates, TypeOK, BankTypeOK
    <3> QED BY <1>7, <3>1, KnownAccountKept DEF ChangeBankDetails
  <2>3. ASSUME NEW c \in Changes, CoolingEnds(c)
        PROVE  KnownAccountInv'
    <3>1. UNCHANGED account /\ \A v \in Vendors : \A d \in EffectiveChanges(v) :
            d \in EffectiveChanges(v)' /\ change'[d].old = change[d].old
      BY <2>3 DEF CoolingEnds, EffectiveChanges, TypeOK, BankTypeOK
    <3> QED BY <1>7, <3>1, KnownAccountKept DEF ChangeBankDetails
  <2> QED BY <1>7, <2>1, <2>2, <2>3 DEF ChangeBankDetails, BankStep
<1>8. CASE Delegate \/ UNCHANGED vars
  BY <1>8, KnownAccountKept DEF Delegate, vars, EffectiveChanges
<1> QED BY <1>1, <1>2, <1>3, <1>4, <1>5, <1>6, <1>7, <1>8 DEF Next, PayStep

\* Money is only ever directed to bank details its vendor really had.
THEOREM KnownAccounts == Spec => []SentToAKnownAccount
<1>1. Init => KnownAccountInv
  BY DEF Init, RunInit, KnownAccountInv, PayeesOnFile, SentToAKnownAccount
<1>2. Init => TrailInv
  BY TrailInit DEF Init
<1> QED BY <1>1, <1>2, TrailStep, KnownAccountStep, TypeCorrect, PTL
        DEF Spec, KnownAccountInv

-----------------------------------------------------------------------------
(* The first payment after a change.                                       *)

\* Releases and applications are ordered: each has an instant of its own, and
\* none lies ahead.
Ordered ==
  /\ \A c \in Changes : change[c].state = "effective" => change[c].appliedAt <= now
  /\ \A r \in Runs : Released(r) => releasedAt[r] <= now
  /\ \A r \in Runs, c \in Changes :
       Released(r) /\ change[c].state = "effective" => releasedAt[r] # change[c].appliedAt

FirstPaymentInv == Ordered /\ FirstPaymentIndependent

LEMMA TimesAreNat ==
  ASSUME TypeOK
  PROVE  /\ now \in Nat /\ \A r \in Runs : releasedAt[r] \in Nat
         /\ \A c \in Changes : change[c].state = "effective" =>
              change[c].appliedAt \in Nat /\ change[c].vendor \in Vendors
BY RequestedIsRecord DEF TypeOK, BankTypeOK, ChangeRecord

\* Steps that release nothing and apply nothing.
LEMMA FirstPaymentKept ==
  ASSUME TypeOK, FirstPaymentInv, UNCHANGED <<releasedBy, releasedAt, now>>,
         \A c \in Changes : change[c].state = "effective" => change'[c] = change[c],
         \A c \in Changes : change'[c].state = "effective" => change'[c] = change[c],
         \A r \in Runs : /\ Released(r)' <=> Released(r)
                         /\ Released(r) => lines'[r] = lines[r]
  PROVE  FirstPaymentInv'
<1>1. Ordered'
  BY DEF FirstPaymentInv, Ordered
<1>2. \A v \in Vendors : EffectiveChanges(v)' = EffectiveChanges(v)
  BY DEF EffectiveChanges
<1>3. \A r \in Runs : Released(r) => VendorsOn(r)' = VendorsOn(r)
  BY DEF VendorsOn, Covered
<1>4. ASSUME NEW v \in Vendors, NEW c \in EffectiveChanges(v), NEW r \in Runs,
             PaidFirst(c, r)', ~Superseded(c, r)'
      PROVE  releasedBy[r] \notin ChangedBy(c)
  <2>1. c \in Changes /\ change[c].state = "effective" /\ change'[c] = change[c] /\ change[c].vendor = v
    BY DEF EffectiveChanges
  <2>2. PaidFirst(c, r)
    BY <1>3, <1>4, <2>1 DEF PaidFirst
  <2>3. ~Superseded(c, r)
    BY <1>2, <1>4, <2>1 DEF Superseded, EffectiveChanges
  <2> QED BY <2>2, <2>3 DEF FirstPaymentInv, FirstPaymentIndependent
<1>5. FirstPaymentIndependent'
  BY <1>2, <1>4 DEF FirstPaymentIndependent, ChangedBy, EffectiveChanges
<1> QED BY <1>1, <1>5 DEF FirstPaymentInv

\* A change that is applied comes after every release so far.
LEMMA FirstPaymentApply ==
  ASSUME TypeOK, FirstPaymentInv, NEW u \in Users, NEW a \in Changes, ApplyChange(u, a),
         UNCHANGED runVars
  PROVE  FirstPaymentInv'
<1>1. /\ change'[a].state = "effective" /\ change'[a].appliedAt = now + 1 /\ now' = now + 1
      /\ change[a].state = "approved" /\ change[a] \in ChangeRecord
      /\ \A c \in Changes : c # a => change'[c] = change[c]
  BY RequestedIsRecord DEF ApplyChange, TypeOK, BankTypeOK, ChangeRecord
<1>2. /\ UNCHANGED <<releasedBy, releasedAt, lines>>
      /\ \A r \in Runs : /\ Released(r)' <=> Released(r)
                         /\ VendorsOn(r)' = VendorsOn(r)
  BY DEF runVars, Released, VendorsOn, Covered
<1>3. Ordered'
  BY <1>1, <1>2, TimesAreNat DEF FirstPaymentInv, Ordered
<1>4. ASSUME NEW v \in Vendors, NEW c \in EffectiveChanges(v)', NEW r \in Runs,
             PaidFirst(c, r)', ~Superseded(c, r)'
      PROVE  releasedBy'[r] \notin ChangedBy(c)'
  <2>1. c \in Changes /\ releasedAt[r] > change'[c].appliedAt /\ Released(r)
    BY <1>2, <1>4 DEF PaidFirst, EffectiveChanges
  <2>2. c # a
    BY <2>1, <1>1, TimesAreNat DEF FirstPaymentInv, Ordered
  <2>3. change'[c] = change[c] /\ c \in EffectiveChanges(v) /\ change[c].vendor = v
    BY <1>1, <2>2 DEF EffectiveChanges
  <2>4. PaidFirst(c, r)
    BY <1>2, <1>4, <2>3 DEF PaidFirst
  <2>5. ~Superseded(c, r)
    BY <1>1, <1>2, <1>4, <2>3 DEF Superseded, EffectiveChanges
  <2> QED BY <1>2, <2>3, <2>4, <2>5 DEF FirstPaymentInv, FirstPaymentIndependent, ChangedBy
<1> QED BY <1>3, <1>4 DEF FirstPaymentInv, FirstPaymentIndependent

\* A release comes after every change applied so far, and looks at the latest.
LEMMA FirstPaymentRelease ==
  ASSUME TypeOK, FirstPaymentInv, NEW u \in Users, NEW p \in Runs, ReleasePayment(u, p)
  PROVE  FirstPaymentInv'
<1>1. /\ UNCHANGED change /\ now' = now + 1
      /\ releasedAt'[p] = now + 1 /\ releasedBy'[p] = u
      /\ \A r \in Runs : r # p => releasedAt'[r] = releasedAt[r] /\ releasedBy'[r] = releasedBy[r]
      /\ ~FirstPaymentBlocked(u, p)
  BY DEF ReleasePayment, TypeOK
<1>2. /\ \A r \in Runs : /\ Released(r)' <=> Released(r) \/ r = p
                         /\ VendorsOn(r)' = VendorsOn(r)
      /\ ~Released(p)
  BY DEF ReleasePayment, TypeOK, Released, VendorsOn, Covered
<1>3. Ordered'
  BY <1>1, <1>2, TimesAreNat DEF FirstPaymentInv, Ordered
<1>4. ASSUME NEW v \in Vendors, NEW c \in EffectiveChanges(v), NEW r \in Runs,
             PaidFirst(c, r)', ~Superseded(c, r)'
      PROVE  releasedBy'[r] \notin ChangedBy(c)
  <2>1. c \in Changes /\ change[c].state = "effective" /\ change[c].vendor = v
    BY DEF EffectiveChanges
  <2>2. CASE r = p
    <3>1. v \in VendorsOn(p)
      BY <1>1, <1>2, <1>4, <2>1, <2>2 DEF PaidFirst
    <3>2. c \in LatestChanges(v)
      <4>1. \A d \in EffectiveChanges(v) : d \in Changes /\ change[d].appliedAt \in Nat
                                           /\ change[d].appliedAt < now + 1
        BY TimesAreNat DEF EffectiveChanges, FirstPaymentInv, Ordered
      <4>2. \A d \in EffectiveChanges(v) : ~(change[c].appliedAt < change[d].appliedAt)
        BY <1>1, <1>4, <2>1, <2>2, <4>1 DEF Superseded, EffectiveChanges
      <4> QED BY <4>1, <4>2 DEF LatestChanges
    <3>3. ~AlreadyPaidSince(p, v, c)
      <4> SUFFICES ASSUME NEW q \in Runs \ {p}, Released(q), v \in VendorsOn(q),
                          releasedAt[q] >= change[c].appliedAt
                   PROVE  FALSE
        BY DEF AlreadyPaidSince, Released
      <4>1. releasedAt[q] > change[c].appliedAt /\ releasedAt[q] <= now
        BY <2>1, TimesAreNat DEF FirstPaymentInv, Ordered
      <4>2. releasedAt'[q] >= releasedAt'[p]
        BY <1>1, <1>2, <1>4, <2>1, <2>2, <4>1 DEF PaidFirst
      <4> QED BY <1>1, <4>1, <4>2, TimesAreNat
    <3> QED BY <1>1, <2>2, <3>1, <3>2, <3>3
        DEF FirstPaymentBlocked, ViolatesFirstPayment, ChangedBy
  <2>3. CASE r # p
    <3>1. PaidFirst(c, r)
      BY <1>1, <1>2, <1>4, <2>3 DEF PaidFirst
    <3>2. ~Superseded(c, r)
      BY <1>1, <1>4, <2>3 DEF Superseded, EffectiveChanges
    <3> QED BY <1>1, <2>3, <3>1, <3>2 DEF FirstPaymentInv, FirstPaymentIndependent
  <2> QED BY <2>2, <2>3
<1>5. FirstPaymentIndependent'
  BY <1>1, <1>4 DEF FirstPaymentIndependent, ChangedBy, EffectiveChanges
<1> QED BY <1>3, <1>5 DEF FirstPaymentInv

LEMMA FirstPaymentStep == ASSUME TypeOK, FirstPaymentInv, [Next]_vars PROVE FirstPaymentInv'
<1> USE DEF deskVars, invVars, vendorVars, runVars
<1>1. ASSUME NEW u \in Users, NEW r \in Runs, ReleasePayment(u, r)
      PROVE  FirstPaymentInv'
  BY <1>1, FirstPaymentRelease
<1>2. ASSUME NEW u \in Users, NEW r \in Runs, NEW ids \in InvoiceLists, PreparePayment(u, r, ids)
      PROVE  FirstPaymentInv'
  BY <1>2, FirstPaymentKept DEF PreparePayment, Released, TypeOK
<1>3. ASSUME NEW u \in Users, NEW r \in Runs, SubmitForRelease(u, r) \/ RejectPayment(u, r)
      PROVE  FirstPaymentInv'
  BY <1>3, FirstPaymentKept DEF SubmitForRelease, RejectPayment, Released, TypeOK
<1>4. ASSUME NEW u \in Users, NEW i \in Invoices, MarkAsPaid(u, i)
      PROVE  FirstPaymentInv'
  BY <1>4, FirstPaymentKept DEF MarkAsPaid, Released
<1>5. CASE Desk \/ MaintainVendor \/ Delegate \/ UNCHANGED vars
  BY <1>5, FirstPaymentKept DEF Desk, MaintainVendor, Delegate, vars, Released
<1>6. CASE ChangeBankDetails
  <2>1. ASSUME NEW u \in Users, NEW c \in Changes, ApplyChange(u, c)
        PROVE  FirstPaymentInv'
    BY <1>6, <2>1, FirstPaymentApply DEF ChangeBankDetails
  <2>2. ASSUME NEW c \in Changes,
               \/ CoolingEnds(c)
               \/ \E u \in Users :
                    \/ ApproveChange(u, c) \/ RejectChange(u, c) \/ CancelChange(u, c)
                    \/ \E v \in Vendors, p \in Proposals : RequestChange(u, c, v, p)
        PROVE  FirstPaymentInv'
    <3>1. /\ change[c].state # "effective" /\ change'[c].state # "effective"
          /\ \A d \in Changes : d # c => change'[d] = change[d]
          /\ UNCHANGED now
      BY <2>2 DEF CoolingEnds, ApproveChange, RejectChange, CancelChange, RequestChange,
                  Requested, OpenStates, TypeOK, BankTypeOK, ChangeRecord, NoChange
    <3> QED BY <1>6, <3>1, FirstPaymentKept DEF ChangeBankDetails, Released
  <2> QED BY <1>6, <2>1, <2>2 DEF ChangeBankDetails, BankStep
<1> QED BY <1>1, <1>2, <1>3, <1>4, <1>5, <1>6 DEF Next, PayStep

\* Whoever changed a vendor's bank details does not release the first payment
\* to it while that change is the latest.
THEOREM FirstPaymentSeparated == Spec => []FirstPaymentIndependent
<1>1. Init => FirstPaymentInv
  BY DEF Init, RunInit, BankInit, NoChange, FirstPaymentInv, Ordered,
         FirstPaymentIndependent, Released, EffectiveChanges
<1> QED BY <1>1, FirstPaymentStep, TypeCorrect, PTL DEF Spec, FirstPaymentInv

-----------------------------------------------------------------------------
(* Vendors under invoices.                                                 *)

LEMMA OnFileStep ==
  ASSUME TypeOK, BilledVendorsOnFile, [Next]_vars PROVE BilledVendorsOnFile'
<1> USE DEF deskVars, invVars, vendorVars, runVars
<1> SUFFICES ASSUME NEW i \in Invoices, invState'[i] \notin {"absent", "withdrawn"}
             PROVE  venStatus'[VendorOf[i]] \in VendorStatus
  BY DEF BilledVendorsOnFile, OnFile
<1>1. /\ VendorOf[i] \in Vendors
      /\ venStatus \in [Vendors -> VendorStatus \cup {"absent", "withdrawn"}]
      /\ InvTypeOK
      /\ invState[i] \notin {"absent", "withdrawn"} => venStatus[VendorOf[i]] \in VendorStatus
  BY VendorOfAssumption DEF TypeOK, BankTypeOK, BilledVendorsOnFile, OnFile
<1>2. CASE PayStep
  <2>1. UNCHANGED venStatus
    BY <1>2 DEF PayStep, PreparePayment, SubmitForRelease, ReleasePayment, RejectPayment, MarkAsPaid
  <2>2. UNCHANGED invState \/ \E S \in SUBSET Invoices : Pay(S)
    BY <1>2, CoveredType
       DEF PayStep, PreparePayment, SubmitForRelease, ReleasePayment, RejectPayment, MarkAsPaid
  <2>3. invState[i] \notin {"absent", "withdrawn"}
    BY <1>1, <2>2, PayEffect
  <2> QED BY <1>1, <2>1, <2>3
<1>3. CASE Desk
  <2>1. VendorOf[i] \in BilledNow \/ invState[i] \notin {"absent", "withdrawn"}
    <3>1. invState[i] # "withdrawn"
      BY <1>1, <1>3 DEF Desk, DeskStep, InvTypeOK, Transition, Create, Edit, Validate, Withdraw,
                        Submit, Reject, Revert, Approve
    <3> QED BY <3>1 DEF BilledNow
  <2>2. PICK u \in Users : AutoCreateVendors(u, {v \in BilledNow : venStatus[v] = "absent"})
    BY <1>3 DEF Desk
  <2>3. venStatus'[VendorOf[i]] = IF VendorOf[i] \in BilledNow /\ venStatus[VendorOf[i]] = "absent"
                                  THEN "pending_verification" ELSE venStatus[VendorOf[i]]
    BY <1>1, <2>2 DEF AutoCreateVendors
  <2>4. VendorOf[i] \in BilledNow => venStatus[VendorOf[i]] # "withdrawn"
    BY <1>3 DEF Desk
  <2> QED BY <1>1, <2>1, <2>3, <2>4 DEF VendorStatus
<1>4. CASE MaintainVendor
  <2>1. UNCHANGED invState
    BY <1>4 DEF MaintainVendor
  <2>2. PICK u \in Users, w \in Vendors :
          \/ \E s \in Statuses : \/ \E d \in Accounts : CreateVendor(u, w, s, d)
                                 \/ SetVendorStatus(u, w, s)
          \/ DeleteVendor(u, w, LinkedInvoices(w))
    BY <1>4 DEF MaintainVendor
  <2>3. DeleteVendor(u, w, LinkedInvoices(w)) => VendorOf[i] # w
    BY <2>1 DEF DeleteVendor, LinkedInvoices
  <2> QED BY <1>1, <2>1, <2>2, <2>3, StatusesAssumption
      DEF CreateVendor, SetVendorStatus, CanSetVendorStatus, DeleteVendor, VendorStatus
<1>5. CASE ChangeBankDetails \/ Delegate \/ UNCHANGED vars
  BY <1>1, <1>5 DEF ChangeBankDetails, Delegate, vars
<1> QED BY <1>2, <1>3, <1>4, <1>5 DEF Next

\* No vendor is withdrawn from under an invoice that is on the books.
THEOREM VendorsStayOnFile == Spec => []BilledVendorsOnFile
<1>1. Init => BilledVendorsOnFile
  BY DEF Init, InvInit, BilledVendorsOnFile
<1> QED BY <1>1, OnFileStep, TypeCorrect, PTL DEF Spec

=============================================================================
