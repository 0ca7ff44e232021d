---------------------------- MODULE PaymentRuns -----------------------------
(***************************************************************************)
(* Paying vendors (app/services/payment_service.py): a payment run is      *)
(* prepared over approved invoices, submitted, and released or rejected by *)
(* somebody else.  Release is irreversible and settles every invoice of    *)
(* the run.  The run works on state that others keep changing: the         *)
(* invoices (InvoiceLifecycle), the vendors and their bank details         *)
(* (VendorBank) and the delegations in force (Delegation).                 *)
(*                                                                         *)
(* Each action is one request, which the program runs in one transaction;  *)
(* requests are taken one after another here.                              *)
(***************************************************************************)
EXTENDS VendorBank, InvoiceLifecycle, Sequences

CONSTANTS VendorOf,   \* the vendor each invoice is linked to
          MaxRuns,    \* bound: the payment runs ever prepared
          MaxLines    \* bound: the invoices listed in one run

ASSUME VendorOfAssumption == VendorOf \in [Invoices -> Vendors]
ASSUME MaxRunsAssumption == MaxRuns \in Nat /\ MaxLines \in Nat

VARIABLES runState, preparedBy, releasedBy, releasedAt,
          lines,        \* the lines of each run, in order
          markedPaid    \* invoices with a marked_paid entry of their own

Runs == 1..MaxRuns

RunStates == {"absent", "draft", "pending_release", "released", "rejected"}

\* The amount and the bank details are copied onto the line.
Line == [inv : Invoices, amount : Amounts \cup {0}, account : BankDetails]

runVars == <<runState, preparedBy, releasedBy, releasedAt, lines>>
deskVars == invVars
vendorVars == <<venStatus, venCreator, account, change, now>>
vars == <<runVars, deskVars, vendorVars, markedPaid, lent>>

-----------------------------------------------------------------------------
Covered(r) == {lines[r][k].inv : k \in DOMAIN lines[r]}

\* Claimed by another run that is released or awaiting release.
Clash(r, i) ==
  \E q \in Runs \ {r} : runState[q] \in {"released", "pending_release"} /\ i \in Covered(q)

Held(v) == PendingFor(v) # {}

\* _payable_invoice, and the part of the release guard that repeats it.
Payable(r, i) ==
  /\ invState[i] = "approved"
  /\ venStatus[VendorOf[i]] = "active"
  /\ ~Held(VendorOf[i])
  /\ ~Clash(r, i)

\* An instruction with no destination account is not payable.
Destined(line) == \E f \in Routable : line.account[f] # NoValue

\* payment_has_lines: a line, and a total above zero.
HasLines(r) == \E k \in DOMAIN lines[r] : lines[r][k].amount > 0

\* payment_lines_still_payable, evaluated by the transition to released.
LinesStillPayable(r) ==
  \A k \in DOMAIN lines[r] : Payable(r, lines[r][k].inv) /\ Destined(lines[r][k])

\* transition_state takes each line's invoice from approved to paid in turn; a
\* second line for the same invoice finds it paid, raises, and nothing of the
\* release is committed.
SettlesEachOnce(r) ==
  \A j, k \in DOMAIN lines[r] : lines[r][j].inv = lines[r][k].inv => j = k

VendorsOn(r) == {VendorOf[i] : i \in Covered(r)}

\* Mutant: any payment ever made to the vendor lifts the restriction.
AlreadyPaidEver(r, v, c) ==
  \E q \in Runs \ {r} : runState[q] = "released" /\ v \in VendorsOn(q)

\* Some other run paid the vendor since the change was applied.
AlreadyPaidSince(r, v, c) ==
  \E q \in Runs \ {r} : /\ runState[q] = "released"
                        /\ v \in VendorsOn(q)
                        /\ releasedAt[q] >= change[c].appliedAt

\* _first_payment_after_bank_change: it looks at the latest change only.
FirstPaymentBlocked(u, r) ==
  \E v \in VendorsOn(r) : \E c \in LatestChanges(v) :
    /\ ViolatesFirstPayment(change[c].requestedBy, change[c].appliedBy, u)
    /\ ~AlreadyPaidSince(r, v, c)

-----------------------------------------------------------------------------
RunInit ==
  /\ runState = [r \in Runs |-> "absent"]
  /\ preparedBy = [r \in Runs |-> NoUser]
  /\ releasedBy = [r \in Runs |-> NoUser]
  /\ releasedAt = [r \in Runs |-> 0]
  /\ lines = [r \in Runs |-> <<>>]
  /\ markedPaid = {}

Init == InvInit /\ VendorInit /\ BankInit /\ DelegationInit /\ RunInit

\* The request may list an invoice twice: nothing removes duplicates.  The
\* run's number is the count of runs plus one.
InvoiceLists == UNION {[1..n -> Invoices] : n \in 1..MaxLines}

LineFor(i) == [inv |-> i, amount |-> invAmount[i], account |-> account[VendorOf[i]]]

PreparePayment(u, r, ids) ==
  /\ May(u, "payments.prepare")
  /\ \A k \in DOMAIN ids : Payable(r, ids[k])
  /\ runState[r] = "absent" /\ \A q \in 1..(r-1) : runState[q] # "absent"
  /\ runState' = [runState EXCEPT ![r] = "draft"]
  /\ lines' = [lines EXCEPT ![r] = [k \in DOMAIN ids |-> LineFor(ids[k])]]
  /\ preparedBy' = [preparedBy EXCEPT ![r] = u]
  /\ UNCHANGED <<releasedBy, releasedAt, deskVars, vendorVars, markedPaid, lent>>

SubmitForRelease(u, r) ==
  /\ May(u, "payments.prepare")
  /\ runState[r] = "draft"
  /\ HasLines(r)
  /\ runState' = [runState EXCEPT ![r] = "pending_release"]
  /\ UNCHANGED <<preparedBy, releasedBy, releasedAt, lines,
                 deskVars, vendorVars, markedPaid, lent>>

ReleasePayment(u, r) ==
  /\ ResolvePermission(u, "payments.release")
  /\ ~ViolatesSelfRelease(preparedBy[r], u)
  /\ ~FirstPaymentBlocked(u, r)
  /\ runState[r] = "pending_release"
  /\ LinesStillPayable(r)
  /\ SettlesEachOnce(r)
  /\ runState' = [runState EXCEPT ![r] = "released"]
  /\ releasedBy' = [releasedBy EXCEPT ![r] = u]
  /\ now' = now + 1
  /\ releasedAt' = [releasedAt EXCEPT ![r] = now + 1]
  /\ Pay(Covered(r))
  /\ UNCHANGED <<preparedBy, lines, venStatus, venCreator, account, change,
                 markedPaid, lent>>

RejectPayment(u, r) ==
  /\ ResolvePermission(u, "payments.release")
  /\ runState[r] = "pending_release"
  /\ runState' = [runState EXCEPT ![r] = "rejected"]
  /\ UNCHANGED <<preparedBy, releasedBy, releasedAt, lines,
                 deskVars, vendorVars, markedPaid, lent>>

\* The other way to pay: InvoiceService.mark_as_paid, one invoice at a time,
\* which looks at the vendor's status and at nothing else.
MarkAsPaid(u, i) ==
  /\ May(u, "invoices.mark_paid")
  /\ venStatus[VendorOf[i]] = "active"
  /\ Pay({i})
  /\ markedPaid' = markedPaid \cup {i}
  /\ UNCHANGED <<runVars, vendorVars, lent>>

-----------------------------------------------------------------------------
\* The accounts payable desk at work.  An invoice is recorded against a vendor
\* on file, or puts its vendor on file, unverified, in the same transaction.
BilledNow ==
  {VendorOf[i] : i \in {j \in Invoices : invState[j] = "absent" /\ invState'[j] # "absent"}}

Desk ==
  /\ DeskStep
  /\ \A v \in BilledNow : venStatus[v] # "withdrawn"
  /\ \E u \in Users : AutoCreateVendors(u, {v \in BilledNow : venStatus[v] = "absent"})
  /\ UNCHANGED <<account, change, now, runVars, markedPaid, lent>>

LinkedInvoices(v) ==
  {i \in Invoices : VendorOf[i] = v /\ invState[i] \notin {"absent", "withdrawn"}}

MaintainVendor ==
  /\ \E u \in Users, v \in Vendors :
       \/ \E s \in Statuses :
            \/ \E d \in Accounts : CreateVendor(u, v, s, d)
            \/ SetVendorStatus(u, v, s)
       \/ DeleteVendor(u, v, LinkedInvoices(v))
  /\ UNCHANGED <<change, now, runVars, deskVars, markedPaid, lent>>

ChangeBankDetails ==
  /\ BankStep
  /\ UNCHANGED <<venStatus, venCreator, runVars, deskVars, markedPaid, lent>>

Delegate == DelegationNext /\ UNCHANGED <<runVars, deskVars, vendorVars, markedPaid>>

PayStep ==
  \E u \in Users :
    \/ \E r \in Runs :
         \/ \E ids \in InvoiceLists : PreparePayment(u, r, ids)
         \/ SubmitForRelease(u, r) \/ ReleasePayment(u, r) \/ RejectPayment(u, r)
    \/ \E i \in Invoices : MarkAsPaid(u, i)

Next == PayStep \/ Desk \/ MaintainVendor \/ ChangeBankDetails \/ Delegate

Spec == Init /\ [][Next]_vars

-----------------------------------------------------------------------------
(* Properties.                                                             *)

\* Every variable holds a value of its kind: runs carry lines that name
\* invoices with a whole account on them, users sign where users sign.
TypeOK ==
  /\ InvTypeOK /\ BankTypeOK
  /\ runState \in [Runs -> RunStates]
  /\ preparedBy \in [Runs -> Users \cup {NoUser}]
  /\ releasedBy \in [Runs -> Users \cup {NoUser}]
  /\ releasedAt \in [Runs -> Nat]
  /\ lines \in [Runs -> Seq(Line)]
  /\ markedPaid \subseteq Invoices

Released(r) == runState[r] = "released"

\* Of all that may have paid an invoice, one thing did.
InvoicesSettleOnce ==
  \A i \in Invoices :
    /\ invState[i] = "paid" <=> (i \in markedPaid \/ \E r \in Runs : Released(r) /\ i \in Covered(r))
    /\ i \in markedPaid => \A r \in Runs : Released(r) => i \notin Covered(r)
    /\ \A q, r \in Runs : Released(q) /\ Released(r) /\ i \in Covered(q) \cap Covered(r) => q = r

LinesSettleOnce == \A r \in Runs : Released(r) => SettlesEachOnce(r)

\* No invoice is paid twice, by two runs, by a run and the desk, or by two lines
\* of one run; and an invoice is `paid' exactly when something paid it.
\* Preparation and release look for a clash with other runs, submission looks
\* for none and mark_as_paid looks at no run at all: what holds it together is
\* that every settlement passes the one transition from approved to paid.
SettledOnce == InvoicesSettleOnce /\ LinesSettleOnce

\* The amount that went out is the amount that was approved.  The line keeps a
\* copy from preparation, and between preparation and release the approval may
\* be reverted and given again, other requests in between.
PaidAsApproved ==
  \A r \in Runs : Released(r) =>
    \A k \in DOMAIN lines[r] : lines[r][k].amount = invAmount[lines[r][k].inv]

\* A line carries bank details its vendor really had: those on the record now,
\* or those some applied change replaced.
SentToAKnownAccount ==
  \A r \in Runs : \A k \in DOMAIN lines[r] :
    LET v == VendorOf[lines[r][k].inv] IN
    lines[r][k].account \in {account[v]} \cup {change[c].old : c \in EffectiveChanges(v)}

\* Whoever changed a vendor's bank details, by asking for the change or by
\* applying it, does not release the first payment made to the vendor while
\* that change is the latest one applied.
PaidFirst(c, r) ==
  /\ Released(r) /\ change[c].vendor \in VendorsOn(r)
  /\ releasedAt[r] > change[c].appliedAt
  /\ \A q \in Runs : (Released(q) /\ change[c].vendor \in VendorsOn(q)
                       /\ releasedAt[q] > change[c].appliedAt)
                         => releasedAt[q] >= releasedAt[r]

Superseded(c, r) ==
  \E d \in EffectiveChanges(change[c].vendor) :
    change[c].appliedAt < change[d].appliedAt /\ change[d].appliedAt < releasedAt[r]

ChangedBy(c) == {change[c].requestedBy, change[c].appliedBy}

FirstPaymentIndependent ==
  \A v \in Vendors : \A c \in EffectiveChanges(v) : \A r \in Runs :
    PaidFirst(c, r) /\ ~Superseded(c, r) => releasedBy[r] \notin ChangedBy(c)

\* build-book.txt:193 and the docstring of violates_first_payment_after_bank_
\* change say it of every change, superseded or not.
FirstPaymentAfterAnyChange ==
  \A v \in Vendors : \A c \in EffectiveChanges(v) : \A r \in Runs :
    PaidFirst(c, r) => releasedBy[r] \notin ChangedBy(c)

\* tests/integration/test_vendor_bank_change.py says that the restriction lifts because the
\* new account has been vouched for: whoever changed the details never is the
\* first to release money to the account that the latest change put in place.
VouchedFor(c, r) ==
  \E q \in Runs : /\ Released(q) /\ releasedBy[q] \notin ChangedBy(c)
                  /\ releasedAt[q] < releasedAt[r]
                  /\ \E k \in DOMAIN lines[q] :
                       /\ VendorOf[lines[q][k].inv] = change[c].vendor
                       /\ lines[q][k].account = account[change[c].vendor]

NewAccountVouchedFor ==
  \A v \in Vendors : \A c \in LatestChanges(v) : \A r \in Runs :
    (/\ Released(r) /\ releasedBy[r] \in ChangedBy(c)
     /\ releasedAt[r] > change[c].appliedAt
     /\ \E k \in DOMAIN lines[r] : /\ VendorOf[lines[r][k].inv] = v
                                   /\ lines[r][k].account = account[v])
      => VouchedFor(c, r)

\* An invoice that is still on the books has its vendor on file: the desk puts
\* the vendor there or finds it there, and no vendor is withdrawn from under an
\* invoice, however far that invoice has come.
BilledVendorsOnFile == \A i \in Invoices : invState[i] \notin {"absent", "withdrawn"} => OnFile(VendorOf[i])

-----------------------------------------------------------------------------
\* Refinement: runs and the desk settle invoices as Settlement says.
Settled == {i \in Invoices : invState[i] = "paid"}

PayersOf == [i \in Invoices |-> {r \in Runs : Released(r) /\ i \in Covered(r)}
                                 \cup {0 : j \in {i} \cap markedPaid}]

Paying == INSTANCE Settlement WITH Desk <- 0, paid <- Settled, payers <- PayersOf

\* Every behaviour of the payment runs is one of Settlement: an invoice is
\* settled once, by one payer, a whole run at a time, and stays settled.
SettlementSpec == Paying!Spec

=============================================================================
