----------------------- MODULE InvoiceApprovalProofs ------------------------
(***************************************************************************)
(* Theorems about InvoiceApproval and its inbox, for any number of people, invoices,     *)
(* vendors, policies and autopilot settings.                               *)
(***************************************************************************)
EXTENDS InvoiceInbox, TLAPS

\* Everything but the evidence on the invoices that a step writes stays of its kind.
LEMMA VendorPart ==
  ASSUME TypeOK, NEW u \in Users, NEW v \in Vendors, MaintainVendor(u, v)
  PROVE  TypeOK'
<1> USE AccountsAssumption, StatusesAssumption
    DEF TypeOK, VendorStatus, Lifecycle!InvTypeOK, evidence, config
<1>1. CASE \E s \in Statuses, d \in Accounts : CreateVendor(u, v, s, d)
  BY <1>1 DEF MaintainVendor, CreateVendor
<1>2. CASE \E s \in Statuses : SetVendorStatus(u, v, s)
  BY <1>2 DEF MaintainVendor, SetVendorStatus, CanSetVendorStatus
<1>3. CASE DeleteVendor(u, v, LinkedInvoices(v))
  BY <1>3 DEF MaintainVendor, DeleteVendor
<1> QED BY <1>1, <1>2, <1>3 DEF MaintainVendor

LEMMA InitType == Init => TypeOK
BY DEF Init, TypeOK, Lifecycle!InvInit, Lifecycle!InvTypeOK, Lifecycle!InvStates, VendorInit,
       DelegationInit, BankDetails, AutopilotConfig, NoAutopilot

LEMMA TypeStep == ASSUME TypeOK, [Next]_vars PROVE TypeOK'
<1> USE InvoiceAssumption
    DEF TypeOK, Lifecycle!InvTypeOK, Lifecycle!InvStates, Lifecycle!Transition,
        evidence, vendorVars, config
<1>1. ASSUME NEW u \in Users, NEW i \in Invoices, NEW a \in Amounts, NEW uploaded \in BOOLEAN,
             RecordInvoice(u, i, a, uploaded)
      PROVE  TypeOK'
  BY <1>1 DEF RecordInvoice, Lifecycle!Create, AutoCreateVendors, VendorStatus
<1>2. ASSUME NEW u \in Users, NEW i \in Invoices,
             \/ \E a \in Amounts : UpdateInvoice(u, i, a)
             \/ DeleteInvoice(u, i) \/ ValidateInvoice(u, i) \/ SubmitForApproval(u, i)
             \/ ResolveDuplicate(u, i) \/ RejectInvoice(u, i)
      PROVE  TypeOK'
  BY <1>2 DEF UpdateInvoice, DeleteInvoice, ValidateInvoice, SubmitForApproval, ResolveDuplicate,
                CanResolveDuplicate,
              RejectInvoice, Lifecycle!Edit, Lifecycle!Withdraw, Lifecycle!Validate,
              Lifecycle!Submit, Lifecycle!Reject
<1>3. ASSUME NEW u \in Users, NEW i \in Invoices,
             ApproveInvoice(u, i) \/ RevertAutoApproval(u, i) \/ MarkAsPaid(u, i)
      PROVE  TypeOK'
  BY <1>3 DEF ApproveInvoice, CanApproveInvoice, RevertAutoApproval, MarkAsPaid, Lifecycle!Approve,
              Lifecycle!Revert, Lifecycle!Pay
<1>4. ASSUME NEW u \in Users, RunAutopilot(u)
      PROVE  TypeOK'
  BY <1>4 DEF RunAutopilot, Lifecycle!Approve
<1>5. ASSUME NEW u \in Users,
             \/ \E cfg \in Settings : ConfigureAutopilot(u, cfg)
             \/ \E p, q \in Policies : EditPolicies(u, p, q)
      PROVE  TypeOK'
  BY <1>5, SettingsAssumption DEF ConfigureAutopilot, EditPolicies
<1>6. ASSUME NEW S \in SUBSET Invoices, SettledByRun(S)
      PROVE  TypeOK'
  BY <1>6 DEF SettledByRun, Lifecycle!Pay
<1>7. CASE Delegate
  BY <1>7, DelegationPairsAssumption
     DEF Delegate, DelegationNext, GrantDelegation, RevokeDelegation, DelegationExpires
<1>8. CASE UNCHANGED vars
  BY <1>8 DEF vars
<1> QED BY <1>1, <1>2, <1>3, <1>4, <1>5, <1>6, <1>7, <1>8, VendorPart DEF Next

\* Every variable of the desk holds a value of its kind.
THEOREM TypeCorrect == Spec => []TypeOK
BY InitType, TypeStep, PTL DEF Spec

-----------------------------------------------------------------------------
(* Approvals.                                                              *)

ApprovalInv == MakerChecker /\ DuplicatesReviewed /\ SignedWhileApproved

\* A step that approves nobody's invoice, sends nothing back and signs nothing;
\* it may pay, acknowledge a flag, or put an invoice on the books.
LEMMA ApprovalsKept ==
  ASSUME ApprovalInv,
         \A i \in Invoices : /\ Cleared(i)' <=> Cleared(i)
                             /\ approver'[i] = approver[i]
                             /\ Cleared(i) => creator'[i] = creator[i]
                             /\ Cleared(i) => duplicate'[i] \in {duplicate[i], "acknowledged"}
  PROVE  ApprovalInv'
BY DEF ApprovalInv, MakerChecker, DuplicatesReviewed, SignedWhileApproved, DuplicateResolved

\* The approval of a set of invoices by one person, by hand or by autopilot.
LEMMA ApprovalsGiven ==
  ASSUME TypeOK, ApprovalInv, NEW S \in SUBSET Invoices, NEW u \in Users,
         Lifecycle!Approve(S),
         \A i \in S : DuplicateResolved(i) /\ ~ViolatesSelfApproval(creator[i], u),
         \A i \in Invoices : approver'[i] = IF i \in S THEN u ELSE approver[i],
         UNCHANGED <<creator, duplicate>>
  PROVE  ApprovalInv'
<1>1. \A i \in Invoices : Cleared(i)' <=> Cleared(i) \/ i \in S
  BY DEF Cleared, Lifecycle!Approve, TypeOK, Lifecycle!InvTypeOK
<1>2. u # NoUser
  BY NoUserAssumption
<1> QED BY <1>1, <1>2 DEF ApprovalInv, MakerChecker, DuplicatesReviewed, SignedWhileApproved,
                          DuplicateResolved, ViolatesSelfApproval

LEMMA ApprovalStep == ASSUME TypeOK, ApprovalInv, [Next]_vars PROVE ApprovalInv'
<1> USE DEF evidence, vendorVars, config, Lifecycle!Transition
<1>0. /\ invState \in [Invoices -> Lifecycle!InvStates]
      /\ creator \in [Invoices -> Users \cup {NoUser}]
      /\ approver \in [Invoices -> Users \cup {NoUser}]
      /\ duplicate \in [Invoices -> {"none", "flagged", "acknowledged"}]
  BY DEF TypeOK, Lifecycle!InvTypeOK
<1>1. ASSUME NEW u \in Users, NEW i \in Invoices, NEW a \in Amounts, NEW uploaded \in BOOLEAN,
             RecordInvoice(u, i, a, uploaded)
      PROVE  ApprovalInv'
  BY <1>0, <1>1, ApprovalsKept DEF RecordInvoice, Lifecycle!Create, Cleared
<1>2. ASSUME NEW u \in Users, NEW i \in Invoices,
             \/ \E a \in Amounts : UpdateInvoice(u, i, a)
             \/ DeleteInvoice(u, i) \/ ValidateInvoice(u, i)
             \/ SubmitForApproval(u, i) \/ RejectInvoice(u, i)
      PROVE  ApprovalInv'
  BY <1>0, <1>2, ApprovalsKept
     DEF UpdateInvoice, DeleteInvoice, ValidateInvoice, SubmitForApproval, RejectInvoice, Cleared,
         Lifecycle!Edit, Lifecycle!Withdraw, Lifecycle!Validate, Lifecycle!Submit, Lifecycle!Reject
<1>3. ASSUME NEW u \in Users, NEW i \in Invoices, ResolveDuplicate(u, i)
      PROVE  ApprovalInv'
  BY <1>0, <1>3, ApprovalsKept DEF ResolveDuplicate, CanResolveDuplicate, Cleared
<1>4. ASSUME NEW u \in Users, NEW i \in Invoices, ApproveInvoice(u, i)
      PROVE  ApprovalInv'
  BY <1>0, <1>4, ApprovalsGiven DEF ApproveInvoice, CanApproveInvoice
<1>5. ASSUME NEW u \in Users, RunAutopilot(u)
      PROVE  ApprovalInv'
  BY <1>5, ApprovalsGiven DEF RunAutopilot, Eligible
<1>6. ASSUME NEW u \in Users, NEW i \in Invoices, RevertAutoApproval(u, i)
      PROVE  ApprovalInv'
  BY <1>0, <1>6
     DEF RevertAutoApproval, Lifecycle!Revert, Cleared, ApprovalInv, MakerChecker,
         DuplicatesReviewed, SignedWhileApproved, DuplicateResolved
<1>7. ASSUME NEW S \in SUBSET Invoices, Lifecycle!Pay(S), UNCHANGED evidence
      PROVE  ApprovalInv'
  BY <1>0, <1>7, ApprovalsKept DEF Lifecycle!Pay, Cleared
<1>8. ASSUME UNCHANGED <<invState, evidence>>
      PROVE  ApprovalInv'
  BY <1>8, ApprovalsKept DEF Cleared
<1>9. \/ \E u \in Users, cfg \in Settings : ConfigureAutopilot(u, cfg)
      \/ \E u \in Users, p, q \in Policies : EditPolicies(u, p, q)
      \/ \E u \in Users, v \in Vendors : MaintainVendor(u, v)
      \/ Delegate \/ UNCHANGED vars
      => UNCHANGED <<invState, evidence>>
  BY DEF ConfigureAutopilot, EditPolicies, MaintainVendor, Delegate, vars
<1>10. \/ \E u \in Users, i \in Invoices : MarkAsPaid(u, i)
       \/ \E S \in SUBSET Invoices : SettledByRun(S)
       => \E S \in SUBSET Invoices : Lifecycle!Pay(S) /\ UNCHANGED evidence
  BY DEF MarkAsPaid, SettledByRun
<1> QED BY <1>1, <1>2, <1>3, <1>4, <1>5, <1>6, <1>7, <1>8, <1>9, <1>10 DEF Next

LEMMA ApprovalsHold == Spec => []ApprovalInv
<1>1. Init => ApprovalInv
  BY DEF Init, Lifecycle!InvInit, ApprovalInv, MakerChecker, DuplicatesReviewed,
         SignedWhileApproved, Cleared
<1> QED BY <1>1, ApprovalStep, TypeCorrect, PTL DEF Spec

\* Nobody but an administrator approves an invoice of their own, by hand, with
\* borrowed authority or through autopilot.
THEOREM MakersAreNotCheckers == Spec => []MakerChecker
BY ApprovalsHold, PTL DEF ApprovalInv

\* A flagged duplicate is approved or paid only after somebody acknowledged it,
\* however autopilot is configured.
THEOREM DuplicatesAreReviewed == Spec => []DuplicatesReviewed
BY ApprovalsHold, PTL DEF ApprovalInv

\* The signature on an invoice comes with its approval and goes with it.
THEOREM SignaturesStand == Spec => []SignedWhileApproved
BY ApprovalsHold, PTL DEF ApprovalInv

-----------------------------------------------------------------------------
(* Refinement.                                                             *)

LEMMA LifecycleStep == ASSUME [Next]_vars PROVE [Lifecycle!InvNext]_<<invState, invAmount>>
<1> USE DEF Lifecycle!InvNext, Lifecycle!DeskStep, evidence, vendorVars, config
<1>1. ASSUME NEW u \in Users, NEW i \in Invoices, NEW a \in Amounts,
             (\E uploaded \in BOOLEAN : RecordInvoice(u, i, a, uploaded)) \/ UpdateInvoice(u, i, a)
      PROVE  Lifecycle!InvNext
  BY <1>1 DEF RecordInvoice, UpdateInvoice
<1>2. ASSUME NEW u \in Users, NEW i \in Invoices,
             \/ DeleteInvoice(u, i) \/ ValidateInvoice(u, i) \/ SubmitForApproval(u, i)
             \/ RejectInvoice(u, i) \/ RevertAutoApproval(u, i)
      PROVE  Lifecycle!InvNext
  BY <1>2 DEF DeleteInvoice, ValidateInvoice, SubmitForApproval, RejectInvoice, RevertAutoApproval
<1>3. ASSUME NEW u \in Users, (\E i \in Invoices : ApproveInvoice(u, i)) \/ RunAutopilot(u)
      PROVE  Lifecycle!InvNext
  <2>1. \A i \in Invoices : ApproveInvoice(u, i) => Lifecycle!Approve({i})
    BY DEF ApproveInvoice, CanApproveInvoice
  <2>2. RunAutopilot(u) => Lifecycle!Approve({i \in Invoices : Eligible(u, i)})
    BY DEF RunAutopilot
  <2> QED BY <1>3, <2>1, <2>2
<1>4. ASSUME \/ \E u \in Users, i \in Invoices : MarkAsPaid(u, i)
             \/ \E S \in SUBSET Invoices : SettledByRun(S)
      PROVE  Lifecycle!InvNext
  BY <1>4 DEF MarkAsPaid, SettledByRun
<1>5. \/ \E u \in Users, cfg \in Settings : ConfigureAutopilot(u, cfg)
      \/ \E u \in Users, p, q \in Policies : EditPolicies(u, p, q)
      \/ \E u \in Users, v \in Vendors : MaintainVendor(u, v)
      \/ \E u \in Users, i \in Invoices : ResolveDuplicate(u, i)
      \/ Delegate \/ UNCHANGED vars
      => UNCHANGED <<invState, invAmount>>
  BY DEF ConfigureAutopilot, EditPolicies, MaintainVendor, ResolveDuplicate, CanResolveDuplicate,
         Delegate, vars
<1> QED BY <1>1, <1>2, <1>3, <1>4, <1>5 DEF Next

\* The desk, autopilot's batches included, implements InvoiceLifecycle, which PaymentRuns is built on.
THEOREM DeskImplementsLifecycle == Spec => LifecycleSpec
<1>1. Init => Lifecycle!InvInit
  BY DEF Init
<1> QED BY <1>1, LifecycleStep, PTL DEF Spec, LifecycleSpec, Lifecycle!InvSpec, Lifecycle!invVars

-----------------------------------------------------------------------------
(* The decision inbox.                                                     *)

\* The vendor of an invoice on the books is on file: an unknown one was created
\* with the invoice, and a vendor with invoices is not deleted.
VendorsOnFile == \A i \in Invoices : Known(i) => OnFile(VendorOf[i])

\* A step that puts no invoice on the books and leaves the vendors alone.
LEMMA FileKept ==
  ASSUME VendorsOnFile, UNCHANGED vendorVars, \A i \in Invoices : Known(i)' => Known(i)
  PROVE  VendorsOnFile'
BY DEF VendorsOnFile, OnFile, vendorVars

LEMMA FileStep == ASSUME TypeOK, VendorsOnFile, [Next]_vars PROVE VendorsOnFile'
<1> USE DEF Known, Lifecycle!Transition, config
<1>0. /\ invState \in [Invoices -> Lifecycle!InvStates]
      /\ venStatus \in [Vendors -> VendorStatus \cup {"absent", "withdrawn"}]
      /\ VendorOf \in [Invoices -> Vendors]
  BY InvoiceAssumption DEF TypeOK, Lifecycle!InvTypeOK
<1>1. ASSUME NEW u \in Users, NEW i \in Invoices, NEW a \in Amounts, NEW uploaded \in BOOLEAN,
             RecordInvoice(u, i, a, uploaded)
      PROVE  VendorsOnFile'
  <2>1. \A j \in Invoices : Known(j)' => Known(j) \/ j = i
    BY <1>0, <1>1 DEF RecordInvoice, Lifecycle!Create
  <2>2. \A v \in Vendors : OnFile(v) \/ v = VendorOf[i] => OnFile(v)'
    BY <1>0, <1>1 DEF RecordInvoice, AutoCreateVendors, OnFile, VendorStatus
  <2> QED
    BY <1>0, <2>1, <2>2 DEF VendorsOnFile
<1>2. ASSUME NEW u \in Users, NEW i \in Invoices,
             \/ \E a \in Amounts : UpdateInvoice(u, i, a)
             \/ DeleteInvoice(u, i) \/ ValidateInvoice(u, i) \/ SubmitForApproval(u, i)
             \/ ResolveDuplicate(u, i) \/ ApproveInvoice(u, i) \/ RejectInvoice(u, i)
             \/ RevertAutoApproval(u, i) \/ MarkAsPaid(u, i)
      PROVE  VendorsOnFile'
  BY <1>0, <1>2, FileKept
     DEF UpdateInvoice, DeleteInvoice, ValidateInvoice, SubmitForApproval, ResolveDuplicate,
         CanResolveDuplicate, ApproveInvoice, RejectInvoice, RevertAutoApproval, MarkAsPaid,
         Lifecycle!Edit, Lifecycle!Withdraw, Lifecycle!Validate, Lifecycle!Submit,
         Lifecycle!Approve, Lifecycle!Reject, Lifecycle!Revert, Lifecycle!Pay
<1>3. ASSUME \/ \E u \in Users : RunAutopilot(u)
             \/ \E S \in SUBSET Invoices : SettledByRun(S)
      PROVE  VendorsOnFile'
  BY <1>0, <1>3, FileKept DEF RunAutopilot, SettledByRun, Eligible, Lifecycle!Approve, Lifecycle!Pay
<1>4. ASSUME \/ \E u \in Users, cfg \in Settings : ConfigureAutopilot(u, cfg)
             \/ \E u \in Users, p, q \in Policies : EditPolicies(u, p, q)
             \/ Delegate \/ UNCHANGED vars
      PROVE  VendorsOnFile'
  BY <1>4, FileKept DEF ConfigureAutopilot, EditPolicies, Delegate, vars
<1>5. ASSUME NEW u \in Users, NEW v \in Vendors, MaintainVendor(u, v)
      PROVE  VendorsOnFile'
  <2>1. UNCHANGED invState
    BY <1>5 DEF MaintainVendor
  <2>2. CASE DeleteVendor(u, v, LinkedInvoices(v))
    <3>1. \A i \in Invoices : Known(i) => VendorOf[i] # v
      BY <2>2 DEF DeleteVendor, LinkedInvoices
    <3> QED
      BY <1>0, <2>1, <2>2, <3>1 DEF DeleteVendor, VendorsOnFile, OnFile
  <2>3. CASE \E s \in Statuses : \/ \E d \in Accounts : CreateVendor(u, v, s, d)
                                \/ SetVendorStatus(u, v, s)
    <3>1. \A w \in Vendors : OnFile(w) => OnFile(w)'
      BY <1>0, <2>3, StatusesAssumption DEF CreateVendor, SetVendorStatus, OnFile, VendorStatus
    <3> QED
      BY <1>0, <2>1, <3>1 DEF VendorsOnFile
  <2> QED
    BY <1>5, <2>2, <2>3 DEF MaintainVendor
<1> QED
  BY <1>1, <1>2, <1>3, <1>4, <1>5 DEF Next

\* What the inbox and the desk make of the same state: the roles an amount is
\* routed to, the gates, and the vendor that waits for somebody to activate it.
LEMMA DeskAndInbox == VendorsOnFile => InvoiceWorkShown
<1> SUFFICES ASSUME VendorsOnFile, NEW u \in Users, NEW late \in {{}, Invoices}
             PROVE /\ StandsInForNobody(u) =>
                        {i \in Invoices : CanApproveInvoice(u, i)} \subseteq ApprovalItems(u, late)
                   /\ \A i \in ApprovalItems(u, late) \ {i \in Invoices : CanApproveInvoice(u, i)} :
                        creator[i] = u \/ EscalatedTo(u, i, late)
                   /\ \A i \in DuplicateItems(u) : CanResolveDuplicate(u, i)
                   /\ \A i \in VendorItems(u) : \/ CanSetVendorStatus(u, VendorOf[i], "active")
                                                \/ venCreator[VendorOf[i]] = u
  BY DEF InvoiceWorkShown
<1>1. RoleOf[u] \in EffectiveRoles(u)
  BY DEF EffectiveRoles
<1>2. ASSUME StandsInForNobody(u), NEW i \in Invoices, CanApproveInvoice(u, i)
      PROVE  i \in ApprovalItems(u, late)
  <2>1. EffectiveRoles(u) = {RoleOf[u]}
    BY <1>2 DEF EffectiveRoles, StandsInForNobody
  <2> QED
    BY <1>2, <2>1 DEF CanApproveInvoice, ResolvePermission, ResolveAuthority, ApprovalItems, Pending,
                      May, Flagged, DuplicateResolved, RoutedTo, IsAdmin
<1>3. ASSUME NEW i \in ApprovalItems(u, late), creator[i] # u, ~EscalatedTo(u, i, late)
      PROVE  i \in Invoices /\ CanApproveInvoice(u, i)
  BY <1>1, <1>3 DEF CanApproveInvoice, ResolvePermission, ResolveAuthority, ApprovalItems, Pending, May,
                    Flagged, DuplicateResolved, RoutedTo, IsAdmin, ViolatesSelfApproval
<1>4. ASSUME NEW i \in DuplicateItems(u)
      PROVE  CanResolveDuplicate(u, i)
  BY <1>4 DEF DuplicateItems, Pending, Flagged, CanResolveDuplicate, Known
<1>5. ASSUME NEW i \in VendorItems(u), venCreator[VendorOf[i]] # u
      PROVE  CanSetVendorStatus(u, VendorOf[i], "active")
  <2>1. i \in Invoices /\ Known(i) /\ May(u, "vendors.manage")
    BY <1>5 DEF VendorItems, Pending, Known
  <2> QED
    BY <1>5, <2>1 DEF VendorsOnFile, CanSetVendorStatus, ViolatesSelfVendorActivation
<1> QED
  BY <1>2, <1>3, <1>4, <1>5

\* Nothing a person without borrowed authority could approve is missing from the
\* inbox, and what the inbox asks for the desk accepts, but for what is one's own
\* or listed as overdue: whatever was submitted, flagged, deleted, blocked or
\* delegated since.
THEOREM InvoiceWorkIsShown == Spec => []InvoiceWorkShown
<1>1. Init => VendorsOnFile
  BY DEF Init, Lifecycle!InvInit, VendorsOnFile, Known
<1> QED
  BY <1>1, FileStep, DeskAndInbox, TypeCorrect, PTL DEF Spec

=============================================================================
