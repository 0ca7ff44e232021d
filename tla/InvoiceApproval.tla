-------------------------- MODULE InvoiceApproval ---------------------------
(***************************************************************************)
(* The accounts payable desk (app/services/invoice_service.py) and         *)
(* Restricted Autopilot (app/services/autopilot_service.py): who records,  *)
(* edits, validates, submits, approves and rejects invoices, through which *)
(* gates.  It implements InvoiceLifecycle.                                 *)
(*                                                                         *)
(* Approval by hand routes the amount through the tenant's policies.       *)
(* Autopilot approves a batch at once, within a cap, by the fixed limits   *)
(* per role, and can be reverted.  An invoice's purchase order link is set *)
(* by no operation, so the three-way match never has anything to match.    *)
(***************************************************************************)
EXTENDS VendorMaster

CONSTANTS Invoices, Amounts, VendorOf,
          Policies,   \* bound: the approval policies a tenant may have
          Settings    \* bound: the autopilot settings an admin may store

ASSUME InvoiceAssumption == Amounts \subseteq Nat /\ VendorOf \in [Invoices -> Vendors]

VARIABLES invState, invAmount,
          creator, approver,
          duplicate,     \* "none", "flagged" or "acknowledged"
          lastApproval,  \* the audit entry of the latest approval
          everAuto,      \* an auto_approved entry exists
          policies,      \* the live approval policies
          autopilot      \* the autopilot settings

Lifecycle == INSTANCE InvoiceLifecycle

AutopilotConfig == [enabled : BOOLEAN, cap : Nat,
                    require_active_vendor : BOOLEAN, require_no_duplicate : BOOLEAN]
\* No settings stored: disabled, with a cap of zero.
NoAutopilot == [enabled |-> FALSE, cap |-> 0,
                require_active_vendor |-> TRUE, require_no_duplicate |-> TRUE]

ASSUME SettingsAssumption == Settings \subseteq AutopilotConfig

evidence == <<creator, approver, duplicate, lastApproval, everAuto>>
vendorVars == <<venStatus, venCreator, account>>
config == <<policies, autopilot>>
vars == <<invState, invAmount, evidence, vendorVars, config, lent>>

Init ==
  /\ Lifecycle!InvInit /\ VendorInit /\ DelegationInit
  /\ creator = [i \in Invoices |-> NoUser]
  /\ approver = [i \in Invoices |-> NoUser]
  /\ duplicate = [i \in Invoices |-> "none"]
  /\ lastApproval = [i \in Invoices |-> "none"]
  /\ everAuto = [i \in Invoices |-> FALSE]
  /\ policies \in SUBSET Policies
  /\ autopilot = NoAutopilot

Known(i) == invState[i] \notin {"absent", "withdrawn"}
VendorActive(i) == venStatus[VendorOf[i]] = "active"
DuplicateResolved(i) == duplicate[i] # "flagged"

-----------------------------------------------------------------------------
\* create_manual_invoice, and upload_and_extract, which alone looks for a
\* similar invoice of the vendor and alone accepts one from a blocked vendor.
RecordInvoice(u, i, a, uploaded) ==
  LET v == VendorOf[i]
      similar == \E j \in Invoices : Known(j) /\ VendorOf[j] = v /\ invAmount[j] = a IN
  /\ May(u, "invoices.create")
  /\ venStatus[v] # "withdrawn"
  /\ venStatus[v] = "blocked" => uploaded
  /\ Lifecycle!Create(i, a)
  /\ AutoCreateVendors(u, IF venStatus[v] = "absent" THEN {v} ELSE {})
  /\ creator' = [creator EXCEPT ![i] = u]
  /\ duplicate' = [duplicate EXCEPT ![i] = IF uploaded /\ similar THEN "flagged" ELSE "none"]
  /\ UNCHANGED <<account, approver, lastApproval, everAuto, config, lent>>

UpdateInvoice(u, i, a) ==
  /\ May(u, "invoices.update")
  /\ Lifecycle!Edit(i, a)
  /\ UNCHANGED <<evidence, vendorVars, config, lent>>

DeleteInvoice(u, i) ==
  /\ May(u, "invoices.delete")
  /\ Lifecycle!Withdraw(i)
  /\ UNCHANGED <<evidence, vendorVars, config, lent>>

ValidateInvoice(u, i) ==
  /\ May(u, "invoices.create")
  /\ Lifecycle!Validate(i)
  /\ UNCHANGED <<evidence, vendorVars, config, lent>>

SubmitForApproval(u, i) ==
  /\ May(u, "invoices.create")
  /\ Lifecycle!Submit(i)
  /\ UNCHANGED <<evidence, vendorVars, config, lent>>

\* In whatever state the invoice is.
CanResolveDuplicate(u, i) ==
  /\ May(u, "invoices.approve")
  /\ Known(i) /\ duplicate[i] = "flagged"

ResolveDuplicate(u, i) ==
  /\ CanResolveDuplicate(u, i)
  /\ duplicate' = [duplicate EXCEPT ![i] = "acknowledged"]
  /\ UNCHANGED <<invState, invAmount, creator, approver, lastApproval, everAuto,
                 vendorVars, config, lent>>

\* Mutant: nobody asks who created the invoice.
ApproveInvoiceOwn(u, i) ==
  /\ ResolvePermission(u, "invoices.approve")
  /\ VendorActive(i)
  /\ DuplicateResolved(i)
  /\ \E role \in RequiredRoles(policies, invAmount[i]) : ResolveAuthority(u, role)
  /\ Lifecycle!Approve({i})
  /\ approver' = [approver EXCEPT ![i] = u]
  /\ lastApproval' = [lastApproval EXCEPT ![i] = "approved"]
  /\ UNCHANGED <<creator, duplicate, everAuto, vendorVars, config, lent>>

CanApproveInvoice(u, i) ==
  /\ ResolvePermission(u, "invoices.approve")
  /\ ~ViolatesSelfApproval(creator[i], u)
  /\ invState[i] = "pending_approval"
  /\ VendorActive(i)
  /\ DuplicateResolved(i)
  /\ \E role \in RequiredRoles(policies, invAmount[i]) : ResolveAuthority(u, role)

ApproveInvoice(u, i) ==
  /\ CanApproveInvoice(u, i)
  /\ Lifecycle!Approve({i})
  /\ approver' = [approver EXCEPT ![i] = u]
  /\ lastApproval' = [lastApproval EXCEPT ![i] = "approved"]
  /\ UNCHANGED <<creator, duplicate, everAuto, vendorVars, config, lent>>

RejectInvoice(u, i) ==
  /\ May(u, "invoices.reject")
  /\ Lifecycle!Reject(i)
  /\ UNCHANGED <<evidence, vendorVars, config, lent>>

MarkAsPaid(u, i) ==
  /\ May(u, "invoices.mark_paid")
  /\ VendorActive(i)
  /\ Lifecycle!Pay({i})
  /\ UNCHANGED <<evidence, vendorVars, config, lent>>

\* A payment run settles some approved invoices; PaymentRuns says which.
SettledByRun(S) ==
  /\ S # {} /\ \A i \in S : VendorActive(i)
  /\ Lifecycle!Pay(S)
  /\ UNCHANGED <<evidence, vendorVars, config, lent>>

-----------------------------------------------------------------------------
(* Autopilot.                                                              *)

Eligible(u, i) ==
  /\ invState[i] = "pending_approval"
  /\ autopilot.require_no_duplicate => DuplicateResolved(i)
  /\ autopilot.require_active_vendor => VendorActive(i)
  /\ invAmount[i] > 0
  /\ invAmount[i] <= autopilot.cap
  /\ CanApproveAmount(RoleOf[u], invAmount[i])
  /\ ~ViolatesSelfApproval(creator[i], u)

\* Mutant: autopilot sets the state itself, past the transition's guards.
RunAutopilotUnguarded(u) ==
  LET S == {i \in Invoices : Eligible(u, i)} IN
  /\ May(u, "invoices.approve")
  /\ autopilot.enabled
  /\ Lifecycle!Approve(S)
  /\ approver' = [i \in Invoices |-> IF i \in S THEN u ELSE approver[i]]
  /\ lastApproval' = [i \in Invoices |-> IF i \in S THEN "auto_approved" ELSE lastApproval[i]]
  /\ everAuto' = [i \in Invoices |-> everAuto[i] \/ i \in S]
  /\ UNCHANGED <<creator, duplicate, vendorVars, config, lent>>

\* Every eligible invoice at once: the transition's own guards on the vendor
\* and the duplicate still apply, and one that fails undoes the whole batch.
RunAutopilot(u) ==
  LET S == {i \in Invoices : Eligible(u, i)} IN
  /\ May(u, "invoices.approve")
  /\ autopilot.enabled
  /\ \A i \in S : VendorActive(i) /\ DuplicateResolved(i)
  /\ Lifecycle!Approve(S)
  /\ approver' = [i \in Invoices |-> IF i \in S THEN u ELSE approver[i]]
  /\ lastApproval' = [i \in Invoices |-> IF i \in S THEN "auto_approved" ELSE lastApproval[i]]
  /\ everAuto' = [i \in Invoices |-> everAuto[i] \/ i \in S]
  /\ UNCHANGED <<creator, duplicate, vendorVars, config, lent>>

RevertAutoApproval(u, i) ==
  /\ May(u, "invoices.approve")
  /\ everAuto[i]
  /\ Lifecycle!Revert(i)
  /\ approver' = [approver EXCEPT ![i] = NoUser]
  /\ UNCHANGED <<creator, duplicate, lastApproval, everAuto, vendorVars, config, lent>>

ConfigureAutopilot(u, cfg) ==
  /\ May(u, "policies.manage")
  /\ autopilot' = cfg
  /\ UNCHANGED <<invState, invAmount, evidence, vendorVars, policies, lent>>

\* One policy created, withdrawn (or deactivated), or replaced by its new form.
EditPolicies(u, p, q) ==
  /\ May(u, "policies.manage")
  /\ policies' \in {policies \cup {p}, policies \ {p}, (policies \ {p}) \cup {q}}
  /\ UNCHANGED <<invState, invAmount, evidence, vendorVars, autopilot, lent>>

-----------------------------------------------------------------------------
LinkedInvoices(v) == {i \in Invoices : VendorOf[i] = v /\ Known(i)}

MaintainVendor(u, v) ==
  /\ \/ \E s \in Statuses : \/ \E d \in Accounts : CreateVendor(u, v, s, d)
                            \/ SetVendorStatus(u, v, s)
     \/ DeleteVendor(u, v, LinkedInvoices(v))
  /\ UNCHANGED <<invState, invAmount, evidence, config, lent>>

Delegate == DelegationNext /\ UNCHANGED <<invState, invAmount, evidence, vendorVars, config>>

Next ==
  \/ \E u \in Users :
       \/ \E i \in Invoices :
            \/ \E a \in Amounts : \/ \E uploaded \in BOOLEAN : RecordInvoice(u, i, a, uploaded)
                                  \/ UpdateInvoice(u, i, a)
            \/ DeleteInvoice(u, i) \/ ValidateInvoice(u, i) \/ SubmitForApproval(u, i)
            \/ ResolveDuplicate(u, i) \/ ApproveInvoice(u, i) \/ RejectInvoice(u, i)
            \/ RevertAutoApproval(u, i) \/ MarkAsPaid(u, i)
       \/ RunAutopilot(u)
       \/ \E cfg \in Settings : ConfigureAutopilot(u, cfg)
       \/ \E p, q \in Policies : EditPolicies(u, p, q)
       \/ \E v \in Vendors : MaintainVendor(u, v)
  \/ \E S \in SUBSET Invoices : SettledByRun(S)
  \/ Delegate

Spec == Init /\ [][Next]_vars

-----------------------------------------------------------------------------
(* Properties.                                                             *)

\* Every variable holds a value of its kind.
TypeOK ==
  /\ Lifecycle!InvTypeOK
  /\ venStatus \in [Vendors -> VendorStatus \cup {"absent", "withdrawn"}]
  /\ venCreator \in [Vendors -> Users \cup {NoUser}]
  /\ account \in [Vendors -> BankDetails]
  /\ creator \in [Invoices -> Users \cup {NoUser}]
  /\ approver \in [Invoices -> Users \cup {NoUser}]
  /\ duplicate \in [Invoices -> {"none", "flagged", "acknowledged"}]
  /\ lastApproval \in [Invoices -> {"none", "approved", "auto_approved"}]
  /\ everAuto \in [Invoices -> BOOLEAN]
  /\ policies \subseteq Policies
  /\ autopilot \in AutopilotConfig
  /\ lent \subseteq Users \X Users

Cleared(i) == invState[i] \in {"approved", "paid"}

\* Whatever money may move against was approved by somebody other than its
\* creator, unless an administrator did both: by hand, by borrowed authority or
\* by running autopilot, and through any number of reverts.
MakerChecker ==
  \A i \in Invoices : Cleared(i) =>
    /\ approver[i] # NoUser
    /\ approver[i] = creator[i] => IsAdmin(approver[i])

\* Nothing flagged as a potential duplicate is approved or paid before somebody
\* looked at the flag, also when autopilot is configured not to care.
DuplicatesReviewed == \A i \in Invoices : Cleared(i) => DuplicateResolved(i)

\* A signature is on an invoice exactly while its approval stands.
SignedWhileApproved == \A i \in Invoices : Cleared(i) <=> approver[i] # NoUser

\* The desk keeps InvoiceLifecycle's promise: states move along its edges only,
\* and an amount is fixed from validation on.
LifecycleSpec == Lifecycle!InvSpec

\* autopilot_service.py:257-259: whatever a role may approve manually is
\* exactly what it may approve here.
ByHandAuthority(u, i) ==
  \E role \in RequiredRoles(policies, invAmount[i]) : ResolveAuthority(u, role)

NewlyApproved(i) == invState[i] = "pending_approval" /\ invState'[i] = "approved"

AutopilotAsByHand ==
  [][\A i \in Invoices : NewlyApproved(i) => ByHandAuthority(approver'[i], i)]_vars

\* autopilot_service.py:158-159: revert undoes an autopilot approval.  One that
\* a person gave by hand stands until the invoice is paid.
HandApprovalStands ==
  [][\A i \in Invoices : (invState[i] = "approved" /\ lastApproval[i] = "approved")
       => invState'[i] \in {"approved", "paid"}]_vars

=============================================================================
