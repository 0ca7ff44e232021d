----------------------------- MODULE Governance -----------------------------
(***************************************************************************)
(* Who may do what: the role permissions of app/core/roles.py, those that  *)
(* only let a user look left out, the segregation of duties predicates of  *)
(* app/services/sod.py, and who must approve an amount: by the tenant's    *)
(* approval_limit policies, read by app/services/policy.py, and by the     *)
(* fixed limits per role of app/core/roles.py, which autopilot reads.      *)
(*                                                                         *)
(* A user has one role.  Roles are compared after _normalize_role, so a    *)
(* role here is its canonical lower-case name.                             *)
(***************************************************************************)
EXTENDS Naturals

CONSTANTS Users,    \* the people of one tenant
          RoleOf,   \* the role each of them holds
          NoUser    \* a user column that is NULL

Roles == {"admin", "ap_clerk", "manager", "cfo", "approver", "auditor"}

ASSUME RolesAssumption == RoleOf \in [Users -> Roles]
ASSUME NoUserAssumption == NoUser \notin Users

-----------------------------------------------------------------------------
(* Permissions.                                                            *)

Permissions ==
  {"invoices.create", "invoices.update", "invoices.delete", "invoices.approve",
   "invoices.reject", "invoices.mark_paid", "payments.prepare", "payments.release",
   "vendors.manage", "vendors.approve_bank_change", "users.manage", "policies.manage",
   "requisitions.create", "requisitions.approve", "sourcing.manage", "sourcing.award",
   "purchase_orders.create", "purchase_orders.update", "purchase_orders.approve",
   "purchase_orders.receive", "inventory.adjust", "inventory.approve_adjustment",
   "inventory.inspect", "inventory.manage_items", "inventory.manage_returns",
   "inventory.approve_return", "bank_statements.import", "bank_statements.reconcile",
   "hr.manage_employees", "hr.request_headcount", "hr.approve_headcount",
   "hr.request_payroll_change", "hr.approve_payroll_change", "hr.manage_onboarding",
   "hr.claim_expense", "hr.approve_expense", "workflow.manage"}

ROLE_PERMISSIONS ==
  [ap_clerk |-> {"invoices.create", "invoices.update", "payments.prepare",
                 "vendors.manage", "requisitions.create", "sourcing.manage",
                 "purchase_orders.create", "purchase_orders.update",
                 "purchase_orders.receive", "inventory.adjust", "inventory.inspect",
                 "inventory.manage_items", "inventory.manage_returns",
                 "bank_statements.import", "bank_statements.reconcile", "hr.claim_expense"},
   manager  |-> {"invoices.approve", "invoices.reject", "vendors.manage",
                 "vendors.approve_bank_change", "requisitions.create",
                 "requisitions.approve", "sourcing.award", "purchase_orders.approve",
                 "inventory.approve_adjustment", "inventory.approve_return",
                 "hr.request_headcount", "hr.request_payroll_change",
                 "hr.manage_onboarding", "hr.claim_expense", "hr.approve_expense"},
   cfo      |-> {"invoices.approve", "invoices.reject", "invoices.mark_paid",
                 "payments.release", "vendors.approve_bank_change",
                 "requisitions.approve", "sourcing.award", "purchase_orders.approve",
                 "inventory.approve_adjustment", "inventory.approve_return",
                 "hr.approve_headcount", "hr.approve_payroll_change",
                 "hr.claim_expense", "hr.approve_expense"},
   approver |-> {"invoices.approve", "invoices.reject", "requisitions.approve",
                 "purchase_orders.approve"},
   auditor  |-> {}]

HasPermission(role, perm) ==
  perm \in IF role = "admin" THEN Permissions ELSE ROLE_PERMISSIONS[role]

May(u, perm) == HasPermission(RoleOf[u], perm)

-----------------------------------------------------------------------------
(* Segregation of duties.  The approval rule and the activation rule       *)
(* exempt admins; nothing on the money path does.                          *)

IsAdmin(u) == RoleOf[u] = "admin"

ViolatesSelfApproval(creator, u)         == ~IsAdmin(u) /\ creator = u
ViolatesSelfVendorActivation(creator, u) == ~IsAdmin(u) /\ creator = u
ViolatesSelfRelease(preparedBy, u)       == preparedBy = u
ViolatesSelfReconciliation(releasedBy, u) == releasedBy = u
ViolatesSelfBankChangeApproval(requestedBy, u) == requestedBy = u

\* Both the requester and whoever applied it count as having changed the
\* bank details.
ViolatesFirstPayment(requestedBy, appliedBy, u) ==
  requestedBy = u \/ appliedBy = u

-----------------------------------------------------------------------------
(* Approval limits.                                                        *)

DEFAULT_THRESHOLD == 250000

OperatorMatches(operator, amount, threshold) ==
  \/ operator = "greater_than"  /\ amount > threshold
  \/ operator = "greater_equal" /\ amount >= threshold
  \/ operator = "less_than"     /\ amount < threshold
  \/ operator = "less_equal"    /\ amount <= threshold
  \/ operator = "equal"         /\ amount = threshold

Matching(policies, amount) ==
  {p \in policies : OperatorMatches(p.operator, amount, p.amount_threshold)}

\* evaluate_rules: the first match by descending priority decides, and a split
\* at 250,000 when nothing matches.  Policies of equal priority come in no
\* particular order, so more than one role may be the answer.
RequiredRoles(policies, amount) ==
  LET hits == Matching(policies, amount)
  IN  IF hits = {} THEN {IF amount <= DEFAULT_THRESHOLD THEN "manager" ELSE "cfo"}
      ELSE {p.required_role : p \in {q \in hits : \A o \in hits : o.priority <= q.priority}}

\* APPROVAL_LIMITS and can_approve_amount: no limit for an admin or a CFO, the
\* threshold for a manager, nothing for anybody else.
CanApproveAmount(role, amount) ==
  \/ role \in {"admin", "cfo"}
  \/ role = "manager" /\ amount <= DEFAULT_THRESHOLD

=============================================================================
