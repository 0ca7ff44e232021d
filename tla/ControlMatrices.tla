--------------------------- MODULE ControlMatrices ---------------------------
(***************************************************************************)
(* The control matrices (app/services/matrices.py) that are computed from  *)
(* rules: the approval matrix, over the policies of policy_service.py, and *)
(* the segregation of duties matrix, over the roles.  Both promise to show *)
(* what reading the rules one at a time does not.                          *)
(*                                                                         *)
(* Amounts have fractions of the currency unit; UNIT of them make one.     *)
(***************************************************************************)
EXTENDS Delegation, FiniteSetsExt, SequencesExt

CONSTANTS UNIT,       \* how many of the amounts here make one currency unit
          LiveRules,  \* bound: the rules a tenant may write
          MaxLive,    \* bound: the rules in force at once
          MaxProbed   \* bound: the amounts looked at, above every threshold

ASSUME MatrixAssumption ==
  /\ UNIT \in Nat \ {0} /\ MaxLive \in Nat /\ MaxProbed \in Nat
  /\ \A p \in LiveRules :
       p.amount_threshold \in Nat /\ p.amount_threshold + 2 * UNIT <= MaxProbed

VARIABLE rules   \* the active approval rules

matrixVars == <<rules, lent>>

MatricesInit == rules = {} /\ DelegationInit

CreateApprovalPolicy(u, p) ==
  /\ May(u, "policies.manage")
  /\ p \notin rules /\ Cardinality(rules) < MaxLive
  /\ rules' = rules \cup {p}
  /\ UNCHANGED lent

\* Edited in place, which its name survives.
UpdateApprovalPolicy(u, p, q) ==
  /\ May(u, "policies.manage")
  /\ p \in rules /\ q \notin rules
  /\ rules' = (rules \ {p}) \cup {q}
  /\ UNCHANGED lent

\* Deactivated, or withdrawn.
DeleteApprovalPolicy(u, p) ==
  /\ May(u, "policies.manage")
  /\ p \in rules
  /\ rules' = rules \ {p}
  /\ UNCHANGED lent

MatricesNext ==
  \/ \E u \in Users, p \in LiveRules :
       \/ CreateApprovalPolicy(u, p) \/ DeleteApprovalPolicy(u, p)
       \/ \E q \in LiveRules : UpdateApprovalPolicy(u, p, q)
  \/ DelegationNext /\ UNCHANGED rules

MatricesSpec == MatricesInit /\ [][MatricesNext]_matrixVars

-----------------------------------------------------------------------------
(* The approval matrix.                                                    *)

\* The query returns the rules by descending priority, those of equal priority
\* in any order.
Orders ==
  {s \in SetToSeqs(rules) :
     \A j, k \in DOMAIN s : j < k => s[j].priority >= s[k].priority}

\* first_match: the rule that decides, as a set of one or none.
FirstMatch(order, a) ==
  {order[k] : k \in {j \in DOMAIN order :
     /\ OperatorMatches(order[j].operator, a, order[j].amount_threshold)
     /\ \A h \in 1..(j-1) : ~OperatorMatches(order[h].operator, a, order[h].amount_threshold)}}

\* Mutant: the amounts just above a threshold are not probed.
ProbesBelow ==
  {0, UNIT} \cup UNION {{t, IF t >= UNIT THEN t - UNIT ELSE 0} :
                          t \in {p.amount_threshold : p \in rules}}

\* One unit either side of every threshold, and the two smallest amounts.
Probes ==
  {0, UNIT} \cup UNION {{t, t + UNIT, IF t >= UNIT THEN t - UNIT ELSE 0} :
                          t \in {p.amount_threshold : p \in rules}}

Gaps(order) == {a \in Probes : FirstMatch(order, a) = {}}

UnreachableRules(order) == rules \ UNION {FirstMatch(order, a) : a \in Probes}

-----------------------------------------------------------------------------
(* The segregation of duties matrix.                                       *)

\* The first half is no permission: it is to be the person concerned.
AnyRole == "anyone"

SOD_RULES ==
  {[rule |-> "self_invoice_approval", first |-> "invoices.create",
    second |-> "invoices.approve"],
   [rule |-> "self_requisition_approval", first |-> "requisitions.create",
    second |-> "requisitions.approve"],
   [rule |-> "self_po_approval", first |-> "purchase_orders.create",
    second |-> "purchase_orders.approve"],
   [rule |-> "self_vendor_activation", first |-> "vendors.manage",
    second |-> "vendors.manage"],
   [rule |-> "self_release", first |-> "payments.prepare",
    second |-> "payments.release"],
   [rule |-> "self_reconciliation", first |-> "payments.release",
    second |-> "bank_statements.reconcile"],
   [rule |-> "self_bank_change_approval", first |-> "vendors.manage",
    second |-> "vendors.approve_bank_change"],
   [rule |-> "first_payment_after_bank_change", first |-> "vendors.manage",
    second |-> "payments.release"],
   [rule |-> "self_expense_approval", first |-> "hr.claim_expense",
    second |-> "hr.approve_expense"],
   [rule |-> "own_expense_approval", first |-> AnyRole,
    second |-> "hr.approve_expense"],
   [rule |-> "self_headcount_approval", first |-> "hr.request_headcount",
    second |-> "hr.approve_headcount"],
   [rule |-> "self_adjustment_approval", first |-> "inventory.adjust",
    second |-> "inventory.approve_adjustment"],
   [rule |-> "dual_adjustment_approval", first |-> "inventory.approve_adjustment",
    second |-> "inventory.approve_adjustment"],
   [rule |-> "self_return_approval", first |-> "inventory.manage_returns",
    second |-> "inventory.approve_return"],
   [rule |-> "self_payroll_approval", first |-> "hr.request_payroll_change",
    second |-> "hr.approve_payroll_change"],
   [rule |-> "own_payroll_approval", first |-> AnyRole,
    second |-> "hr.approve_payroll_change"],
   [rule |-> "manager_payroll_approval", first |-> AnyRole,
    second |-> "hr.approve_payroll_change"]}

HoldsBoth(role, r) ==
  (r.first = AnyRole \/ HasPermission(role, r.first)) /\ HasPermission(role, r.second)

OrdinaryRolesHoldingBoth(r) == {role \in Roles \ {"admin"} : HoldsBoth(role, r)}

SeparatedByPermissions == {r \in SOD_RULES : OrdinaryRolesHoldingBoth(r) = {}}

-----------------------------------------------------------------------------
(* Properties.                                                             *)

\* A band is a whole currency unit wide, its ends included.
Bands == {a .. a + UNIT : a \in 0 .. MaxProbed - UNIT}

Delegable ==
  {"invoices.approve", "requisitions.approve", "purchase_orders.approve",
   "payments.release", "sourcing.award"}

CanDo(u, perm) ==
  May(u, perm) \/ (perm \in Delegable /\ ResolvePermission(u, perm))

\* matrices.py:12-20: in whatever order the query returns rules of equal
\* priority, a band of amounts that no rule routes shows as a gap, and a rule
\* called unreachable decides no whole band.  A separation that the matrix puts
\* down to the permissions is met on both sides by borrowers and admins only.
MatricesShowWhatHolds ==
  /\ \A order \in Orders :
       /\ (\E b \in Bands : \A a \in b : Matching(rules, a) = {}) => Gaps(order) # {}
       /\ \A p \in UnreachableRules(order), b \in Bands :
            \E a \in b : FirstMatch(order, a) # {p}
  /\ \A r \in SeparatedByPermissions, u \in Users :
       (r.first = AnyRole \/ CanDo(u, r.first)) /\ CanDo(u, r.second)
         => IsAdmin(u) \/ \E p \in lent : p[2] = u

=============================================================================
