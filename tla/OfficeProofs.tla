----------------------------- MODULE OfficeProofs ---------------------------
(***************************************************************************)
(* Theorems about the people and the settings: Payroll, Hiring, Claims,    *)
(* the inbox their approvals share, the reach of an approver over the org  *)
(* units, Accounts, Configuration, SignIn and ControlMatrices, for any     *)
(* number of people, requests, units, devices, policies and rules.         *)
(***************************************************************************)
EXTENDS OfficeInbox, OrgScope, Accounts, SignIn, Configuration, ControlMatrices,
        Sums, FiniteSetTheorems, SequenceTheorems, TLAPS

-----------------------------------------------------------------------------
(* People: the employees, whoever else is looked at.                       *)

\* Whatever the administrator does, employees stay of their kind.
LEMMA PeopleStep == PeopleTypeOK /\ PeopleNext => PeopleTypeOK'
<1> SUFFICES ASSUME PeopleTypeOK, PeopleNext PROVE PeopleTypeOK'
  OBVIOUS
<1>1. PICK u \in Users, e \in Employees :
        \/ \E salary \in Salaries \cup {0} : CreateEmployee(u, e, salary)
        \/ \E login \in Logins \cup {NoUser} : LinkLogin(u, e, login)
        \/ \E status \in Statuses : SetEmployment(u, e, status)
  BY DEF PeopleNext
<1> USE PeopleAssumption DEF PeopleTypeOK, EmploymentStatuses
<1>2. ASSUME NEW salary \in Salaries \cup {0}, CreateEmployee(u, e, salary) PROVE PeopleTypeOK'
  BY <1>2 DEF CreateEmployee
<1>3. ASSUME NEW login \in Logins \cup {NoUser}, LinkLogin(u, e, login) PROVE PeopleTypeOK'
  BY <1>3 DEF LinkLogin
<1>4. ASSUME NEW status \in Statuses, SetEmployment(u, e, status) PROVE PeopleTypeOK'
  BY <1>4 DEF SetEmployment
<1> QED
  BY <1>1, <1>2, <1>3, <1>4

\* The employee a user is, is an employee with that login; there may be none.
LEMMA SelfIs ==
  ASSUME PeopleTypeOK, NEW u \in Users
  PROVE  /\ Self(u) \in Employees \cup {NoEmployee}
         /\ \A e \in Employees : e = Self(u) => staff[e].login = u
BY PeopleAssumption DEF Self, Employed

-----------------------------------------------------------------------------
(* Payroll.                                                                *)

\* A request is about an employee, and whoever signed it does not answer to its
\* subject.
PaySignedApart ==
  \A c \in Changes :
    /\ change[c].state # "none" => change[c].of \in Employees
    /\ (change[c].state = "applied" /\ change[c].hat # NoEmployee) =>
         change[c].hat \in Employees /\ Manager[change[c].hat] # change[c].of

PayrollInv == PayrollTypeOK /\ PaySignedApart

\* A payroll without changes keeps the invariant.
LEMMA PayrollInitInv == PayrollInit => PayrollInv
BY DEF PayrollInit, PayrollInv, PayrollTypeOK, PeopleTypeOK, PaySignedApart, ChangeRecords, NoPerson,
       NoChange, EmploymentStatuses

\* A request that is not applied changes itself, and keeps its subject.
LEMMA RequestStep ==
  ASSUME PayrollInv, NEW c \in Changes, NEW r \in ChangeRecords, WriteChange(c, r),
         r.state # "applied", r.of \in Employees
  PROVE  PayrollInv'
BY DEF WriteChange, PayrollInv, PayrollTypeOK, PeopleTypeOK, PaySignedApart

\* How far apart two rates are is never below zero.
LEMMA DistanceNat == ASSUME NEW a \in Nat, NEW b \in Nat PROVE Distance(a, b) \in Nat
BY DEF Distance

\* Approval applies the request, and its signer was checked against its subject.
LEMMA ApproveChangeStep ==
  ASSUME PayrollInv, NEW u \in Users, NEW c \in Changes, ApproveChange(u, c)
  PROVE  PayrollInv'
<1> DEFINE r == [change[c] EXCEPT !.state = "applied", !.signer = u, !.hat = Self(u)]
           e == change[c].of
<1>1. /\ change[c] \in ChangeRecords /\ e \in Employees
      /\ staff \in [Employees -> [status : EmploymentStatuses \cup {"none"},
                                  login : Users \cup {NoUser}, pay : Nat]]
  BY DEF PayrollInv, PayrollTypeOK, PeopleTypeOK, PaySignedApart, ApproveChange, CanApproveChange
<1>2. Self(u) \in Employees \cup {NoEmployee}
  BY SelfIs DEF PayrollInv, PayrollTypeOK
<1>3. change' = [change EXCEPT ![c] = r]
  BY DEF ApproveChange, CanApproveChange, SignedBy, PayrollInv, PayrollTypeOK
<1>4. r \in ChangeRecords /\ r.of = e /\ r.hat = Self(u)
  BY <1>1, <1>2 DEF ChangeRecords
<1>5. Self(u) # NoEmployee => Manager[Self(u)] # e
  BY DEF ApproveChange, CanApproveChange, Conflicted
<1>6. change' \in [Changes -> ChangeRecords] /\ \A d \in Changes : change'[d] = IF d = c THEN r ELSE change[d]
  BY <1>3, <1>4 DEF PayrollInv, PayrollTypeOK
<1>7. PeopleTypeOK'
  <2>1. staff' = [staff EXCEPT ![e] = [staff[e] EXCEPT !.pay = change[c].new]]
    BY <1>1 DEF ApproveChange, CanApproveChange, SignedBy
  <2> QED
    BY <2>1, <1>1 DEF PeopleTypeOK, ChangeRecords
<1>8. moved' \in [Changes -> Nat]
  <2>1. change[c].new \in Nat /\ staff[e].pay \in Nat
    BY <1>1 DEF ChangeRecords
  <2> QED
    BY <2>1, DistanceNat DEF ApproveChange, CanApproveChange, SignedBy, PayrollInv, PayrollTypeOK
<1>9. PaySignedApart'
  <2> HIDE DEF r, e
  <2> SUFFICES ASSUME NEW d \in Changes
               PROVE /\ change'[d].state # "none" => change'[d].of \in Employees
                     /\ (change'[d].state = "applied" /\ change'[d].hat # NoEmployee) =>
                          change'[d].hat \in Employees /\ Manager[change'[d].hat] # change'[d].of
    BY DEF PaySignedApart
  <2>1. CASE d = c
    BY <2>1, <1>1, <1>2, <1>4, <1>5, <1>6
  <2>2. CASE d # c
    BY <2>2, <1>6 DEF PayrollInv, PaySignedApart
  <2> QED
    BY <2>1, <2>2
<1> QED
  BY <1>6, <1>7, <1>8, <1>9 DEF PayrollInv, PayrollTypeOK

\* Every step of the payroll keeps the invariant.
LEMMA PayrollStep == PayrollInv /\ [PayrollNext]_payVars => PayrollInv'
<1> SUFFICES ASSUME PayrollInv, [PayrollNext]_payVars PROVE PayrollInv'
  OBVIOUS
<1>1. CASE UNCHANGED payVars
  BY <1>1 DEF payVars, PayrollInv, PayrollTypeOK, PeopleTypeOK, PaySignedApart
<1>2. CASE PeopleNext /\ UNCHANGED <<change, moved>>
  BY <1>2, PeopleStep DEF PayrollInv, PayrollTypeOK, PaySignedApart
<1>3. ASSUME NEW u \in Users, NEW c \in Changes, NEW e \in Employees, NEW salary \in Salaries,
             RaiseChange(u, c, e, salary)
      PROVE  PayrollInv'
  <2> DEFINE r == [NoChange EXCEPT !.state = "draft", !.of = e, !.by = u, !.old = staff[e].pay,
                                   !.new = salary, !.jump = Distance(salary, staff[e].pay)]
  <2>1. salary \in Nat /\ staff[e].pay \in Nat
    BY PeopleAssumption DEF PayrollInv, PayrollTypeOK, PeopleTypeOK
  <2>2. r \in ChangeRecords /\ r.state # "applied" /\ r.of \in Employees
    BY <2>1, DistanceNat DEF NoChange, ChangeRecords
  <2>3. WriteChange(c, r)
    BY <1>3 DEF RaiseChange
  <2> HIDE DEF r
  <2> QED
    BY <2>2, <2>3, RequestStep
<1>4. ASSUME NEW c \in Changes, NEW to \in {"pending_approval", "rejected", "cancelled"},
             change[c].state # "none", WriteChange(c, [change[c] EXCEPT !.state = to])
      PROVE  PayrollInv'
  <2> DEFINE r == [change[c] EXCEPT !.state = to]
  <2>1. r \in ChangeRecords /\ r.state # "applied" /\ r.of \in Employees
    BY <1>4 DEF PayrollInv, PayrollTypeOK, PaySignedApart, ChangeRecords
  <2>2. WriteChange(c, r)
    BY <1>4
  <2> HIDE DEF r
  <2> QED
    BY <2>1, <2>2, RequestStep
<1>5. ASSUME NEW u \in Users, NEW c \in Changes, SubmitChange(u, c) PROVE PayrollInv'
  BY <1>5, <1>4 DEF SubmitChange
<1>6. ASSUME NEW u \in Users, NEW c \in Changes, RejectChange(u, c) PROVE PayrollInv'
  BY <1>6, <1>4 DEF RejectChange
<1>7. ASSUME NEW u \in Users, NEW c \in Changes, CancelChange(u, c) PROVE PayrollInv'
  BY <1>7, <1>4 DEF CancelChange
<1> QED
  BY <1>1, <1>2, <1>3, <1>5, <1>6, <1>7, ApproveChangeStep DEF PayrollNext

\* The payroll's invariant holds in every state.
LEMMA PayrollInvHolds == PayrollSpec => []PayrollInv
BY PayrollInitInv, PayrollStep, PTL DEF PayrollSpec

\* Employees and requests for a change of pay hold values of their kind
\* (payroll_change_service.py).
THEOREM PayrollTypeCorrect == PayrollSpec => []PayrollTypeOK
BY PayrollInvHolds, PTL DEF PayrollInv

\* Whoever signs does not answer to the subject, so two signatures never cross
\* a line of management.
LEMMA ApartIsNoMutual == PayrollInv => NoMutualRises
BY PeopleAssumption DEF PayrollInv, PaySignedApart, NoMutualRises, Applied

\* Two people one of whom manages the other never approve each other's pay,
\* whatever logins are linked in between (payroll_change_service.py:13-16).
THEOREM RaisesAreNotMutual == PayrollSpec => []NoMutualRises
BY PayrollInvHolds, ApartIsNoMutual, PTL

-----------------------------------------------------------------------------
(* Hiring.                                                                 *)

\* A request past its draft has a reason, and one that was signed was signed by
\* another; who filled it was looked at.
HireStands(h) ==
  /\ hire[h].state \in {"pending_approval", "approved", "filled"} => hire[h].justified
  /\ hire[h].state \in {"approved", "filled"} => hire[h].signer \notin {NoUser, hire[h].by}
  /\ hire[h].state = "filled" =>
       hire[h].filledBy \in IF h \in Sensitive THEN Employees \cap Cleared ELSE Employees

HiringInv == HiringTypeOK /\ \A h \in Hires : HireStands(h)

\* An office without requests keeps the invariant.
LEMMA HiringInitInv == HiringInit => HiringInv
BY DEF HiringInit, HiringInv, HiringTypeOK, HireRecords, HireStates, PeopleTypeOK, HireStands,
       NoPerson, NoHire, EmploymentStatuses

\* One request changes, to a record that stands up.
LEMMA WriteHireStep ==
  ASSUME HiringInv, NEW h \in Hires, NEW r \in HireRecords, WriteHire(h, r),
         r.state \in {"pending_approval", "approved", "filled"} => r.justified,
         r.state \in {"approved", "filled"} => r.signer \notin {NoUser, r.by},
         r.state = "filled" =>
           r.filledBy \in IF h \in Sensitive THEN Employees \cap Cleared ELSE Employees
  PROVE  HiringInv'
<1>1. /\ hire' \in [Hires -> HireRecords] /\ UNCHANGED <<staff, access>>
      /\ \A g \in Hires : hire'[g] = IF g = h THEN r ELSE hire[g]
  BY DEF HiringInv, HiringTypeOK, WriteHire
<1>2. \A g \in Hires : HireStands(g)'
  BY <1>1 DEF HiringInv, HireStands
<1> QED
  BY <1>1, <1>2 DEF HiringInv, HiringTypeOK, PeopleTypeOK

\* Every step with a request or a checklist keeps the invariant.
LEMMA HiringStep == HiringInv /\ [HiringNext]_hireVars => HiringInv'
<1> SUFFICES ASSUME HiringInv, [HiringNext]_hireVars PROVE HiringInv'
  OBVIOUS
<1>0. PeopleTypeOK /\ \A h \in Hires : hire[h] \in HireRecords /\ HireStands(h)
  BY DEF HiringInv, HiringTypeOK
<1>1. ASSUME NEW u \in Users, NEW h \in Hires, NEW justified \in BOOLEAN, RaiseHire(u, h, justified)
      PROVE  HiringInv'
  <2> DEFINE r == [NoHire EXCEPT !.state = "draft", !.by = u, !.justified = justified]
  <2>1. r \in HireRecords /\ r.state = "draft"
    BY DEF NoHire, HireRecords, HireStates
  <2>2. WriteHire(h, r)
    BY <1>1 DEF RaiseHire
  <2> HIDE DEF r
  <2> QED
    BY <2>1, <2>2, WriteHireStep
<1>2. ASSUME NEW h \in Hires, NEW r \in HireRecords, WriteHire(h, r),
             r.by = hire[h].by, r.justified = hire[h].justified, r.signer = hire[h].signer,
             \/ r.state = "pending_approval" /\ hire[h].justified
             \/ r.state \in {"rejected", "cancelled"}
      PROVE  HiringInv'
  BY <1>2, WriteHireStep
<1>3. ASSUME NEW u \in Users, NEW h \in Hires, SubmitHire(u, h) PROVE HiringInv'
  <2> DEFINE r == [hire[h] EXCEPT !.state = "pending_approval"]
  <2>1. /\ r \in HireRecords /\ r.state = "pending_approval" /\ r.by = hire[h].by
        /\ r.justified = hire[h].justified /\ r.signer = hire[h].signer
    BY <1>0 DEF HireRecords, HireStates
  <2>2. WriteHire(h, r) /\ hire[h].justified
    BY <1>3 DEF SubmitHire
  <2> HIDE DEF r
  <2> QED
    BY <1>2, <2>1, <2>2
<1>4. ASSUME NEW u \in Users, NEW h \in Hires, ApproveHire(u, h) PROVE HiringInv'
  <2> DEFINE r == [hire[h] EXCEPT !.state = "approved", !.signer = u]
  <2>1. /\ r \in HireRecords /\ r.state = "approved" /\ r.by = hire[h].by
        /\ r.justified = hire[h].justified /\ r.signer = u
    BY <1>0 DEF HireRecords, HireStates
  <2>2. WriteHire(h, r) /\ hire[h].state = "pending_approval" /\ hire[h].by # u
    BY <1>4 DEF ApproveHire, CanApproveHire
  <2>3. hire[h].justified /\ u # NoUser
    BY <1>0, <2>2, NoUserAssumption DEF HireStands
  <2> HIDE DEF r
  <2> QED
    BY <2>1, <2>2, <2>3, WriteHireStep
<1>5. ASSUME NEW u \in Users, NEW h \in Hires, RejectHire(u, h) \/ CancelHire(u, h)
      PROVE  HiringInv'
  <2> DEFINE r(s) == [hire[h] EXCEPT !.state = s]
  <2>1. \A s \in {"rejected", "cancelled"} :
          /\ r(s) \in HireRecords /\ r(s).state = s /\ r(s).by = hire[h].by
          /\ r(s).justified = hire[h].justified /\ r(s).signer = hire[h].signer
    BY <1>0 DEF HireRecords, HireStates
  <2>2. \E s \in {"rejected", "cancelled"} : WriteHire(h, r(s))
    BY <1>5 DEF RejectHire, CancelHire
  <2> HIDE DEF r
  <2> QED
    BY <1>2, <2>1, <2>2
<1>6. ASSUME NEW u \in Users, NEW h \in Hires, NEW e \in Employees, FillHire(u, h, e)
      PROVE  HiringInv'
  <2> DEFINE r == [hire[h] EXCEPT !.state = "filled", !.filledBy = e]
  <2>1. /\ r \in HireRecords /\ r.state = "filled" /\ r.by = hire[h].by
        /\ r.justified = hire[h].justified /\ r.signer = hire[h].signer /\ r.filledBy = e
    BY <1>0 DEF HireRecords, HireStates
  <2>2. WriteHire(h, r) /\ hire[h].state = "approved" /\ (h \in Sensitive => e \in Cleared)
    BY <1>6 DEF FillHire
  <2>3. hire[h].justified /\ hire[h].signer \notin {NoUser, hire[h].by}
    BY <1>0, <2>2 DEF HireStands
  <2> HIDE DEF r
  <2> QED
    BY <2>1, <2>2, <2>3, WriteHireStep
<1>7. ASSUME UNCHANGED hire, PeopleTypeOK', access' \in [Employees -> [Flows -> TaskStates \cup {"none"}]]
      PROVE  HiringInv'
  BY <1>7 DEF HiringInv, HiringTypeOK, HireStands
<1>8. ASSUME NEW u \in Users, NEW e \in Employees, NEW flow \in Flows,
             \/ CreateChecklist(u, e, flow)
             \/ \E status \in TaskStates : SetTask(u, e, flow, status)
      PROVE  HiringInv'
  <2>1. PICK status \in TaskStates : access' = [access EXCEPT ![e][flow] = status]
    BY <1>8 DEF CreateChecklist, SetTask, TaskStates
  <2>2. access' \in [Employees -> [Flows -> TaskStates \cup {"none"}]]
    BY <2>1 DEF HiringInv, HiringTypeOK
  <2>3. UNCHANGED <<staff, hire>>
    BY <1>8 DEF CreateChecklist, SetTask
  <2> QED
    BY <1>0, <1>7, <2>2, <2>3 DEF PeopleTypeOK
<1>9. CASE PeopleNext /\ UNCHANGED <<hire, access>>
  BY <1>0, <1>7, <1>9, PeopleStep DEF HiringInv, HiringTypeOK
<1>10. CASE UNCHANGED hireVars
  BY <1>0, <1>7, <1>10 DEF hireVars, HiringInv, HiringTypeOK, PeopleTypeOK
<1> QED
  BY <1>1, <1>3, <1>4, <1>5, <1>6, <1>8, <1>9, <1>10 DEF HiringNext

\* The invariant of the requests holds.
LEMMA HiringInvHolds == HiringSpec => []HiringInv
BY HiringInitInv, HiringStep, PTL DEF HiringSpec

\* Requests, tasks and employees hold values of their kind.
THEOREM HiringTypeCorrect == HiringSpec => []HiringTypeOK
BY HiringInvHolds, PTL DEF HiringInv

\* headcount_service.py:18-22: a hire is on a request with a reason that another
\* than who raised it signed, and for a sensitive role of somebody who was cleared.
THEOREM HiresAreApproved == HiringSpec => []FilledAsApproved
<1>1. HiringInv => FilledAsApproved
  BY DEF HiringInv, HireStands, FilledAsApproved
<1> QED
  BY <1>1, HiringInvHolds, PTL

\* headcount_service.py:15-17: an approval is used up by the hire made on it.
THEOREM ApprovalsHireOnce == HiringSpec => HiredOnce
<1>1. HiringInv /\ [HiringNext]_hireVars =>
        \A h \in Hires : hire[h].state = "filled" => hire'[h] = hire[h]
  <2> SUFFICES ASSUME HiringInv, [HiringNext]_hireVars, NEW g \in Hires, hire[g].state = "filled"
               PROVE  hire'[g] = hire[g]
    OBVIOUS
  <2>0. hire \in [Hires -> HireRecords]
    BY DEF HiringInv, HiringTypeOK
  <2>1. ASSUME NEW h \in Hires, NEW r, WriteHire(h, r), hire[h].state # "filled"
        PROVE  hire'[g] = hire[g]
    BY <2>0, <2>1 DEF WriteHire
  <2>2. ASSUME NEW u \in Users, NEW h \in Hires,
               \/ \E justified \in BOOLEAN : RaiseHire(u, h, justified)
               \/ SubmitHire(u, h) \/ ApproveHire(u, h) \/ RejectHire(u, h) \/ CancelHire(u, h)
               \/ \E e \in Employees : FillHire(u, h, e)
        PROVE  hire'[g] = hire[g]
    BY <2>1, <2>2 DEF RaiseHire, SubmitHire, ApproveHire, CanApproveHire, RejectHire, CancelHire,
                      FillHire
  <2>3. ASSUME NEW u \in Users, NEW e \in Employees, NEW flow \in Flows,
               \/ CreateChecklist(u, e, flow)
               \/ \E status \in TaskStates : SetTask(u, e, flow, status)
        PROVE  hire'[g] = hire[g]
    BY <2>3 DEF CreateChecklist, SetTask
  <2> QED
    BY <2>2, <2>3 DEF HiringNext, hireVars
<1> QED
  BY <1>1, HiringInvHolds, PTL DEF HiringSpec, HiredOnce

-----------------------------------------------------------------------------
(* Claims.                                                                 *)

\* A claim is somebody's, the receipt it was submitted with is there, and it
\* stands up when it is signed.
ClaimStands(c) ==
  /\ claim[c].state # "none" => claim[c].of \in Employees
  /\ claim[c].hasReceipt => c \in receipts
  /\ claim[c].state \in {"approved", "paid"} =>
       /\ claim[c].signer \notin {NoUser, claim[c].by} /\ claim[c].hat # claim[c].of
       /\ c \in Required => c \in receipts \/ claim[c].waived
  /\ claim[c].posted = IF claim[c].state = "paid" THEN 1 ELSE 0

ClaimsInv == ClaimsTypeOK /\ \A c \in Claimed : ClaimStands(c)

\* A desk without claims keeps the invariant.
LEMMA ClaimsInitInv == ClaimsInit => ClaimsInv
BY DEF ClaimsInit, ClaimsInv, ClaimsTypeOK, ClaimRecords, PeopleTypeOK, ClaimStands, NoPerson,
       NoClaim, EmploymentStatuses

\* One claim changes, to a record that stands up.
LEMMA WriteClaimStep ==
  ASSUME ClaimsInv, NEW c \in Claimed, NEW r \in ClaimRecords, WriteClaim(c, r),
         r.state # "none" => r.of \in Employees,
         r.hasReceipt => c \in receipts,
         r.state \in {"approved", "paid"} =>
           /\ r.signer \notin {NoUser, r.by} /\ r.hat # r.of
           /\ c \in Required => c \in receipts \/ r.waived,
         r.posted = IF r.state = "paid" THEN 1 ELSE 0
  PROVE  ClaimsInv'
<1>1. claim' \in [Claimed -> ClaimRecords] /\ \A d \in Claimed : claim'[d] = IF d = c THEN r ELSE claim[d]
  BY DEF ClaimsInv, ClaimsTypeOK, WriteClaim
<1>2. \A d \in Claimed : ClaimStands(d)'
  BY <1>1 DEF ClaimsInv, ClaimStands, WriteClaim
<1> QED
  BY <1>1, <1>2 DEF ClaimsInv, ClaimsTypeOK, PeopleTypeOK, WriteClaim

\* Approval is by neither the raiser nor the claimant, on a receipt or a reason.
LEMMA ApproveClaimStep ==
  ASSUME ClaimsInv, NEW u \in Users, NEW c \in Claimed, NEW reason \in BOOLEAN,
         ApproveClaim(u, c, reason)
  PROVE  ClaimsInv'
<1> DEFINE r == [claim[c] EXCEPT !.state = "approved", !.signer = u, !.hat = Self(u),
                                 !.waived = c \in Required /\ ~claim[c].hasReceipt]
<1>1. claim[c] \in ClaimRecords /\ ClaimStands(c) /\ claim[c].state = "pending_approval"
  BY DEF ApproveClaim, CanApproveClaim, ClaimsInv, ClaimsTypeOK
<1>2. Self(u) \in Employees \cup {NoEmployee} /\ \A e \in Employees : e = Self(u) => staff[e].login = u
  BY SelfIs DEF ClaimsInv, ClaimsTypeOK
<1>3. (c \in Required /\ ~claim[c].hasReceipt) \in BOOLEAN
  OBVIOUS
<1>4. /\ r \in ClaimRecords /\ r.state = "approved" /\ r.of = claim[c].of /\ r.by = claim[c].by
      /\ r.hasReceipt = claim[c].hasReceipt /\ r.posted = claim[c].posted
      /\ r.signer = u /\ r.hat = Self(u)
      /\ r.waived = (c \in Required /\ ~claim[c].hasReceipt)
  BY <1>1, <1>2, <1>3 DEF ClaimRecords
<1>5. claim[c].of \in Employees /\ claim[c].of # Self(u) /\ claim[c].by # u
  BY <1>1, <1>2 DEF ClaimStands, ApproveClaim, CanApproveClaim, IsSelf
<1>6. WriteClaim(c, r)
  BY DEF ApproveClaim, CanApproveClaim
<1> HIDE DEF r
<1> QED
  BY <1>1, <1>4, <1>5, <1>6, NoUserAssumption, WriteClaimStep DEF ClaimStands

\* Every step with a claim keeps the invariant.
LEMMA ClaimsStep == ClaimsInv /\ [ClaimsNext]_claimVars => ClaimsInv'
<1> SUFFICES ASSUME ClaimsInv, [ClaimsNext]_claimVars PROVE ClaimsInv'
  OBVIOUS
<1>1. CASE UNCHANGED claimVars
  BY <1>1 DEF claimVars, ClaimsInv, ClaimsTypeOK, PeopleTypeOK, ClaimStands
<1>2. CASE PeopleNext /\ UNCHANGED <<claim, receipts>>
  BY <1>2, PeopleStep DEF ClaimsInv, ClaimsTypeOK, ClaimStands
<1>3. ASSUME NEW c \in Claimed, AttachReceipt(c) PROVE ClaimsInv'
  BY <1>3 DEF AttachReceipt, ClaimsInv, ClaimsTypeOK, PeopleTypeOK, ClaimStands
<1>4. ASSUME NEW u \in Users, NEW c \in Claimed, NEW e \in Employees, RaiseClaim(u, c, e)
      PROVE  ClaimsInv'
  <2> DEFINE r == [NoClaim EXCEPT !.state = "draft", !.of = e, !.by = u]
  <2>1. r \in ClaimRecords /\ r.state = "draft" /\ r.of = e /\ ~r.hasReceipt /\ r.posted = 0
    BY DEF NoClaim, ClaimRecords
  <2>2. WriteClaim(c, r)
    BY <1>4 DEF RaiseClaim
  <2> HIDE DEF r
  <2> QED
    BY <2>1, <2>2, WriteClaimStep
<1>5. ASSUME NEW u \in Users, NEW c \in Claimed, SubmitClaim(u, c) PROVE ClaimsInv'
  <2> DEFINE r == [claim[c] EXCEPT !.state = "pending_approval", !.hasReceipt = c \in receipts]
  <2>1. claim[c] \in ClaimRecords /\ ClaimStands(c) /\ claim[c].state = "draft"
    BY <1>5 DEF SubmitClaim, ClaimsInv, ClaimsTypeOK
  <2>2. (c \in receipts) \in BOOLEAN
    OBVIOUS
  <2>3. /\ r \in ClaimRecords /\ r.state = "pending_approval" /\ r.of = claim[c].of
        /\ r.hasReceipt = (c \in receipts) /\ r.posted = claim[c].posted
    BY <2>1, <2>2 DEF ClaimRecords
  <2>4. WriteClaim(c, r)
    BY <1>5 DEF SubmitClaim
  <2> HIDE DEF r
  <2> QED
    BY <2>1, <2>3, <2>4, WriteClaimStep DEF ClaimStands
<1>6. ASSUME NEW c \in Claimed, NEW to \in {"rejected", "cancelled"},
             claim[c].state \notin {"none", "paid"}, WriteClaim(c, [claim[c] EXCEPT !.state = to])
      PROVE  ClaimsInv'
  <2> DEFINE r == [claim[c] EXCEPT !.state = to]
  <2>1. claim[c] \in ClaimRecords /\ ClaimStands(c)
    BY DEF ClaimsInv, ClaimsTypeOK
  <2>2. /\ r \in ClaimRecords /\ r.state = to /\ r.of = claim[c].of
        /\ r.hasReceipt = claim[c].hasReceipt /\ r.posted = claim[c].posted
    BY <2>1 DEF ClaimRecords
  <2>3. WriteClaim(c, r)
    BY <1>6
  <2> HIDE DEF r
  <2> QED
    BY <1>6, <2>1, <2>2, <2>3, WriteClaimStep DEF ClaimStands
<1>7. ASSUME NEW u \in Users, NEW c \in Claimed, RejectClaim(u, c) PROVE ClaimsInv'
  BY <1>7, <1>6 DEF RejectClaim
<1>8. ASSUME NEW u \in Users, NEW c \in Claimed, CancelClaim(u, c) PROVE ClaimsInv'
  BY <1>8, <1>6 DEF CancelClaim
<1>9. ASSUME NEW u \in Users, NEW c \in Claimed, MarkClaimPaid(u, c) PROVE ClaimsInv'
  <2> DEFINE r == [claim[c] EXCEPT !.state = "paid", !.posted = 1]
  <2>1. claim[c] \in ClaimRecords /\ ClaimStands(c) /\ claim[c].state = "approved"
    BY <1>9 DEF MarkClaimPaid, ClaimsInv, ClaimsTypeOK
  <2>2. claim[c].posted = 0 /\ claim[c].posted + 1 = 1
    BY <2>1 DEF ClaimStands
  <2>3. /\ r \in ClaimRecords /\ r.state = "paid" /\ r.of = claim[c].of /\ r.by = claim[c].by
        /\ r.signer = claim[c].signer /\ r.hat = claim[c].hat /\ r.waived = claim[c].waived
        /\ r.hasReceipt = claim[c].hasReceipt /\ r.posted = 1
    BY <2>1, <2>2 DEF ClaimRecords
  <2>4. WriteClaim(c, r)
    BY <1>9, <2>2 DEF MarkClaimPaid
  <2> HIDE DEF r
  <2> QED
    BY <2>1, <2>3, <2>4, WriteClaimStep DEF ClaimStands
<1> QED
  BY <1>1, <1>2, <1>3, <1>4, <1>5, <1>7, <1>8, <1>9, ApproveClaimStep DEF ClaimsNext

\* The claims' invariant holds in every state.
LEMMA ClaimsInvHolds == ClaimsSpec => []ClaimsInv
BY ClaimsInitInv, ClaimsStep, PTL DEF ClaimsSpec

\* Employees and expense claims hold values of their kind (expense_service.py).
THEOREM ClaimsTypeCorrect == ClaimsSpec => []ClaimsTypeOK
BY ClaimsInvHolds, PTL DEF ClaimsInv

\* A claim the invariant allows is one that stands up.
LEMMA ClaimStandsUp == ClaimsInv => ClaimsStandUp
BY DEF ClaimsInv, ClaimStands, ClaimsStandUp

\* A claim that is paid was signed by neither its raiser nor its claimant, is
\* evidenced or waived, and is posted once (expense_service.py:6-24).
THEOREM PaidClaimsStandUp == ClaimsSpec => []ClaimsStandUp
BY ClaimsInvHolds, ClaimStandsUp, PTL

-----------------------------------------------------------------------------
(* Accounts.                                                               *)

\* What a decided request has read: the others are others, and an administrator
\* leaves one of them behind.
DecidedOnOthers ==
  \A s \in Requests : roleRequest[s].step = "checked" =>
    /\ roleRequest[s].of \notin roleRequest[s].others
    /\ roleRequest[s].from = "admin" => roleRequest[s].others # {}

AccountsInv == AccountsTypeOK /\ DecidedOnOthers

\* Whoever founds the tenant, the invariant holds before any request.
LEMMA AccountsInitInv ==
  ASSUME NEW founders \in SUBSET Users, AccountsInit(founders)
  PROVE  AccountsInv
BY AccountsAssumption
   DEF AccountsInit, AccountsInv, AccountsTypeOK, DecidedOnOthers, NoRoleRequest, Roles

\* A decided request is of the kind that is decided.
LEMMA CheckedIsDecided ==
  ASSUME AccountsTypeOK, NEW s \in Requests, roleRequest[s].step = "checked"
  PROVE  roleRequest[s] \in Decided
BY DEF AccountsTypeOK, NoRoleRequest, LetIn

\* One request moves on, to what it may have read.
LEMMA RoleRequestStep ==
  ASSUME AccountsInv, NEW s \in Requests, NEW r \in {NoRoleRequest} \cup LetIn \cup Decided,
         r.step = "checked" => r.of \notin r.others /\ (r.from = "admin" => r.others # {}),
         roleRequest' = [roleRequest EXCEPT ![s] = r],
         held' \in [Users -> Roles \cup {"none"}], tokenVersion' \in [Users -> 0 .. MaxBump]
  PROVE  AccountsInv'
<1>1. /\ roleRequest' \in [Requests -> {NoRoleRequest} \cup LetIn \cup Decided]
      /\ \A t \in Requests : roleRequest'[t] = IF t = s THEN r ELSE roleRequest[t]
  BY DEF AccountsInv, AccountsTypeOK
<1> QED
  BY <1>1 DEF AccountsInv, AccountsTypeOK, DecidedOnOthers

\* Every step of a role change keeps the invariant.
LEMMA AccountsStep == AccountsInv /\ [AccountsNext]_accountVars => AccountsInv'
<1> SUFFICES ASSUME AccountsInv, [AccountsNext]_accountVars PROVE AccountsInv'
  OBVIOUS
<1>0. held \in [Users -> Roles \cup {"none"}] /\ tokenVersion \in [Users -> 0 .. MaxBump]
  BY DEF AccountsInv, AccountsTypeOK
<1>1. CASE UNCHANGED accountVars
  BY <1>1 DEF accountVars, AccountsInv, AccountsTypeOK, DecidedOnOthers
<1>2. ASSUME NEW u \in Users, NEW v \in Users, NEW role \in GivenRoles, CreateUser(u, v, role)
      PROVE  AccountsInv'
  BY <1>2, AccountsAssumption DEF CreateUser, AccountsInv, AccountsTypeOK, DecidedOnOthers
<1>3. ASSUME NEW s \in Requests, NEW u \in Users, AuthoriseRequest(s, u) PROVE AccountsInv'
  <2> DEFINE r == [step |-> "authorised", by |-> u]
  <2>1. r \in LetIn /\ r.step # "checked"
    BY DEF LetIn
  <2> HIDE DEF r
  <2> QED
    BY <1>0, <1>3, <2>1, RoleRequestStep DEF AuthoriseRequest, r
<1>4. ASSUME NEW s \in Requests, NEW v \in Users, NEW role \in GivenRoles,
             CheckRoleChange(s, v, role)
      PROVE  AccountsInv'
  <2> DEFINE r == [step |-> "checked", by |-> roleRequest[s].by, of |-> v, from |-> held[v],
                   to |-> role, read |-> tokenVersion[v], others |-> Admins \ {v}]
  <2>1. roleRequest[s] \in LetIn
    BY <1>4 DEF CheckRoleChange, AccountsInv, AccountsTypeOK, NoRoleRequest, Decided
  <2>2. held[v] \in Roles
    BY <1>0, <1>4 DEF CheckRoleChange
  <2>3. tokenVersion[v] \in 0 .. MaxBump - 1
    BY <1>0, <1>4, AccountsAssumption DEF CheckRoleChange
  <2>4. Admins \ {v} \in SUBSET Users /\ v \notin Admins \ {v}
    BY DEF Admins
  <2>5. r \in Decided /\ r.of = v /\ r.others = Admins \ {v} /\ r.from = held[v]
    BY <2>1, <2>2, <2>3, <2>4 DEF LetIn, Decided
  <2>6. roleRequest' = [roleRequest EXCEPT ![s] = r] /\ UNCHANGED <<held, tokenVersion>>
    BY <1>4 DEF CheckRoleChange
  <2>7. held[v] = "admin" => Admins \ {v} # {}
    BY <1>4 DEF CheckRoleChange
  <2> HIDE DEF r
  <2> QED
    BY <1>0, <2>4, <2>5, <2>6, <2>7, RoleRequestStep
<1>5. ASSUME NEW s \in Requests, CommitRoleChange(s) PROVE AccountsInv'
  <2>1. roleRequest[s] \in Decided
    BY <1>5, CheckedIsDecided DEF CommitRoleChange, AccountsInv
  <2>2. /\ roleRequest[s].of \in Users /\ roleRequest[s].to \in Roles
        /\ roleRequest[s].read + 1 \in 0 .. MaxBump
    BY <2>1, AccountsAssumption DEF Decided
  <2>3. held' \in [Users -> Roles \cup {"none"}] /\ tokenVersion' \in [Users -> 0 .. MaxBump]
    BY <1>0, <1>5, <2>2 DEF CommitRoleChange
  <2> QED
    BY <1>5, <2>3, RoleRequestStep DEF CommitRoleChange, NoRoleRequest
<1>6. ASSUME NEW s \in Requests, DropRoleChange(s) PROVE AccountsInv'
  BY <1>0, <1>6, RoleRequestStep DEF DropRoleChange, NoRoleRequest
<1> QED
  BY <1>1, <1>2, <1>3, <1>4, <1>5, <1>6 DEF AccountsNext

\* The accounts' invariant holds in every state.
LEMMA AccountsInvHolds == AccountsSpec => []AccountsInv
<1>1. (\E founders \in SUBSET Users : AccountsInit(founders)) => AccountsInv
  BY AccountsInitInv
<1> QED
  BY <1>1, AccountsStep, PTL DEF AccountsSpec

\* Accounts and requests about their roles hold values of their kind
\* (api/users.py).
THEOREM AccountsTypeCorrect == AccountsSpec => []AccountsTypeOK
BY AccountsInvHolds, PTL DEF AccountsInv

\* A request counted on somebody else, who is gone if its subject is alone.
LEMMA CountedOnIsGone == AccountsInv => LastAdminOnlyByRace
<1> SUFFICES ASSUME AccountsInv, NEW s \in Requests, Demotes(s), Admins = {roleRequest[s].of}
             PROVE  LookedAtNone(s) \/ \E u \in roleRequest[s].others : held[u] # "admin"
  BY DEF LastAdminOnlyByRace
<1>1. roleRequest[s].others \subseteq Users
  BY CheckedIsDecided DEF Demotes, AccountsInv, Decided
<1> QED
  BY <1>1 DEF Demotes, AccountsInv, DecidedOnOthers, LookedAtNone, Admins

\* However many requests change roles at once, one that takes the last
\* administrator was decided on another who was demoted since, or when there was
\* none (users.py:129-135).
THEOREM LastAdminGoesByARace == AccountsSpec => []LastAdminOnlyByRace
BY AccountsInvHolds, CountedOnIsGone, PTL

-----------------------------------------------------------------------------
(* Configuration.                                                          *)

\* An edited policy is a policy.
LEMMA OverIsPolicy ==
  ASSUME NEW r \in PolicyRecords, NEW c \in Edits
  PROVE  Over(r, c) \in PolicyRecords
<1>1. DOMAIN r = {"state", "rule", "active"}
  BY DEF PolicyRecords
<1>2. CASE c \in [rule : Rules]
  <2>1. DOMAIN c = {"rule"} /\ c.rule \in Rules
    BY <1>2
  <2>2. Over(r, c) = [state |-> r.state, rule |-> c.rule, active |-> r.active]
    BY <1>1, <2>1 DEF Over
  <2> QED
    BY <2>1, <2>2 DEF PolicyRecords
<1>3. CASE c \in [active : BOOLEAN]
  <2>1. DOMAIN c = {"active"} /\ c.active \in BOOLEAN
    BY <1>3
  <2>2. Over(r, c) = [state |-> r.state, rule |-> r.rule, active |-> c.active]
    BY <1>1, <2>1 DEF Over
  <2> QED
    BY <2>1, <2>2 DEF PolicyRecords
<1>4. CASE c \in [state : {"withdrawn"}]
  <2>1. DOMAIN c = {"state"} /\ c.state = "withdrawn"
    BY <1>4
  <2>2. Over(r, c) = [state |-> "withdrawn", rule |-> r.rule, active |-> r.active]
    BY <1>1, <2>1 DEF Over
  <2> QED
    BY <2>1, <2>2 DEF PolicyRecords
<1> QED
  BY <1>2, <1>3, <1>4 DEF Edits

\* A version more, after those there were.
LEMMA RecordedOn ==
  ASSUME NEW O, DOMAIN history = O, NEW o \in O, NEW K, history[o] \in Seq(K),
         NEW action, NEW snapshot, Recorded(o, action, snapshot), Entry(action, snapshot) \in K
  PROVE  /\ DOMAIN history' = O /\ \A q \in O \ {o} : history'[q] = history[q]
         /\ history'[o] \in Seq(K) /\ Len(history'[o]) = Len(history[o]) + 1
         /\ Len(history[o]) \in Nat /\ Len(history[o]) + 1 \in 1 .. MaxVersions
         /\ history'[o][Len(history[o]) + 1] = Entry(action, snapshot)
         /\ \A n \in 1 .. Len(history[o]) : history'[o][n] = history[o][n]
<1>1. history' = [history EXCEPT ![o] = Append(history[o], Entry(action, snapshot))]
  BY DEF Recorded
<1>2. history'[o] = Append(history[o], Entry(action, snapshot))
  BY <1>1
<1>3. Len(history[o]) \in Nat /\ Len(history[o]) < MaxVersions
  BY DEF Recorded
<1> QED
  BY <1>1, <1>2, <1>3, ConfigurationAssumption

VersionRecords == [action : PolicyActions, snapshot : PolicyRecords]
SettingRecords == [action : {"updated", "restored"}, snapshot : Shapes]

\* What was ever created has a version, and what is being changed was created.
CreatedHasVersion ==
  /\ \A p \in Policies : policy[p] # NoPolicy => Len(history[p]) > 0
  /\ \A s \in Sessions : session[s] # Idle => policy[session[s].of] # NoPolicy

\* A version that was not restored has one alert, which its actor did not review.
AlertedOnce ==
  /\ \A p \in Policies : \A n \in 1 .. Len(history[p]) :
       history[p][n].action # "restored" => \E a \in alerts : a.of = p /\ a.version = n
  /\ \A a \in alerts : a.version <= Len(history[a.of]) /\ a.reviewer # a.actor
  /\ \A a, b \in alerts : a.of = b.of /\ a.version = b.version => a = b

ConfigurationInv == ConfigurationTypeOK /\ CreatedHasVersion /\ LiveIsLatest /\ AlertedOnce

\* A tenant without policies keeps the invariant.
LEMMA ConfigurationInitInv == ConfigurationInit => ConfigurationInv
<1> SUFFICES ASSUME ConfigurationInit PROVE ConfigurationInv
  OBVIOUS
<1>1. \A o \in Policies \cup Singletons : history[o] = <<>>
  BY DEF ConfigurationInit
<1>2. ConfigurationTypeOK
  BY <1>1 DEF ConfigurationInit, ConfigurationTypeOK, VersionsOK
<1>3. CreatedHasVersion /\ LiveIsLatest
  BY <1>1 DEF ConfigurationInit, CreatedHasVersion, LiveIsLatest
<1>4. AlertedOnce
  BY <1>1 DEF ConfigurationInit, AlertedOnce
<1> QED
  BY <1>2, <1>3, <1>4 DEF ConfigurationInv

\* The versions of p are those there were, and e; other policies keep theirs.
Grew(p, e) ==
  /\ \A q \in Policies \ {p} : history'[q] = history[q]
  /\ Len(history'[p]) = Len(history[p]) + 1
  /\ Len(history[p]) \in Nat /\ Len(history[p]) + 1 \in 1 .. MaxVersions
  /\ history'[p][Len(history[p]) + 1] = e
  /\ \A n \in 1 .. Len(history[p]) : history'[p][n] = history[p][n]

\* A change of policy p to new, that is recorded as snap, keeps the versions and
\* what is live together.
LEMMA PolicyVersionStep ==
  ASSUME ConfigurationInv, NEW p \in Policies, NEW action \in PolicyActions,
         NEW new \in PolicyRecords, NEW snap \in PolicyRecords,
         policy' = [policy EXCEPT ![p] = new], Recorded(p, action, snap),
         p \notin overtaken' => [snap EXCEPT !.state = new.state] = new,
         overtaken' \subseteq Policies, overtaken \ {p} \subseteq overtaken',
         session' \in [Sessions -> OpenSessions \cup {Idle}],
         \A s \in Sessions : session'[s] \in {session[s], Idle},
         UNCHANGED <<value, refused>>
  PROVE  /\ alerts' \subseteq AlertRecords => ConfigurationTypeOK'
         /\ CreatedHasVersion' /\ LiveIsLatest' /\ Grew(p, Entry(action, snap))
<1> DEFINE O == Policies \cup Singletons
           Grows == /\ DOMAIN history' = O /\ \A q \in O \ {p} : history'[q] = history[q]
                    /\ history'[p] \in Seq(VersionRecords) /\ Len(history'[p]) = Len(history[p]) + 1
                    /\ Len(history[p]) \in Nat /\ Len(history[p]) + 1 \in 1 .. MaxVersions
                    /\ history'[p][Len(history[p]) + 1] = Entry(action, snap)
                    /\ \A n \in 1 .. Len(history[p]) : history'[p][n] = history[p][n]
<1>1. Grows
  <2>1. /\ DOMAIN history = O /\ p \in O /\ history[p] \in Seq(VersionRecords)
    BY DEF ConfigurationInv, ConfigurationTypeOK, VersionsOK, VersionRecords
  <2>2. Entry(action, snap) \in VersionRecords
    BY DEF Entry, VersionRecords
  <2> HIDE DEF O
  <2> QED
    BY <2>1, <2>2, RecordedOn
<1>2. /\ policy \in [Policies -> PolicyRecords \cup {NoPolicy}]
      /\ policy' \in [Policies -> PolicyRecords \cup {NoPolicy}]
      /\ \A q \in Policies : policy'[q] = IF q = p THEN new ELSE policy[q]
  BY DEF ConfigurationInv, ConfigurationTypeOK
<1>3. new # NoPolicy
  BY DEF PolicyRecords, NoPolicy
<1>4. Singletons \cap {p} = {}
  BY ConfigurationAssumption
<1>5. alerts' \subseteq AlertRecords => ConfigurationTypeOK'
  <2>1. VersionsOK'
    BY <1>1, <1>4 DEF VersionsOK, VersionRecords, ConfigurationInv, ConfigurationTypeOK
  <2> QED
    BY <1>1, <1>2, <2>1 DEF ConfigurationInv, ConfigurationTypeOK
<1>6. CreatedHasVersion'
  <2>1. \A q \in Policies : policy'[q] # NoPolicy => Len(history'[q]) > 0
    BY <1>1, <1>2 DEF ConfigurationInv, CreatedHasVersion
  <2>2. \A s \in Sessions : session'[s] # Idle => policy'[session'[s].of] # NoPolicy
    <3> SUFFICES ASSUME NEW s \in Sessions, session'[s] # Idle PROVE policy'[session'[s].of] # NoPolicy
      OBVIOUS
    <3>1. session'[s] = session[s] /\ session[s] \in OpenSessions
      BY DEF ConfigurationInv, ConfigurationTypeOK
    <3> QED
      BY <1>2, <1>3, <3>1 DEF ConfigurationInv, CreatedHasVersion, OpenSessions
  <2> QED
    BY <2>1, <2>2 DEF CreatedHasVersion
<1>7. LiveIsLatest'
  <2>1. LastOf(p)' = Entry(action, snap) /\ \A q \in O \ {p} : LastOf(q)' = LastOf(q)
    BY <1>1 DEF LastOf
  <2>2. ASSUME NEW q \in Policies \ overtaken', policy'[q] # NoPolicy
        PROVE  [LastOf(q)'.snapshot EXCEPT !.state = policy'[q].state] = policy'[q]
    <3>1. CASE q = p
      <4>1. LastOf(q)'.snapshot = snap /\ policy'[q] = new
        BY <1>2, <2>1, <3>1 DEF Entry
      <4> QED
        BY <2>2, <3>1, <4>1
    <3>2. CASE q # p
      <4>1. q \in Policies \ overtaken /\ policy'[q] = policy[q] /\ LastOf(q)' = LastOf(q)
        BY <1>2, <2>1, <3>2
      <4> QED
        BY <2>2, <4>1 DEF ConfigurationInv, LiveIsLatest
    <3> QED
      BY <3>1, <3>2
  <2>3. \A k \in Singletons : history'[k] # <<>> => LastOf(k)'.snapshot = value'[k]
    BY <1>1, <1>4, <2>1 DEF ConfigurationInv, LiveIsLatest
  <2> QED
    BY <2>2, <2>3 DEF LiveIsLatest
<1> QED
  BY <1>1, <1>5, <1>6, <1>7 DEF Grew

\* The alert of a new version is the only one of it.
LEMMA AlertStep ==
  ASSUME ConfigurationInv, NEW p \in Policies, NEW u \in Users, NEW e, Grew(p, e), Alert(p, u)
  PROVE  alerts' \subseteq AlertRecords /\ AlertedOnce'
<1> DEFINE n == Len(history[p]) + 1
           a == [of |-> p, version |-> n, actor |-> u, reviewer |-> NoUser]
<1>1. alerts \subseteq AlertRecords /\ AlertedOnce
  BY DEF ConfigurationInv, ConfigurationTypeOK
<1>2. n \in 1 .. MaxVersions /\ n = Len(history'[p]) /\ Len(history[p]) \in Nat
  BY DEF Grew
<1>3. a \in AlertRecords /\ a.of = p /\ a.version = n /\ a.reviewer # a.actor
  BY <1>2, NoUserAssumption DEF AlertRecords
<1>4. alerts' = alerts \cup {a}
  BY DEF Alert
<1>5. \A q \in Policies \ {p} : history'[q] = history[q]
  BY DEF Grew
<1>6. \A m \in 1 .. Len(history'[p]) : m # n => m \in 1 .. Len(history[p]) /\ history'[p][m] = history[p][m]
  BY <1>2 DEF Grew
<1>7. \A b \in alerts : b.of \in Policies /\ b.version \in Nat /\ (b.of = p => b.version # n)
  BY <1>1, <1>2 DEF AlertedOnce, AlertRecords
<1> HIDE DEF a, n
<1>8. \A q \in Policies : \A m \in 1 .. Len(history'[q]) :
        history'[q][m].action # "restored" => \E b \in alerts' : b.of = q /\ b.version = m
  BY <1>1, <1>3, <1>4, <1>5, <1>6 DEF AlertedOnce
<1>9. \A b \in alerts' : b.version <= Len(history'[b.of]) /\ b.reviewer # b.actor
  <2> SUFFICES ASSUME NEW b \in alerts' PROVE b.version <= Len(history'[b.of]) /\ b.reviewer # b.actor
    OBVIOUS
  <2>1. CASE b = a
    BY <1>2, <1>3, <2>1
  <2>2. CASE b \in alerts /\ b.of = p
    BY <1>1, <1>2, <1>7, <2>2 DEF AlertedOnce, n
  <2>3. CASE b \in alerts /\ b.of # p
    BY <1>1, <1>5, <1>7, <2>3 DEF AlertedOnce
  <2> QED
    BY <1>4, <2>1, <2>2, <2>3
<1>10. \A b, c \in alerts' : b.of = c.of /\ b.version = c.version => b = c
  BY <1>1, <1>3, <1>4, <1>7 DEF AlertedOnce
<1> QED
  BY <1>1, <1>3, <1>4, <1>8, <1>9, <1>10 DEF AlertedOnce

\* A restored version needs none.
LEMMA NoAlertStep ==
  ASSUME ConfigurationInv, NEW p \in Policies, NEW e, Grew(p, e), e.action = "restored",
         UNCHANGED alerts
  PROVE  AlertedOnce'
<1>1. alerts \subseteq AlertRecords /\ AlertedOnce
  BY DEF ConfigurationInv, ConfigurationTypeOK
<1>2. \A m \in 1 .. Len(history'[p]) :
        \/ history'[p][m].action = "restored"
        \/ m \in 1 .. Len(history[p]) /\ history'[p][m] = history[p][m]
  BY DEF Grew
<1>3. \A q \in Policies : Len(history[q]) = Len(history'[q]) \/ (q = p /\ Len(history'[q]) = Len(history[q]) + 1)
  BY DEF Grew
<1>4. \A b \in alerts : b.of \in Policies /\ b.version \in Nat
  BY <1>1 DEF AlertRecords
<1>5. \A b \in alerts : b.version <= Len(history'[b.of])
  <2> SUFFICES ASSUME NEW b \in alerts PROVE b.version <= Len(history'[b.of])
    OBVIOUS
  <2>1. CASE b.of = p
    BY <1>1, <1>4, <2>1 DEF AlertedOnce, Grew
  <2>2. CASE b.of # p
    BY <1>1, <1>3, <1>4, <2>2 DEF AlertedOnce
  <2> QED
    BY <2>1, <2>2
<1>6. \A q \in Policies : \A m \in 1 .. Len(history'[q]) :
        history'[q][m].action # "restored" => \E b \in alerts' : b.of = q /\ b.version = m
  BY <1>1, <1>2 DEF AlertedOnce, Grew
<1> QED
  BY <1>1, <1>5, <1>6 DEF AlertedOnce

\* A setting is what its last version says.
LEMMA SettingStep ==
  ASSUME ConfigurationInv, NEW k \in Singletons, NEW shape \in Shapes,
         NEW action \in {"updated", "restored"},
         value' = [value EXCEPT ![k] = shape], Recorded(k, action, shape),
         UNCHANGED <<policy, alerts, session, overtaken, refused>>
  PROVE  ConfigurationInv'
<1> DEFINE O == Policies \cup Singletons
<1>1. /\ DOMAIN history = O /\ k \in O /\ history[k] \in Seq(SettingRecords)
      /\ Entry(action, shape) \in SettingRecords
  BY DEF ConfigurationInv, ConfigurationTypeOK, VersionsOK, SettingRecords, Entry
<1>2. /\ DOMAIN history' = O /\ \A q \in O \ {k} : history'[q] = history[q]
      /\ history'[k] \in Seq(SettingRecords) /\ Len(history'[k]) = Len(history[k]) + 1
      /\ Len(history[k]) \in Nat
      /\ history'[k][Len(history[k]) + 1] = Entry(action, shape)
  <2> HIDE DEF O
  <2> QED
    BY <1>1, RecordedOn
<1>3. \A p \in Policies : history'[p] = history[p]
  BY <1>2, ConfigurationAssumption
<1>4. value' \in [Singletons -> Shapes \cup {"default"}]
  BY DEF ConfigurationInv, ConfigurationTypeOK
<1>5. VersionsOK'
  BY <1>2, <1>3 DEF VersionsOK, ConfigurationInv, ConfigurationTypeOK, SettingRecords
<1>6. ConfigurationTypeOK'
  BY <1>2, <1>4, <1>5 DEF ConfigurationInv, ConfigurationTypeOK
<1>7. LiveIsLatest'
  <2>1. LastOf(k)'.snapshot = value'[k]
    BY <1>2 DEF LastOf, Entry, ConfigurationInv, ConfigurationTypeOK
  <2>2. \A q \in O \ {k} : LastOf(q)' = LastOf(q)
    BY <1>2 DEF LastOf
  <2>3. \A j \in Singletons \ {k} : history'[j] # <<>> => LastOf(j)'.snapshot = value'[j]
    BY <1>2, <2>2 DEF ConfigurationInv, LiveIsLatest, ConfigurationTypeOK
  <2>4. \A p \in Policies : LastOf(p)' = LastOf(p)
    BY <1>3 DEF LastOf
  <2> QED
    BY <2>1, <2>3, <2>4 DEF ConfigurationInv, LiveIsLatest
<1>8. CreatedHasVersion' /\ AlertedOnce'
  <2>1. CreatedHasVersion'
    BY <1>3 DEF ConfigurationInv, CreatedHasVersion
  <2>2. \A a \in alerts : a.of \in Policies
    BY DEF ConfigurationInv, ConfigurationTypeOK, AlertRecords
  <2>3. AlertedOnce'
    BY <1>3, <2>2 DEF ConfigurationInv, AlertedOnce
  <2> QED
    BY <2>1, <2>3
<1> QED
  BY <1>6, <1>7, <1>8 DEF ConfigurationInv

\* The same policies, settings, versions and alerts agree as they did.
LEMMA SameAgree ==
  ASSUME LiveIsLatest, AlertedOnce, UNCHANGED <<policy, value, history, alerts, overtaken>>
  PROVE  LiveIsLatest' /\ AlertedOnce'
<1>1. \A p \in Policies \ overtaken : policy[p] # NoPolicy =>
        [LastOf(p).snapshot EXCEPT !.state = policy[p].state]' = policy'[p]
  BY DEF LiveIsLatest, LastOf
<1>2. \A k \in Singletons : history'[k] # <<>> => LastOf(k)'.snapshot = value'[k]
  BY DEF LiveIsLatest, LastOf
<1>3. AlertedOnce'
  BY DEF AlertedOnce
<1> QED
  BY <1>1, <1>2, <1>3 DEF LiveIsLatest

\* Only the sessions change: one is opened on a live policy, or ends.
LEMMA SessionStep ==
  ASSUME ConfigurationInv, NEW s \in Sessions, NEW t \in OpenSessions \cup {Idle},
         t # Idle => policy[t.of] # NoPolicy,
         session' = [session EXCEPT ![s] = t],
         UNCHANGED <<policy, value, history, alerts, overtaken, refused>>
  PROVE  ConfigurationInv'
<1>1. /\ session' \in [Sessions -> OpenSessions \cup {Idle}]
      /\ \A r \in Sessions : session'[r] = IF r = s THEN t ELSE session[r]
  BY DEF ConfigurationInv, ConfigurationTypeOK
<1>2. ConfigurationTypeOK' /\ LiveIsLatest' /\ AlertedOnce'
  BY <1>1, SameAgree DEF ConfigurationInv, ConfigurationTypeOK, VersionsOK
<1>3. CreatedHasVersion'
  BY <1>1 DEF ConfigurationInv, CreatedHasVersion
<1> QED
  BY <1>2, <1>3 DEF ConfigurationInv

\* A session that loads a policy changes nothing that is committed.
LEMMA LoadStep ==
  ASSUME ConfigurationInv, NEW s \in Sessions, NEW u \in Users, NEW p \in Policies,
         LoadForUpdate(s, u, p) \/ LoadForDelete(s, u, p)
  PROVE  ConfigurationInv'
<1>1. PICK set \in Edits : Loads(s, u, p, set)
  BY DEF LoadForUpdate, LoadForDelete, Edits
<1> DEFINE t == [of |-> p, by |-> u, loaded |-> policy[p], set |-> set]
<1>2. policy[p] \in PolicyRecords /\ policy[p] # NoPolicy
  BY <1>1 DEF Loads, ConfigurationInv, ConfigurationTypeOK, NoPolicy
<1>3. t \in OpenSessions /\ t.of = p
  BY <1>2 DEF OpenSessions
<1>4. session' = [session EXCEPT ![s] = t] /\ UNCHANGED <<policy, value, history, alerts, overtaken, refused>>
  BY <1>1 DEF Loads
<1> HIDE DEF t
<1> QED
  BY <1>2, <1>3, <1>4, SessionStep

\* A policy that is created starts with the version that says what it is.
LEMMA CreatePolicyStep ==
  ASSUME ConfigurationInv, NEW u \in Users, NEW p \in Policies, NEW rule \in Rules,
         CreatePolicy(u, p, rule)
  PROVE  ConfigurationInv'
<1> DEFINE new == [state |-> "live", rule |-> rule, active |-> TRUE]
<1>1. new \in PolicyRecords /\ [new EXCEPT !.state = new.state] = new
  BY DEF PolicyRecords
<1>2. /\ policy' = [policy EXCEPT ![p] = new] /\ Recorded(p, "created", new) /\ Alert(p, u)
      /\ UNCHANGED <<value, session, overtaken, refused>>
  BY DEF CreatePolicy
<1>3. overtaken \subseteq Policies /\ session \in [Sessions -> OpenSessions \cup {Idle}]
  BY DEF ConfigurationInv, ConfigurationTypeOK
<1> HIDE DEF new
<1>4. /\ alerts' \subseteq AlertRecords => ConfigurationTypeOK'
      /\ CreatedHasVersion' /\ LiveIsLatest' /\ Grew(p, Entry("created", new))
  BY <1>1, <1>2, <1>3, PolicyVersionStep DEF PolicyActions
<1>5. alerts' \subseteq AlertRecords /\ AlertedOnce'
  BY <1>2, <1>4, AlertStep
<1> QED
  BY <1>4, <1>5 DEF ConfigurationInv

\* What is recorded is what the policy becomes, if it is what was loaded.
LEMMA CommitPolicyStep ==
  ASSUME ConfigurationInv, NEW s \in Sessions, CommitPolicy(s)
  PROVE  ConfigurationInv'
<1> DEFINE t == session[s]
           p == t.of
           new == Over(policy[p], t.set)
           snap == Over(t.loaded, t.set)
           action == IF "state" \in DOMAIN t.set THEN "deleted" ELSE "updated"
<1>1. t \in OpenSessions /\ t # Idle
  BY DEF CommitPolicy, ConfigurationInv, ConfigurationTypeOK
<1>2. p \in Policies /\ t.by \in Users /\ t.loaded \in PolicyRecords /\ t.set \in Edits
  BY <1>1 DEF OpenSessions
<1>3. policy[p] \in PolicyRecords
  BY <1>1, <1>2 DEF ConfigurationInv, ConfigurationTypeOK, CreatedHasVersion
<1>4. /\ policy' = [policy EXCEPT ![p] = new] /\ Recorded(p, action, snap) /\ Alert(p, t.by)
      /\ UNCHANGED <<value, refused>>
  BY <1>2 DEF CommitPolicy, ConfigurationInv, ConfigurationTypeOK
<1>5. new \in PolicyRecords /\ snap \in PolicyRecords
  BY <1>2, <1>3, OverIsPolicy
<1>6. [new EXCEPT !.state = new.state] = new
  <2> HIDE DEF new
  <2> QED
    BY <1>5 DEF PolicyRecords
<1>7. overtaken' = IF t.loaded = policy[p] THEN overtaken \ {p} ELSE overtaken \cup {p}
  BY DEF CommitPolicy, Overtakes
<1>8. p \notin overtaken' => [snap EXCEPT !.state = new.state] = new
  <2> SUFFICES ASSUME p \notin overtaken' PROVE [snap EXCEPT !.state = new.state] = new
    OBVIOUS
  <2>1. t.loaded = policy[p]
    BY <1>7
  <2> QED
    BY <1>6, <2>1
<1>9. overtaken' \subseteq Policies /\ overtaken \ {p} \subseteq overtaken'
  BY <1>2, <1>7 DEF ConfigurationInv, ConfigurationTypeOK
<1>10. /\ session' \in [Sessions -> OpenSessions \cup {Idle}]
       /\ \A r \in Sessions : session'[r] \in {session[r], Idle}
  BY DEF CommitPolicy, Ends, ConfigurationInv, ConfigurationTypeOK
<1>11. action \in PolicyActions
  BY DEF PolicyActions
<1> HIDE DEF new, snap, action, p, t
<1>12. /\ alerts' \subseteq AlertRecords => ConfigurationTypeOK'
       /\ CreatedHasVersion' /\ LiveIsLatest' /\ Grew(p, Entry(action, snap))
  BY <1>2, <1>4, <1>5, <1>8, <1>9, <1>10, <1>11, PolicyVersionStep
<1>13. alerts' \subseteq AlertRecords /\ AlertedOnce'
  BY <1>2, <1>4, <1>12, AlertStep
<1> QED
  BY <1>12, <1>13 DEF ConfigurationInv

\* A restored policy is at a new version that repeats the old one.
LEMMA RestorePolicyStep ==
  ASSUME ConfigurationInv, NEW u \in Users, NEW p \in Policies, NEW n \in 1 .. MaxVersions,
         RestorePolicy(u, p, n)
  PROVE  ConfigurationInv'
<1>1. CASE policy[p].state # "live"
  <2>1. /\ refused' = refused \cup {p}
        /\ UNCHANGED <<policy, history, overtaken, value, alerts, session>>
    BY <1>1 DEF RestorePolicy
  <2> QED
    BY <2>1, SameAgree DEF ConfigurationInv, ConfigurationTypeOK, VersionsOK, CreatedHasVersion
<1>2. CASE policy[p].state = "live"
  <2> DEFINE old == [history[p][n].snapshot EXCEPT !.state = "live"]
  <2>0. history[p] \in Seq(VersionRecords) /\ n \in DOMAIN history[p]
    BY DEF RestorePolicy, ConfigurationInv, ConfigurationTypeOK, VersionsOK, VersionRecords
  <2>1. history[p][n] \in VersionRecords
    BY <2>0, ElementOfSeq
  <2>2. history[p][n].snapshot \in PolicyRecords
    BY <2>1 DEF VersionRecords
  <2>3. old \in PolicyRecords /\ [old EXCEPT !.state = old.state] = old
    BY <2>2 DEF PolicyRecords
  <2>4. /\ policy' = [policy EXCEPT ![p] = old] /\ Recorded(p, "restored", old)
        /\ overtaken' = overtaken \ {p} /\ UNCHANGED <<value, alerts, session, refused>>
    BY <1>2 DEF RestorePolicy
  <2>5. /\ overtaken \subseteq Policies /\ session \in [Sessions -> OpenSessions \cup {Idle}]
        /\ alerts \subseteq AlertRecords
    BY DEF ConfigurationInv, ConfigurationTypeOK
  <2> HIDE DEF old
  <2>6. /\ alerts' \subseteq AlertRecords => ConfigurationTypeOK'
        /\ CreatedHasVersion' /\ LiveIsLatest' /\ Grew(p, Entry("restored", old))
    BY <2>3, <2>4, <2>5, PolicyVersionStep DEF PolicyActions
  <2>7. AlertedOnce'
    BY <2>4, <2>6, NoAlertStep DEF Entry
  <2> QED
    BY <2>4, <2>5, <2>6, <2>7 DEF ConfigurationInv
<1> QED
  BY <1>1, <1>2

\* An alert is reviewed, and stays the one of its version.
LEMMA AcknowledgeStep ==
  ASSUME ConfigurationInv, NEW u \in Users, NEW a \in alerts, Acknowledge(u, a)
  PROVE  ConfigurationInv'
<1> DEFINE b == [a EXCEPT !.reviewer = u]
<1>1. a \in AlertRecords /\ alerts \subseteq AlertRecords
  BY DEF ConfigurationInv, ConfigurationTypeOK
<1>2. /\ b \in AlertRecords /\ b.of = a.of /\ b.version = a.version /\ b.actor = a.actor
      /\ b.reviewer = u
  BY <1>1 DEF AlertRecords
<1>3. /\ alerts' = (alerts \ {a}) \cup {b} /\ a.actor # u
      /\ UNCHANGED <<policy, value, history, session, overtaken, refused>>
  BY DEF Acknowledge
<1> HIDE DEF b
<1>4. AlertedOnce'
  BY <1>2, <1>3 DEF ConfigurationInv, AlertedOnce
<1>5. ConfigurationTypeOK'
  BY <1>1, <1>2, <1>3 DEF ConfigurationInv, ConfigurationTypeOK, VersionsOK
<1> QED
  BY <1>3, <1>4, <1>5 DEF ConfigurationInv, CreatedHasVersion, LiveIsLatest, LastOf

\* Every step of the configuration keeps the invariant.
LEMMA ConfigurationStep == ConfigurationInv /\ [ConfigurationNext]_configVars => ConfigurationInv'
<1> SUFFICES ASSUME ConfigurationInv, [ConfigurationNext]_configVars PROVE ConfigurationInv'
  OBVIOUS
<1>1. CASE UNCHANGED configVars
  BY <1>1, SameAgree
     DEF configVars, ConfigurationInv, ConfigurationTypeOK, VersionsOK, CreatedHasVersion
<1>2. ASSUME NEW s \in Sessions, AbortPolicy(s) PROVE ConfigurationInv'
  BY <1>2, SessionStep DEF AbortPolicy, Ends
<1>3. ASSUME NEW u \in Users, NEW k \in Singletons, NEW shape \in Shapes,
             UpdateSingleton(u, k, shape)
      PROVE  ConfigurationInv'
  BY <1>3, SettingStep DEF UpdateSingleton
<1>4. ASSUME NEW u \in Users, NEW k \in Singletons, NEW n \in 1 .. MaxVersions,
             RestoreSingleton(u, k, n)
      PROVE  ConfigurationInv'
  <2> DEFINE old == history[k][n].snapshot
  <2>0. history[k] \in Seq(SettingRecords) /\ n \in DOMAIN history[k]
    BY <1>4 DEF RestoreSingleton, ConfigurationInv, ConfigurationTypeOK, VersionsOK, SettingRecords
  <2>1. old \in Shapes
    <3>1. history[k][n] \in SettingRecords
      BY <2>0, ElementOfSeq
    <3> QED
      BY <3>1 DEF SettingRecords
  <2>2. /\ value' = [value EXCEPT ![k] = old] /\ Recorded(k, "restored", old)
        /\ UNCHANGED <<policy, alerts, session, overtaken, refused>>
    BY <1>4 DEF RestoreSingleton
  <2> HIDE DEF old
  <2> QED
    BY <2>1, <2>2, SettingStep
<1> QED
  BY <1>1, <1>2, <1>3, <1>4, CreatePolicyStep, LoadStep, CommitPolicyStep, RestorePolicyStep,
     AcknowledgeStep DEF ConfigurationNext

\* The configuration's invariant holds in every state.
LEMMA ConfigurationInvHolds == ConfigurationSpec => []ConfigurationInv
BY ConfigurationInitInv, ConfigurationStep, PTL DEF ConfigurationSpec

\* Policies, settings, versions, alerts and sessions hold values of their kind
\* (config_versioning.py, policy_service.py).
THEOREM ConfigurationTypeCorrect == ConfigurationSpec => []ConfigurationTypeOK
BY ConfigurationInvHolds, PTL DEF ConfigurationInv

\* With any number of sessions, the last version of a policy is what the policy
\* is unless it changed after the last change of it had been loaded, and the
\* last version of a setting always is (config_versioning.py:3-8).
THEOREM LastVersionIsLive == ConfigurationSpec => []LiveIsLatest
BY ConfigurationInvHolds, PTL DEF ConfigurationInv

\* Alerts that differ are of different versions, so each version has one.
LEMMA OneAlertEach == ConfigurationInv => ChangesReviewedByAnother
<1> SUFFICES ASSUME ConfigurationInv PROVE ChangesReviewedByAnother
  OBVIOUS
<1>1. ASSUME NEW p \in Policies, NEW n \in 1 .. MaxVersions, n \in DOMAIN history[p],
             history[p][n].action # "restored"
      PROVE  Cardinality({a \in alerts : a.of = p /\ a.version = n}) = 1
  <2>1. n \in 1 .. Len(history[p])
    BY <1>1 DEF ConfigurationInv, ConfigurationTypeOK, VersionsOK
  <2>2. PICK a \in alerts : a.of = p /\ a.version = n
    BY <1>1, <2>1 DEF ConfigurationInv, AlertedOnce
  <2>3. {b \in alerts : b.of = p /\ b.version = n} = {a}
    BY <2>2 DEF ConfigurationInv, AlertedOnce
  <2> QED
    BY <2>3, FS_Singleton
<1> QED
  BY <1>1 DEF ConfigurationInv, AlertedOnce, ChangesReviewedByAnother

\* Every creation, update and deletion of a policy has one alert, and nobody
\* reviews the alert of his own change (watchlist_service.py:156-163).
THEOREM RuleChangesAreReviewed == ConfigurationSpec => []ChangesReviewedByAnother
BY ConfigurationInvHolds, OneAlertEach, PTL

-----------------------------------------------------------------------------
(* SignIn: the account's values.                                           *)

\* An account starts with values of their kind.
LEMMA SignInInitType == SignInInit => SignInTypeOK
BY SignInAssumption DEF SignInInit, SignInTypeOK, Factors, Off, None, Challenge, NoRequest, VALID_WINDOW

\* A device holds no token, a challenge, or the version of now.
LEMMA HoldsType ==
  ASSUME SignInTypeOK, NEW d \in Devices, NEW t \in {Challenge, version}, Holds(d, t)
  PROVE  token' \in [Devices -> Challenge .. MaxVersion] /\ ended' \subseteq Devices
<1>1. t \in Challenge .. MaxVersion
  BY SignInAssumption DEF SignInTypeOK, Challenge
<1> QED
  BY <1>1 DEF SignInTypeOK, Holds

\* Beginning and committing the end of sessions keep values of their kind.
LEMMA EndingType ==
  ASSUME SignInTypeOK, NEW d \in Devices,
         (\E keeps \in BOOLEAN : BeginEnding(d, keeps)) \/ CommitEnding(d)
  PROVE  SignInTypeOK'
<1>1. ASSUME NEW keeps \in BOOLEAN, BeginEnding(d, keeps) PROVE SignInTypeOK'
  <2>1. [read |-> version, keeps |-> keeps] \in [read : -1 .. MaxVersion - 1, keeps : BOOLEAN]
    BY <1>1, SignInAssumption DEF SignInTypeOK, BeginEnding
  <2> QED
    BY <1>1, <2>1 DEF SignInTypeOK, BeginEnding
<1>2. CASE CommitEnding(d)
  <2>1. request[d].read + 1 \in 0 .. MaxVersion
    BY SignInAssumption DEF SignInTypeOK
  <2>2. request[d].read + 1 \in Challenge .. MaxVersion
    BY <2>1, SignInAssumption DEF Challenge
  <2>3. token' \in [Devices -> Challenge .. MaxVersion] /\ version' \in 0 .. MaxVersion
    BY <1>2, <2>1, <2>2 DEF SignInTypeOK, CommitEnding
  <2>4. NoRequest \in [read : -1 .. MaxVersion - 1, keeps : BOOLEAN]
    BY SignInAssumption DEF NoRequest
  <2>5. request' \in [Devices -> [read : -1 .. MaxVersion - 1, keeps : BOOLEAN]] /\ ended' \subseteq Devices
    BY <1>2, <2>4 DEF SignInTypeOK, CommitEnding
  <2> QED
    BY <1>2, <2>3, <2>5 DEF SignInTypeOK, CommitEnding
<1> QED
  BY <1>1, <1>2

\* A code is a time step or a recovery code, and not both.
LEMMA AcceptsCode ==
  ASSUME SignInTypeOK, NEW code \in Codes
  PROVE  /\ code \in RecoveryCodes => code \notin Nat
         /\ code \notin RecoveryCodes => code \in 0 .. MaxClock + VALID_WINDOW
         /\ code \in Current => code \notin RecoveryCodes
<1>1. clock \in Nat
  BY SignInAssumption DEF SignInTypeOK
<1>2. Current \subseteq Nat
  BY <1>1 DEF Current, VALID_WINDOW
<1>3. RecoveryCodes \cap Nat = {}
  BY SignInAssumption
<1>4. code \in (0 .. MaxClock + VALID_WINDOW) \cup RecoveryCodes
  BY DEF Codes
<1> QED
  BY <1>2, <1>3, <1>4

\* The count of one code of the secret goes up by one, or starts again.
LEMMA CountedType ==
  ASSUME SignInTypeOK, NEW code \in Codes, second.secret # 0, Counted(code)
  PROVE  /\ accepted' \in [1 .. MaxSecrets -> [Codes -> Nat]]
         /\ \A s \in 1 .. MaxSecrets, c \in Codes :
              accepted'[s][c] = IF s = second.secret /\ c = code THEN accepted[s][c] + 1
                                                                 ELSE accepted[s][c]
<1> DEFINE n == second.secret
           row == [accepted[n] EXCEPT ![code] = accepted[n][code] + 1]
<1>1. n \in 1 .. MaxSecrets
  BY SignInAssumption DEF SignInTypeOK, Factors
<1>2. accepted' = [accepted EXCEPT ![n] = row]
  BY <1>1 DEF Counted, SignInTypeOK
<1>3. row \in [Codes -> Nat] /\ \A c \in Codes : row[c] = IF c = code THEN accepted[n][c] + 1 ELSE accepted[n][c]
  BY <1>1 DEF SignInTypeOK
<1> HIDE DEF row, n
<1>4. \A s \in 1 .. MaxSecrets : accepted'[s] = IF s = n THEN row ELSE accepted[s]
  BY <1>2 DEF SignInTypeOK
<1> QED
  BY <1>1, <1>2, <1>3, <1>4 DEF SignInTypeOK, n

-----------------------------------------------------------------------------
(* SignIn: the second factor.                                              *)

TimeCodes == Codes \ RecoveryCodes

\* The first k secrets were confirmed, each with a code of the authenticator,
\* no code of another was accepted, and the secret of now is the last of them
\* if the factor is on and the next if it is being enrolled.
Enrolled(k) ==
  /\ \A s \in 1 .. k : \E c \in TimeCodes : accepted[s][c] > 0
  /\ \A s \in (k + 1) .. MaxSecrets : \A c \in Codes : accepted[s][c] = 0
  /\ second.secret \in {0, IF second.on THEN k ELSE k + 1}

\* What was accepted of the secret of now is not accepted again.
SpentForGood ==
  second.on =>
    /\ \A c \in TimeCodes : accepted[second.secret][c] > 0 => c <= second.last
    /\ \A c \in recovery : accepted[second.secret][c] = 0

FactorInv ==
  /\ \E k \in 0 .. MaxSecrets : Enrolled(k)
  /\ SpentForGood
  /\ \A s \in 1 .. MaxSecrets, c \in Codes : accepted[s][c] <= 1

SignInInv == SignInTypeOK /\ FactorInv

\* The secrets that were ever used are counted right.
LEMMA LatestIs ==
  ASSUME SignInTypeOK, NEW k \in 0 .. MaxSecrets, Enrolled(k)
  PROVE  Latest = k
<1>1. {s \in 1 .. MaxSecrets : \E c \in Codes : accepted[s][c] > 0} = 1 .. k
  <2>1. \A s \in 1 .. k : s \in 1 .. MaxSecrets /\ \E c \in Codes : accepted[s][c] > 0
    BY SignInAssumption DEF Enrolled, TimeCodes
  <2>2. \A s \in 1 .. MaxSecrets : (\E c \in Codes : accepted[s][c] > 0) => s \in 1 .. k
    <3> SUFFICES ASSUME NEW s \in 1 .. MaxSecrets, s \notin 1 .. k
                 PROVE  \A c \in Codes : ~(accepted[s][c] > 0)
      OBVIOUS
    <3>1. s \in (k + 1) .. MaxSecrets
      BY SignInAssumption
    <3> QED
      BY <3>1 DEF Enrolled
  <2> QED
    BY <2>1, <2>2
<1>2. Cardinality(1 .. k) = k
  BY FS_Interval, SignInAssumption
<1> QED
  BY <1>1, <1>2 DEF Latest

\* An account without a second factor keeps the factor's invariant.
LEMMA SignInInitFactor == SignInInit => FactorInv
<1> SUFFICES ASSUME SignInInit PROVE FactorInv
  OBVIOUS
<1>1. Enrolled(0) /\ 0 \in 0 .. MaxSecrets
  BY SignInAssumption DEF SignInInit, Enrolled, Off
<1> QED
  BY <1>1 DEF SignInInit, FactorInv, SpentForGood, Off

\* The parts of a second factor, each of its kind.
LEMMA FactorIs ==
  ASSUME second \in Factors, second.on => second.secret # 0
  PROVE  /\ second.on \in BOOLEAN /\ second.secret \in 0 .. MaxSecrets /\ second.last \in Int
         /\ second.on => second.secret \in 1 .. MaxSecrets
BY SignInAssumption DEF Factors, None, VALID_WINDOW

\* A code is accepted, and the factor stays on or goes off.
LEMMA AcceptStep ==
  ASSUME SignInInv, NEW code \in Codes, second.on, Accepts(code), Counted(code),
         SignInTypeOK',
         second'.on => /\ second'.secret = second.secret
                       /\ second'.last = IF code \in RecoveryCodes THEN second.last ELSE code
                       /\ recovery' = recovery \ {code},
         ~second'.on => second'.secret = 0
  PROVE  FactorInv'
<1> DEFINE n == second.secret
<1>1. /\ n \in 1 .. MaxSecrets /\ second.last \in Int
      /\ accepted \in [1 .. MaxSecrets -> [Codes -> Nat]]
  BY FactorIs DEF SignInInv, SignInTypeOK
<1>2. \A s \in 1 .. MaxSecrets, c \in Codes :
        accepted'[s][c] = IF s = n /\ c = code THEN accepted[s][c] + 1 ELSE accepted[s][c]
  BY CountedType DEF SignInInv, SignInTypeOK
<1>3. accepted[n][code] = 0
  <2>1. CASE code \in RecoveryCodes
    BY <2>1 DEF Accepts, SignInInv, FactorInv, SpentForGood
  <2>2. CASE code \notin RecoveryCodes
    <3>1. code \in TimeCodes /\ code \in Int /\ code > second.last
      BY <2>2, AcceptsCode DEF SignInInv, TimeCodes, Accepts, VerifyCode, VALID_WINDOW
    <3>2. ~(accepted[n][code] > 0)
      BY <1>1, <3>1 DEF SignInInv, FactorInv, SpentForGood
    <3> QED
      BY <1>1, <3>1, <3>2
  <2> QED
    BY <2>1, <2>2
<1>4. PICK k \in 0 .. MaxSecrets : Enrolled(k)
  BY DEF SignInInv, FactorInv
<1>5. n = k
  BY <1>1, <1>4 DEF Enrolled
<1>6. Enrolled(k)'
  <2>1. \A s \in 1 .. k : \E c \in TimeCodes : accepted'[s][c] > 0
    <3> SUFFICES ASSUME NEW s \in 1 .. k PROVE \E c \in TimeCodes : accepted'[s][c] > 0
      OBVIOUS
    <3>1. PICK c \in TimeCodes : accepted[s][c] > 0
      BY <1>4 DEF Enrolled
    <3>2. s \in 1 .. MaxSecrets /\ c \in Codes /\ accepted[s][c] \in Nat
      BY <1>1, SignInAssumption DEF TimeCodes
    <3> QED
      BY <1>2, <3>1, <3>2
  <2>2. \A s \in (k + 1) .. MaxSecrets : \A c \in Codes : accepted'[s][c] = 0
    BY <1>2, <1>4, <1>5, SignInAssumption DEF Enrolled
  <2>3. second'.secret \in {0, IF second'.on THEN k ELSE k + 1}
    BY <1>5
  <2> QED
    BY <2>1, <2>2, <2>3 DEF Enrolled, TimeCodes
<1>7. \A s \in 1 .. MaxSecrets, c \in Codes : accepted'[s][c] <= 1
  BY <1>2, <1>3 DEF SignInInv, FactorInv
<1>8. SpentForGood'
  <2> SUFFICES ASSUME second'.on
               PROVE /\ \A c \in TimeCodes : accepted'[n][c] > 0 => c <= second'.last
                     /\ \A c \in recovery' : accepted'[n][c] = 0
    BY DEF SpentForGood, TimeCodes
  <2>1. \A c \in recovery' : c \in Codes /\ c # code /\ accepted[n][c] = 0
    BY DEF SignInInv, SignInTypeOK, FactorInv, SpentForGood, Codes
  <2>2. \A c \in TimeCodes : c \in Int /\ (accepted[n][c] > 0 => c <= second.last)
    BY AcceptsCode DEF SignInInv, FactorInv, SpentForGood, TimeCodes
  <2>3. ASSUME NEW c \in TimeCodes, accepted'[n][c] > 0 PROVE c <= second'.last
    <3>1. CASE c = code
      BY <2>2, <3>1 DEF TimeCodes
    <3>2. CASE c # code
      <4>1. c <= second.last
        BY <1>1, <1>2, <2>2, <2>3, <3>2 DEF TimeCodes
      <4>2. CASE code \in RecoveryCodes
        BY <4>1, <4>2
      <4>3. CASE code \notin RecoveryCodes
        <5>1. code > second.last /\ code \in Int
          BY <4>3, AcceptsCode DEF Accepts, VerifyCode, SignInInv, VALID_WINDOW
        <5> QED
          BY <1>1, <2>2, <4>1, <4>3, <5>1
      <4> QED
        BY <4>2, <4>3
    <3> QED
      BY <3>1, <3>2
  <2> QED
    BY <1>1, <1>2, <2>1, <2>3
<1> QED
  BY <1>4, <1>6, <1>7, <1>8 DEF FactorInv

\* The factor is as before, but that codes may be gone.
LEMMA FactorSame ==
  ASSUME SignInInv, UNCHANGED accepted, recovery' \subseteq recovery,
         \/ second'.on = second.on /\ second'.secret = second.secret /\ second'.last = second.last
         \/ ~second'.on /\ second'.secret = 0
  PROVE  FactorInv'
<1>1. PICK k \in 0 .. MaxSecrets : Enrolled(k)
  BY DEF SignInInv, FactorInv
<1>2. Enrolled(k)'
  BY <1>1 DEF Enrolled
<1>3. SpentForGood'
  BY DEF SignInInv, FactorInv, SpentForGood
<1> QED
  BY <1>2, <1>3 DEF SignInInv, FactorInv

\* A new secret is one no code was ever counted for.
LEMMA BeginEnrolmentStep ==
  ASSUME SignInInv, NEW d \in Devices, BeginEnrolment(d)
  PROVE  SignInTypeOK' /\ FactorInv'
<1>1. PICK k \in 0 .. MaxSecrets : Enrolled(k)
  BY DEF SignInInv, FactorInv
<1>2. Latest = k /\ k < MaxSecrets
  BY <1>1, LatestIs DEF BeginEnrolment, SignInInv
<1>3. second' = [on |-> FALSE, secret |-> k + 1, last |-> None, failed |-> 0]
  BY <1>2 DEF BeginEnrolment, Off
<1>4. second' \in Factors /\ ~second'.on /\ second'.secret = k + 1
  BY <1>2, <1>3, SignInAssumption DEF Factors, None, VALID_WINDOW
<1>5. UNCHANGED <<version, token, ended, request, recovery, clock, accepted>>
  BY DEF BeginEnrolment, sessions
<1>6. SignInTypeOK'
  BY <1>4, <1>5 DEF SignInInv, SignInTypeOK
<1>7. Enrolled(k)' /\ SpentForGood'
  BY <1>1, <1>4, <1>5 DEF Enrolled, SpentForGood
<1> QED
  BY <1>5, <1>6, <1>7 DEF SignInInv, FactorInv

\* The next secret becomes one that was confirmed.
LEMMA ConfirmStep ==
  ASSUME SignInInv, NEW d \in Devices, NEW code \in Codes, ConfirmEnrolment(d, code)
  PROVE  SignInTypeOK' /\ FactorInv'
<1> DEFINE n == second.secret
<1>1. PICK k \in 0 .. MaxSecrets : Enrolled(k)
  BY DEF SignInInv, FactorInv
<1>2. /\ second \in Factors /\ ~second.on /\ n # 0 /\ n \in 0 .. MaxSecrets
      /\ accepted \in [1 .. MaxSecrets -> [Codes -> Nat]]
  BY FactorIs DEF SignInInv, SignInTypeOK, ConfirmEnrolment
<1>3. n = k + 1 /\ n \in 1 .. MaxSecrets
  BY <1>1, <1>2, SignInAssumption DEF Enrolled
<1>4. code \in TimeCodes /\ code \in 0 .. MaxClock + VALID_WINDOW
  BY AcceptsCode DEF ConfirmEnrolment, SignInInv, TimeCodes
<1>5. second' = [second EXCEPT !.on = TRUE, !.last = code, !.failed = 0]
  BY DEF ConfirmEnrolment
<1>6. code \in None .. MaxClock + VALID_WINDOW /\ 0 \in 0 .. MAX_FAILED_ATTEMPTS
  BY <1>4, SignInAssumption DEF None, VALID_WINDOW
<1>7. second' \in Factors /\ second'.on /\ second'.secret = n /\ second'.last = code
  BY <1>2, <1>5, <1>6 DEF Factors
<1>8. /\ accepted' \in [1 .. MaxSecrets -> [Codes -> Nat]]
      /\ \A s \in 1 .. MaxSecrets, c \in Codes :
           accepted'[s][c] = IF s = n /\ c = code THEN accepted[s][c] + 1 ELSE accepted[s][c]
  BY <1>2, CountedType DEF SignInInv, ConfirmEnrolment
<1>9. SignInTypeOK'
  BY <1>2, <1>7, <1>8 DEF ConfirmEnrolment, sessions, SignInInv, SignInTypeOK
<1>10. \A c \in Codes : accepted[n][c] = 0
  BY <1>1, <1>3 DEF Enrolled
<1>11. Enrolled(k + 1)'
  <2>1. \A s \in 1 .. n : \E c \in TimeCodes : accepted'[s][c] > 0
    <3> SUFFICES ASSUME NEW s \in 1 .. n PROVE \E c \in TimeCodes : accepted'[s][c] > 0
      OBVIOUS
    <3>1. CASE s = n
      BY <1>3, <1>4, <1>8, <1>10, <3>1 DEF TimeCodes
    <3>2. CASE s # n
      <4>1. s \in 1 .. k
        BY <1>3, <3>2
      <4>2. PICK c \in TimeCodes : accepted[s][c] > 0
        BY <1>1, <4>1 DEF Enrolled
      <4>3. s \in 1 .. MaxSecrets
        BY <1>3, SignInAssumption
      <4> QED
        BY <1>8, <3>2, <4>2, <4>3 DEF TimeCodes
    <3> QED
      BY <3>1, <3>2
  <2>2. \A s \in (n + 1) .. MaxSecrets : \A c \in Codes : accepted'[s][c] = 0
    <3> SUFFICES ASSUME NEW s \in (n + 1) .. MaxSecrets PROVE \A c \in Codes : accepted'[s][c] = 0
      OBVIOUS
    <3>1. s \in (k + 1) .. MaxSecrets /\ s \in 1 .. MaxSecrets /\ s # n
      BY <1>3, SignInAssumption
    <3> QED
      BY <1>1, <1>8, <3>1 DEF Enrolled
  <2> QED
    BY <1>3, <1>7, <2>1, <2>2 DEF Enrolled, TimeCodes
<1>12. \A s \in 1 .. MaxSecrets, c \in Codes : accepted'[s][c] <= 1
  BY <1>8, <1>10 DEF SignInInv, FactorInv
<1>13. SpentForGood'
  <2>1. \A c \in TimeCodes : accepted'[n][c] > 0 => c = code
    BY <1>3, <1>8, <1>10 DEF TimeCodes
  <2>2. \A c \in recovery' : c \in Codes /\ c # code
    BY <1>4 DEF ConfirmEnrolment, Codes, TimeCodes
  <2>3. \A c \in recovery' : accepted'[n][c] = 0
    BY <1>3, <1>8, <1>10, <2>2
  <2> QED
    BY <1>4, <1>7, <2>1, <2>3 DEF SpentForGood, TimeCodes, VALID_WINDOW
<1>14. k + 1 \in 0 .. MaxSecrets
  BY <1>3, SignInAssumption
<1> QED
  BY <1>9, <1>11, <1>12, <1>13, <1>14 DEF FactorInv

\* The recovery codes start again; one code of the authenticator may count.
LEMMA RegenerateStep ==
  ASSUME SignInInv, NEW d \in Devices, NEW code \in Codes, RegenerateCodes(d, code)
  PROVE  SignInTypeOK' /\ FactorInv'
<1> DEFINE n == second.secret
           Row(f) == [c \in Codes |-> IF c \in RecoveryCodes THEN 0
                                      ELSE f[c] + (IF c = code THEN 1 ELSE 0)]
<1>1. PICK k \in 0 .. MaxSecrets : Enrolled(k)
  BY DEF SignInInv, FactorInv
<1>2. /\ second \in Factors /\ second.on /\ n \in 1 .. MaxSecrets /\ n = k /\ second.last \in Int
      /\ accepted \in [1 .. MaxSecrets -> [Codes -> Nat]]
  BY <1>1, FactorIs DEF SignInInv, SignInTypeOK, RegenerateCodes, Enrolled
<1>3. accepted' = [accepted EXCEPT ![n] = Row(accepted[n])]
  BY DEF RegenerateCodes
<1>4. Row(accepted[n]) \in [Codes -> Nat]
  BY <1>2
<1>5. /\ accepted' \in [1 .. MaxSecrets -> [Codes -> Nat]]
      /\ \A s \in 1 .. MaxSecrets : accepted'[s] = IF s = n THEN Row(accepted[n]) ELSE accepted[s]
  <2> HIDE DEF Row, n
  <2> QED
    BY <1>2, <1>3, <1>4
<1>6. /\ \A s \in 1 .. MaxSecrets \ {n} : accepted'[s] = accepted[s]
      /\ \A c \in RecoveryCodes : accepted'[n][c] = 0
      /\ \A c \in TimeCodes : accepted'[n][c] = IF c = code THEN accepted[n][c] + 1 ELSE accepted[n][c]
  <2>1. \A c \in Codes : accepted'[n][c] = IF c \in RecoveryCodes THEN 0
                                           ELSE accepted[n][c] + (IF c = code THEN 1 ELSE 0)
    BY <1>2, <1>5
  <2>2. RecoveryCodes \subseteq Codes /\ TimeCodes \subseteq Codes
    BY DEF TimeCodes, Codes
  <2>3. \A c \in TimeCodes : c \notin RecoveryCodes /\ accepted[n][c] \in Nat
    BY <1>2, <2>2 DEF TimeCodes
  <2> HIDE DEF Row
  <2> QED
    BY <1>5, <2>1, <2>2, <2>3
<1>7. code \notin RecoveryCodes =>
        code \in TimeCodes /\ code \in 0 .. MaxClock + VALID_WINDOW /\ code > second.last
  BY AcceptsCode DEF SignInInv, RegenerateCodes, Accepts, VerifyCode, TimeCodes
<1>8. code \notin RecoveryCodes => accepted[n][code] = 0
  <2> SUFFICES ASSUME code \notin RecoveryCodes PROVE accepted[n][code] = 0
    OBVIOUS
  <2>1. ~(accepted[n][code] > 0)
    BY <1>2, <1>7 DEF SignInInv, FactorInv, SpentForGood, VALID_WINDOW
  <2> QED
    BY <1>2, <1>7, <2>1
<1>9. second' \in Factors /\ second'.on /\ second'.secret = n
      /\ second'.last = IF code \in RecoveryCodes THEN second.last ELSE code
  <2>1. code \notin RecoveryCodes => code \in None .. MaxClock + VALID_WINDOW
    BY <1>7, SignInAssumption DEF None, VALID_WINDOW
  <2>2. second' = [second EXCEPT !.last = IF code \in RecoveryCodes THEN second.last ELSE code]
    BY DEF RegenerateCodes
  <2> QED
    BY <1>2, <2>1, <2>2 DEF Factors
<1>10. SignInTypeOK'
  BY <1>2, <1>5, <1>9 DEF RegenerateCodes, sessions, SignInInv, SignInTypeOK
<1>11. Enrolled(k)'
  <2>1. \A s \in 1 .. k : \E c \in TimeCodes : accepted'[s][c] > 0
    <3> SUFFICES ASSUME NEW s \in 1 .. k PROVE \E c \in TimeCodes : accepted'[s][c] > 0
      OBVIOUS
    <3>1. PICK c \in TimeCodes : accepted[s][c] > 0
      BY <1>1 DEF Enrolled
    <3>2. s \in 1 .. MaxSecrets /\ c \in Codes /\ accepted[s][c] \in Nat
      BY <1>2, SignInAssumption DEF TimeCodes
    <3> QED
      BY <1>6, <3>1, <3>2
  <2>2. \A s \in (k + 1) .. MaxSecrets : \A c \in Codes : accepted'[s][c] = 0
    BY <1>1, <1>2, <1>6, SignInAssumption DEF Enrolled
  <2> QED
    BY <1>2, <1>9, <2>1, <2>2 DEF Enrolled, TimeCodes
<1>12. \A s \in 1 .. MaxSecrets, c \in Codes : accepted'[s][c] <= 1
  <2> SUFFICES ASSUME NEW s \in 1 .. MaxSecrets, NEW c \in Codes PROVE accepted'[s][c] <= 1
    OBVIOUS
  <2>1. accepted[s][c] <= 1 /\ accepted[s][c] \in Nat
    BY <1>2 DEF SignInInv, FactorInv
  <2>2. CASE s # n
    BY <1>6, <2>1, <2>2
  <2>3. CASE s = n /\ c \in RecoveryCodes
    BY <1>6, <2>3
  <2>4. CASE s = n /\ c \in TimeCodes
    BY <1>6, <1>8, <2>1, <2>4 DEF TimeCodes
  <2> QED
    BY <2>2, <2>3, <2>4 DEF TimeCodes
<1>13. SpentForGood'
  <2>1. \A c \in recovery' : accepted'[n][c] = 0
    BY <1>6 DEF RegenerateCodes
  <2>2. ASSUME NEW c \in TimeCodes, accepted'[n][c] > 0 PROVE c <= second'.last
    <3>1. c \in Int /\ (accepted[n][c] > 0 => c <= second.last)
      BY <1>2, AcceptsCode DEF SignInInv, FactorInv, SpentForGood, TimeCodes, VALID_WINDOW
    <3>2. CASE c = code
      BY <1>9, <3>1, <3>2 DEF TimeCodes
    <3>3. CASE c # code
      <4>1. c <= second.last
        BY <1>6, <2>2, <3>1, <3>3
      <4> QED
        BY <1>2, <1>7, <1>9, <3>1, <4>1 DEF VALID_WINDOW
    <3> QED
      BY <3>2, <3>3
  <2> QED
    BY <1>9, <2>1, <2>2 DEF SpentForGood, TimeCodes
<1> QED
  BY <1>10, <1>11, <1>12, <1>13 DEF FactorInv

\* The challenge is answered with a code.
LEMMA VerifyStep ==
  ASSUME SignInInv, NEW d \in Devices, NEW code \in Codes, Verify(d, code)
  PROVE  SignInTypeOK' /\ FactorInv'
<1>1. /\ second \in Factors /\ second.on /\ second.secret # 0 /\ Accepts(code) /\ Counted(code)
  BY DEF Verify, Spend, SignInInv, SignInTypeOK
<1>2. accepted' \in [1 .. MaxSecrets -> [Codes -> Nat]]
  BY <1>1, CountedType DEF SignInInv
<1>3. second' \in Factors /\ second'.on /\ second'.secret = second.secret
      /\ second'.last = IF code \in RecoveryCodes THEN second.last ELSE code
  <2>1. code \notin RecoveryCodes => code \in None .. MaxClock + VALID_WINDOW
    BY AcceptsCode, SignInAssumption DEF None, VALID_WINDOW, SignInInv
  <2> DEFINE last == IF code \in RecoveryCodes THEN second.last ELSE code
  <2>2. second' = [second EXCEPT !.failed = 0, !.last = last]
    BY DEF Verify, Spend
  <2>3. last \in None .. MaxClock + VALID_WINDOW /\ 0 \in 0 .. MAX_FAILED_ATTEMPTS
    BY <1>1, <2>1, SignInAssumption DEF Factors
  <2> HIDE DEF last
  <2>4. second' \in Factors /\ second'.on /\ second'.secret = second.secret /\ second'.last = last
    BY <1>1, <2>2, <2>3 DEF Factors
  <2> QED
    BY <2>4 DEF last
<1>4. token' \in [Devices -> Challenge .. MaxVersion] /\ ended' \subseteq Devices
  BY HoldsType DEF Verify, SignInInv
<1>5. SignInTypeOK'
  BY <1>1, <1>2, <1>3, <1>4 DEF Verify, Spend, SignInInv, SignInTypeOK
<1>6. recovery' = recovery \ {code}
  BY DEF Verify, Spend
<1> QED
  BY <1>1, <1>3, <1>5, <1>6, AcceptStep

\* Whoever turns the factor off spends the code and leaves no secret.
LEMMA DisableStep ==
  ASSUME SignInInv, NEW d \in Devices, NEW code \in Codes, Disable(d, code)
  PROVE  SignInTypeOK' /\ FactorInv'
<1>1. /\ second \in Factors /\ second.on /\ second.secret # 0 /\ Accepts(code) /\ Counted(code)
  BY DEF Disable, SignInInv, SignInTypeOK
<1>2. accepted' \in [1 .. MaxSecrets -> [Codes -> Nat]]
  BY <1>1, CountedType DEF SignInInv
<1>3. second' \in Factors /\ ~second'.on /\ second'.secret = 0
  BY SignInAssumption DEF Disable, Off, Factors, None, VALID_WINDOW
<1>4. SignInTypeOK'
  BY <1>2, <1>3 DEF Disable, sessions, SignInInv, SignInTypeOK
<1> QED
  BY <1>1, <1>3, <1>4, AcceptStep

\* Every step of an account keeps the types and the factor's invariant.
LEMMA SignInStep == SignInInv /\ [SignInNext]_signVars => SignInInv'
<1> SUFFICES ASSUME SignInInv, [SignInNext]_signVars PROVE SignInInv'
  OBVIOUS
<1>1. CASE UNCHANGED signVars
  <2>1. SignInTypeOK'
    BY <1>1 DEF signVars, SignInInv, SignInTypeOK
  <2> QED
    BY <1>1, <2>1, FactorSame DEF signVars, SignInInv
<1>2. ASSUME NEW d \in Devices, Login(d) \/ TokenLogin(d) PROVE SignInInv'
  <2>1. PICK t \in {Challenge, version} : Holds(d, t)
    BY <1>2 DEF Login, TokenLogin
  <2>2. UNCHANGED <<version, request, second, recovery, clock, accepted>>
    BY <1>2 DEF Login, TokenLogin
  <2>3. SignInTypeOK'
    BY <2>1, <2>2, HoldsType DEF SignInInv, SignInTypeOK
  <2> QED
    BY <2>2, <2>3, FactorSame DEF SignInInv
<1>3. ASSUME NEW d \in Devices, (\E keeps \in BOOLEAN : BeginEnding(d, keeps)) \/ CommitEnding(d)
      PROVE  SignInInv'
  <2>1. SignInTypeOK' /\ UNCHANGED <<second, recovery, clock, accepted>>
    BY <1>3, EndingType DEF BeginEnding, CommitEnding, SignInInv
  <2> QED
    BY <2>1, FactorSame DEF SignInInv
<1>4. ASSUME NEW d \in Devices, WrongCode(d) PROVE SignInInv'
  <2>1. second.failed + 1 \in 0 .. MAX_FAILED_ATTEMPTS
    BY <1>4, SignInAssumption DEF WrongCode, SignInInv, SignInTypeOK, Factors
  <2>2. second' = [second EXCEPT !.failed = second.failed + 1]
    BY <1>4 DEF WrongCode
  <2>3. /\ second' \in Factors /\ second'.on = second.on /\ second'.secret = second.secret
        /\ second'.last = second.last
    BY <2>1, <2>2 DEF SignInInv, SignInTypeOK, Factors
  <2>4. UNCHANGED <<version, token, ended, request, recovery, clock, accepted>>
    BY <1>4 DEF WrongCode, sessions
  <2>5. SignInTypeOK'
    BY <2>3, <2>4 DEF SignInInv, SignInTypeOK
  <2> QED
    BY <2>3, <2>4, <2>5, FactorSame DEF SignInInv
<1>5. CASE ResetFactor
  <2>1. second' \in Factors /\ ~second'.on /\ second'.secret = 0
    BY <1>5, SignInAssumption DEF ResetFactor, Off, Factors, None, VALID_WINDOW
  <2>2. SignInTypeOK' /\ recovery' \subseteq recovery /\ UNCHANGED accepted
    BY <1>5, <2>1 DEF ResetFactor, sessions, SignInInv, SignInTypeOK
  <2> QED
    BY <2>1, <2>2, FactorSame DEF SignInInv
<1>6. CASE StepPasses
  <2>1. clock' \in 0 .. MaxClock
    BY <1>6, SignInAssumption DEF StepPasses, SignInInv, SignInTypeOK
  <2>2. SignInTypeOK'
    BY <1>6, <2>1 DEF StepPasses, sessions, SignInInv, SignInTypeOK
  <2> QED
    BY <1>6, <2>2, FactorSame DEF StepPasses, SignInInv
<1> QED
  BY <1>1, <1>2, <1>3, <1>4, <1>5, <1>6, BeginEnrolmentStep, ConfirmStep, VerifyStep, RegenerateStep,
     DisableStep DEF SignInNext, SignInInv

\* The account's invariant holds in every state.
LEMMA SignInInvHolds == SignInSpec => []SignInInv
<1>1. SignInInit => SignInInv
  BY SignInInitType, SignInInitFactor DEF SignInInv
<1> QED
  BY <1>1, SignInStep, PTL DEF SignInSpec

\* The account, its devices and its second factor hold values of their kind
\* (api/auth.py, mfa_service.py).
THEOREM SignInTypeCorrect == SignInSpec => []SignInTypeOK
BY SignInInvHolds, PTL DEF SignInInv

\* A code counted at most once is what CodesCountOnce asks for.
LEMMA SpentIsOnce == SignInInv => CodesCountOnce
BY DEF SignInInv, FactorInv, CodesCountOnce

\* A code is accepted once, through disabling, enrolling again, regenerating and
\* resetting, for any number of devices, secrets and time steps
\* (core/mfa.py:14-16).
THEOREM EachCodeCountsOnce == SignInSpec => []CodesCountOnce
BY SignInInvHolds, SpentIsOnce, PTL

-----------------------------------------------------------------------------
(* SignIn: the sessions, while requests that end them do not overlap.      *)

\* No token is of a version to come, those of the past are of the past, and the
\* one request that is open read the version of now.
SessionsEnd ==
  /\ \A d \in Devices : token[d] <= version
  /\ \A d \in ended : token[d] # version
  /\ \A d \in Devices : request[d] # NoRequest => request[d].read = version
  /\ \A d, e \in Devices : request[d] # NoRequest /\ request[e] # NoRequest => d = e

\* At first there is no session to end.
LEMMA SessionsEndInit == SignInInit => SessionsEnd
BY DEF SignInInit, SessionsEnd, None

\* The endings that are begun one at a time.
LEMMA SessionsEndStep ==
  ASSUME MaxOpen <= 1
  PROVE  SignInInv /\ SessionsEnd /\ [SignInNext]_signVars => SessionsEnd'
<1> SUFFICES ASSUME SignInTypeOK, SessionsEnd, [SignInNext]_signVars PROVE SessionsEnd'
  BY DEF SignInInv
<1>0. /\ version \in Int /\ version >= 0 /\ token \in [Devices -> Int] /\ ended \subseteq Devices
      /\ request \in [Devices -> [read : -1 .. MaxVersion - 1, keeps : BOOLEAN]]
  BY SignInAssumption DEF SignInTypeOK, Challenge
<1>1. ASSUME UNCHANGED <<version, token, ended, request>> PROVE SessionsEnd'
  BY <1>1 DEF SessionsEnd
<1>2. ASSUME NEW d \in Devices, NEW t \in {Challenge, version}, Holds(d, t), UNCHANGED <<version, request>>
      PROVE  SessionsEnd'
  <2>1. t \in Int /\ t <= version
    BY <1>0 DEF Challenge
  <2>2. /\ \A e \in Devices : token'[e] = IF e = d THEN t ELSE token[e]
        /\ ended' = ended \ {d}
    BY <1>0, <1>2, <2>1 DEF Holds
  <2> QED
    BY <1>0, <1>2, <2>1, <2>2 DEF SessionsEnd
<1>3. ASSUME NEW d \in Devices, NEW keeps \in BOOLEAN, BeginEnding(d, keeps) PROVE SessionsEnd'
  <2> DEFINE open == {e \in Devices : request[e] # NoRequest}
  <2>1. Cardinality(open) < 1 /\ IsFiniteSet(open) /\ Cardinality(open) \in Nat
    <3>1. IsFiniteSet(open)
      BY FS_Subset, SignInAssumption
    <3>2. Cardinality(open) \in Nat
      BY <3>1, FS_CardinalityType
    <3> QED
      BY <1>3, <3>1, <3>2, SignInAssumption DEF BeginEnding
  <2>2. open = {}
    BY <2>1, FS_EmptySet
  <2>3. \A e \in Devices : request'[e] = IF e = d THEN [read |-> version, keeps |-> keeps] ELSE NoRequest
    BY <1>0, <1>3, <2>2 DEF BeginEnding
  <2> QED
    BY <1>3, <2>3 DEF BeginEnding, SessionsEnd
<1>4. ASSUME NEW d \in Devices, CommitEnding(d) PROVE SessionsEnd'
  <2>1. request[d].read = version /\ \A e \in Devices \ {d} : request[e] = NoRequest
    BY <1>4 DEF CommitEnding, SessionsEnd
  <2>2. /\ version' = version + 1 /\ \A e \in Devices : request'[e] = NoRequest
        /\ \A e \in Devices : token'[e] = IF request[d].keeps /\ e = d THEN version + 1 ELSE token[e]
        /\ ended' = {e \in Devices : token[e] >= 0} \ (IF request[d].keeps THEN {d} ELSE {})
    BY <1>0, <1>4, <2>1 DEF CommitEnding
  <2>3. \A e \in ended' : e \in Devices /\ ~(request[d].keeps /\ e = d)
    BY <2>2
  <2>4. \A e \in Devices : token[e] \in Int /\ token[e] <= version
    BY <1>0 DEF SessionsEnd
  <2> QED
    BY <1>0, <2>2, <2>3, <2>4 DEF SessionsEnd
<1>5. ASSUME NEW d \in Devices, Login(d) \/ TokenLogin(d) PROVE SessionsEnd'
  BY <1>2, <1>5 DEF Login, TokenLogin
<1>6. ASSUME NEW d \in Devices, NEW code \in Codes, Verify(d, code) PROVE SessionsEnd'
  BY <1>2, <1>6 DEF Verify
<1>7. ASSUME UNCHANGED sessions PROVE SessionsEnd'
  BY <1>1, <1>7 DEF sessions
<1>8. ASSUME NEW d \in Devices, WrongCode(d) \/ BeginEnrolment(d) PROVE SessionsEnd'
  BY <1>7, <1>8 DEF WrongCode, BeginEnrolment
<1>9. ASSUME NEW d \in Devices, NEW code \in Codes,
             ConfirmEnrolment(d, code) \/ RegenerateCodes(d, code) \/ Disable(d, code)
      PROVE  SessionsEnd'
  BY <1>7, <1>9 DEF ConfirmEnrolment, RegenerateCodes, Disable
<1>10. CASE ResetFactor \/ StepPasses
  BY <1>7, <1>10 DEF ResetFactor, StepPasses
<1>11. CASE UNCHANGED signVars
  BY <1>1, <1>11 DEF signVars
<1> QED
  BY <1>3, <1>4, <1>5, <1>6, <1>8, <1>9, <1>10, <1>11 DEF SignInNext

\* A token of another version than the account's is not accepted.
LEMMA EndedIsOver == SessionsEnd => EarlierSessionsEnd
BY DEF SessionsEnd, EarlierSessionsEnd, Authorised

\* While the requests that end sessions do not overlap, an ending ends every
\* session that was begun before, on any number of devices
\* (api/auth.py:332-334).
THEOREM EndedSessionsStayEnded ==
  ASSUME MaxOpen <= 1
  PROVE  SignInSpec => []EarlierSessionsEnd
<1>1. SignInInit => SessionsEnd
  BY SessionsEndInit
<1>2. SignInInv /\ SessionsEnd /\ [SignInNext]_signVars => SessionsEnd'
  BY SessionsEndStep
<1> QED
  BY <1>1, <1>2, SignInInvHolds, EndedIsOver, PTL DEF SignInSpec

-----------------------------------------------------------------------------
(* ControlMatrices.                                                        *)

\* The rules in force are finitely many of those a tenant may write.
MatricesInv == rules \subseteq LiveRules /\ IsFiniteSet(rules)

\* The rules in force are always finitely many, each of its kind.
LEMMA MatricesInvHolds == MatricesSpec => []MatricesInv
<1>1. MatricesInit => MatricesInv
  BY FS_EmptySet DEF MatricesInit, MatricesInv
<1>2. MatricesInv /\ [MatricesNext]_matrixVars => MatricesInv'
  <2> SUFFICES ASSUME MatricesInv, [MatricesNext]_matrixVars PROVE MatricesInv'
    OBVIOUS
  <2>1. CASE UNCHANGED rules
    BY <2>1 DEF MatricesInv
  <2>2. ASSUME NEW u \in Users, NEW p \in LiveRules, CreateApprovalPolicy(u, p) PROVE MatricesInv'
    BY <2>2, FS_AddElement DEF CreateApprovalPolicy, MatricesInv
  <2>3. ASSUME NEW u \in Users, NEW p \in LiveRules, DeleteApprovalPolicy(u, p) PROVE MatricesInv'
    BY <2>3, FS_RemoveElement DEF DeleteApprovalPolicy, MatricesInv
  <2>4. ASSUME NEW u \in Users, NEW p \in LiveRules, NEW q \in LiveRules,
               UpdateApprovalPolicy(u, p, q)
        PROVE  MatricesInv'
    <3>1. IsFiniteSet(rules \ {p})
      BY FS_RemoveElement DEF MatricesInv
    <3> QED
      BY <2>4, <3>1, FS_AddElement DEF UpdateApprovalPolicy, MatricesInv
  <2> QED
    BY <2>1, <2>2, <2>3, <2>4 DEF MatricesNext, matrixVars
<1> QED
  BY <1>1, <1>2, PTL DEF MatricesSpec

\* Two amounts on the same side of a threshold are judged alike.
SameSide(x, y, threshold) ==
  (x < threshold <=> y < threshold) /\ (x > threshold <=> y > threshold)

\* Amounts on the same side of a threshold are alike to every operator.
LEMMA JudgedAlike ==
  ASSUME NEW operator, NEW x \in Nat, NEW y \in Nat, NEW t \in Nat, SameSide(x, y, t)
  PROVE  OperatorMatches(operator, x, t) <=> OperatorMatches(operator, y, t)
BY DEF SameSide, OperatorMatches

\* Every band holds an amount that some probe stands for: the band holds a
\* threshold, or lies a unit above the last one below it, or above none.
LEMMA BandIsProbed ==
  ASSUME MatricesInv, NEW a \in Nat
  PROVE  \E q \in Probes, x \in a .. a + UNIT :
           \A p \in rules : SameSide(q, x, p.amount_threshold)
<1> DEFINE T == {p.amount_threshold : p \in rules}
           Stands(q, x) == \A p \in rules : SameSide(q, x, p.amount_threshold)
<1>0. UNIT \in Nat \ {0} /\ T \subseteq Nat
  BY MatrixAssumption DEF MatricesInv
<1> SUFFICES \E q \in Probes, x \in a .. a + UNIT : Stands(q, x)
  OBVIOUS
<1>1. \A t \in T : t \in Probes /\ t + UNIT \in Probes
  BY DEF Probes
<1>2. 0 \in Probes
  BY DEF Probes
<1>3. /\ \A x \in Nat : Stands(x, x)
      /\ \A q, x \in Nat : (\A t \in T : SameSide(q, x, t)) => Stands(q, x)
  BY DEF SameSide
<1> HIDE DEF T, Stands
<1>4. CASE \E t \in T : t \in a .. a + UNIT
  BY <1>1, <1>3, <1>4, <1>0
<1>5. CASE (\A t \in T : t \notin a .. a + UNIT) /\ \E t \in T : t < a
  <2> DEFINE B == {t \in T : t < a}
  <2>1. B \subseteq Int /\ IsFiniteSet(B) /\ B # {}
    <3>1. \A t \in B : t \in 0 .. a
      BY <1>0
    <3>2. IsFiniteSet(0 .. a)
      BY FS_Interval
    <3> QED
      BY <1>5, <3>1, <3>2, FS_Subset
  <2>2. PICK t \in B : \A s \in B : s <= t
    <3> HIDE DEF B
    <3> QED
      BY <2>1, GreatestOf
  <2>3. t \in T /\ t \in Nat /\ t < a /\ t + UNIT \in Nat
    BY <1>0
  <2>4. CASE t + UNIT >= a
    <3>1. t + UNIT \in a .. a + UNIT
      BY <1>0, <2>3, <2>4
    <3> QED
      BY <1>1, <1>3, <2>3, <3>1
  <2>5. CASE t + UNIT < a
    <3>1. ASSUME NEW s \in T PROVE SameSide(t + UNIT, a, s)
      <4>1. CASE s < a
        <5>1. s <= t
          BY <2>2, <4>1
        <5> QED
          BY <1>0, <2>3, <2>5, <4>1, <5>1 DEF SameSide
      <4>2. CASE s > a + UNIT
        BY <1>0, <2>3, <2>5, <4>2 DEF SameSide
      <4> QED
        BY <1>0, <1>5, <4>1, <4>2
    <3>2. a \in a .. a + UNIT /\ t + UNIT \in Probes
      BY <1>0, <1>1, <2>3
    <3> QED
      BY <1>3, <2>3, <3>1, <3>2
  <2> QED
    BY <1>0, <2>3, <2>4, <2>5
<1>6. CASE \A t \in T : t > a + UNIT
  <2>1. \A s \in T : SameSide(0, a, s)
    BY <1>0, <1>6 DEF SameSide
  <2>2. a \in a .. a + UNIT
    BY <1>0
  <2> QED
    BY <1>2, <1>3, <2>1, <2>2
<1>7. CASE (\A t \in T : t \notin a .. a + UNIT) /\ ~\E t \in T : t < a
  BY <1>0, <1>6, <1>7
<1> QED
  BY <1>4, <1>5, <1>7

\* Amounts that every rule judges alike are decided alike.
LEMMA DecidedAlike ==
  ASSUME MatricesInv, NEW x \in Nat, NEW y \in Nat,
         \A p \in rules : SameSide(x, y, p.amount_threshold)
  PROVE  /\ Matching(rules, x) = Matching(rules, y)
         /\ \A order \in Orders : FirstMatch(order, x) = FirstMatch(order, y)
<1>1. \A p \in rules : OperatorMatches(p.operator, x, p.amount_threshold)
                         <=> OperatorMatches(p.operator, y, p.amount_threshold)
  BY JudgedAlike, MatrixAssumption DEF MatricesInv
<1>2. ASSUME NEW order \in Orders PROVE FirstMatch(order, x) = FirstMatch(order, y)
  <2>1. \A k \in DOMAIN order : order[k] \in rules /\ k \in Nat /\ \A h \in 1 .. (k - 1) : h \in DOMAIN order
    <3>1. Cardinality(rules) \in Nat
      BY FS_CardinalityType DEF MatricesInv
    <3> QED
      BY <3>1 DEF Orders, SetToSeqs
  <2>2. \A k \in DOMAIN order :
          OperatorMatches(order[k].operator, x, order[k].amount_threshold)
            <=> OperatorMatches(order[k].operator, y, order[k].amount_threshold)
    BY <1>1, <2>1
  <2> QED
    BY <2>1, <2>2 DEF FirstMatch
<1> QED
  BY <1>1, <1>2 DEF Matching

\* A rule that decides an amount matches it.
LEMMA FirstMatches ==
  ASSUME NEW order \in Orders, NEW x
  PROVE  FirstMatch(order, x) \subseteq Matching(rules, x)
BY DEF FirstMatch, Matching, Orders, SetToSeqs

\* The probes are amounts.
LEMMA ProbesAreAmounts == MatricesInv => Probes \subseteq Nat
BY MatrixAssumption DEF MatricesInv, Probes

\* Whoever borrows from nobody can do what the own role permits.
LEMMA OwnRoleOnly ==
  ASSUME NEW u \in Users, NEW perm, ~\E p \in lent : p[2] = u, CanDo(u, perm)
  PROVE  HasPermission(RoleOf[u], perm)
BY DEF CanDo, May, ResolvePermission, EffectiveRoles

\* What the bands show of an amount is what the policies decide.
LEMMA MatricesShow == MatricesInv => MatricesShowWhatHolds
<1> SUFFICES ASSUME MatricesInv PROVE MatricesShowWhatHolds
  OBVIOUS
<1>1. ASSUME NEW b \in Bands
      PROVE \E q \in Probes, x \in b :
              /\ Matching(rules, q) = Matching(rules, x)
              /\ \A order \in Orders : FirstMatch(order, q) = FirstMatch(order, x)
  <2>1. PICK a \in Nat : b = a .. a + UNIT
    BY MatrixAssumption DEF Bands
  <2>2. PICK q \in Probes, x \in a .. a + UNIT : \A p \in rules : SameSide(q, x, p.amount_threshold)
    BY BandIsProbed
  <2>3. q \in Nat /\ x \in Nat
    BY <2>1, ProbesAreAmounts, MatrixAssumption
  <2> QED
    BY <2>1, <2>2, <2>3, DecidedAlike
<1>2. ASSUME NEW order \in Orders, NEW b \in Bands, \A a \in b : Matching(rules, a) = {}
      PROVE  Gaps(order) # {}
  <2>1. PICK q \in Probes, x \in b : Matching(rules, q) = Matching(rules, x)
    BY <1>1
  <2>2. FirstMatch(order, q) = {}
    BY <1>2, <2>1, FirstMatches
  <2> QED
    BY <2>2 DEF Gaps
<1>3. ASSUME NEW order \in Orders, NEW p \in UnreachableRules(order), NEW b \in Bands
      PROVE  \E a \in b : FirstMatch(order, a) # {p}
  <2>1. PICK q \in Probes, x \in b : FirstMatch(order, q) = FirstMatch(order, x)
    BY <1>1
  <2>2. p \notin FirstMatch(order, q)
    BY DEF UnreachableRules
  <2> QED
    BY <2>1, <2>2
<1>4. ASSUME NEW r \in SeparatedByPermissions, NEW u \in Users,
             r.first = AnyRole \/ CanDo(u, r.first), CanDo(u, r.second)
      PROVE  IsAdmin(u) \/ \E p \in lent : p[2] = u
  <2> SUFFICES ASSUME ~\E p \in lent : p[2] = u PROVE IsAdmin(u)
    OBVIOUS
  <2>1. HoldsBoth(RoleOf[u], r)
    BY <1>4, OwnRoleOnly DEF HoldsBoth
  <2>2. RoleOf[u] \notin Roles \ {"admin"}
    BY <2>1 DEF SeparatedByPermissions, OrdinaryRolesHoldingBoth
  <2> QED
    BY <2>2, RolesAssumption DEF IsAdmin
<1> QED
  BY <1>2, <1>3, <1>4 DEF MatricesShowWhatHolds

\* For any rules in force, in whatever order the query returns those of equal
\* priority: the probes of the approval matrix find every band that no rule
\* routes, and every rule that decides a band; and a separation that rests on
\* the permissions is crossed by borrowers and administrators only
\* (matrices.py:12-20).
THEOREM MatricesAreRight == MatricesSpec => []MatricesShowWhatHolds
BY MatricesInvHolds, MatricesShow, PTL

-----------------------------------------------------------------------------
(* Org units: what the walk over the units finds.                          *)

\* What a walk has yet to find: the least set that holds the stack and, with a
\* unit, its children, where what was seen is left out.
Ahead(at) ==
  {x \in Existing : \A S \in SUBSET Existing :
     (at.stack \ at.seen \subseteq S /\ \A y \in S : Children(y) \ at.seen \subseteq S) => x \in S}

\* What a walk ends with.
FinallySeen(at) == at.seen \cup Ahead(at)

\* g is a walk: it follows the loop from every place to its end.
Walks(g) ==
  g = [at \in Places |-> IF at.stack = {} THEN at.seen ELSE g[Visit(at, Some(at.stack))]]

\* What is ahead holds the stack and the children of what it holds.
LEMMA AheadClosed ==
  ASSUME NEW at \in Places
  PROVE  /\ Ahead(at) \subseteq Existing /\ at.stack \ at.seen \subseteq Ahead(at)
         /\ \A y \in Ahead(at) : Children(y) \ at.seen \subseteq Ahead(at)
         /\ \A S \in SUBSET Existing :
              (at.stack \ at.seen \subseteq S /\ \A y \in S : Children(y) \ at.seen \subseteq S)
                => Ahead(at) \subseteq S
BY DEF Ahead, Places, Children

\* A turn of the loop changes where the walk is, and not where it ends.
LEMMA VisitKeepsEnd ==
  ASSUME NEW at \in Places, NEW c \in at.stack
  PROVE  Visit(at, c) \in Places /\ FinallySeen(Visit(at, c)) = FinallySeen(at)
<1> DEFINE to == Visit(at, c)
<1>1. to \in Places
  BY DEF Visit, Places, Children
<1>2. CASE c \in at.seen
  <2>1. to.seen = at.seen /\ to.stack \ to.seen = at.stack \ at.seen
    BY <1>2 DEF Visit, Places
  <2> QED
    BY <1>1, <2>1 DEF FinallySeen, Ahead
<1>3. CASE c \notin at.seen
  <2>1. to.stack = (at.stack \ {c}) \cup Children(c) /\ to.seen = at.seen \cup {c}
    BY <1>3 DEF Visit
  <2> HIDE DEF to
  <2>2. c \in Ahead(at) /\ Ahead(at) \in SUBSET Existing /\ Ahead(to) \in SUBSET Existing
    BY <1>1, <1>3, AheadClosed
  <2>3. Ahead(to) \subseteq Ahead(at)
    <3>1. to.stack \ to.seen \subseteq Ahead(at)
      BY <2>1, <2>2, AheadClosed
    <3>2. \A y \in Ahead(at) : Children(y) \ to.seen \subseteq Ahead(at)
      BY <2>1, AheadClosed
    <3> QED
      BY <1>1, <2>2, <3>1, <3>2, AheadClosed
  <2>4. Ahead(at) \subseteq Ahead(to) \cup {c}
    <3> DEFINE S == Ahead(to) \cup {c}
    <3>1. S \in SUBSET Existing
      BY <2>2
    <3>2. at.stack \ at.seen \subseteq S
      BY <1>1, <2>1, AheadClosed
    <3>3. \A y \in S : Children(y) \ at.seen \subseteq S
      BY <1>1, <2>1, AheadClosed
    <3> QED
      BY <3>1, <3>2, <3>3, AheadClosed
  <2> QED
    BY <2>1, <2>2, <2>3, <2>4, <1>1 DEF FinallySeen, to
<1> QED
  BY <1>1, <1>2, <1>3

\* With nothing on the stack nothing is ahead.
LEMMA NothingAhead == ASSUME NEW at \in Places, at.stack = {} PROVE FinallySeen(at) = at.seen
BY DEF FinallySeen, Ahead

\* There is a walk.
LEMMA WalkExists == \E g : Walks(g)
<1> DEFINE g == [at \in Places |-> FinallySeen(at)]
<1>1. ASSUME NEW at \in Places
      PROVE  FinallySeen(at) = IF at.stack = {} THEN at.seen ELSE g[Visit(at, Some(at.stack))]
  <2>1. CASE at.stack = {}
    BY <2>1, NothingAhead
  <2>2. CASE at.stack # {}
    <3>1. Some(at.stack) \in at.stack
      BY <2>2, SomeIn
    <3> QED
      BY <2>2, <3>1, VisitKeepsEnd
  <2> QED
    BY <2>1, <2>2
<1> HIDE DEF g
<1>2. g = [at \in Places |-> FinallySeen(at)]
  BY DEF g
<1>3. Walks(g)
  <2> USE DEF Walks
  <2> HIDE DEF g
  <2> QED
    BY <1>1, <1>2
<1> QED
  BY <1>3

\* Every walk over finitely many units ends with what was ahead of it: of the
\* places where it would not, one has the most units seen and, of these, the
\* least on the stack; its next place would be another.
LEMMA WalkEnds ==
  ASSUME NEW g, Walks(g), IsFiniteSet(Existing), NEW from \in Places
  PROVE  g[from] = FinallySeen(from)
<1> DEFINE Bad == {at \in Places : g[at] # FinallySeen(at)}
           Unseen(at) == Existing \ at.seen
<1>1. SUFFICES ASSUME Bad # {} PROVE FALSE
  OBVIOUS
<1>2. PICK t : t \in Bad /\ \A at \in Bad : Unseen(at) \subseteq Unseen(t) => Unseen(at) = Unseen(t)
  <2> DEFINE F == {Unseen(at) : at \in Bad}
  <2>1. F \subseteq SUBSET Existing /\ F # {}
    BY <1>1
  <2>2. PICK u \in F : \A v \in F : v \subseteq u => v = u
    <3> HIDE DEF F
    <3> QED
      BY <2>1, SmallestSet
  <2>3. PICK t \in Bad : u = Unseen(t)
    BY <2>2
  <2>4. \A at \in Bad : Unseen(at) \in F
    OBVIOUS
  <2> HIDE DEF F, Bad, Unseen
  <2> QED
    BY <2>2, <2>3, <2>4
<1>3. PICK at \in Bad : /\ Unseen(at) = Unseen(t)
                        /\ \A b \in Bad : Unseen(b) = Unseen(t) /\ b.stack \subseteq at.stack
                             => b.stack = at.stack
  <2> DEFINE F == {at.stack : at \in {b \in Bad : Unseen(b) = Unseen(t)}}
  <2>1. F \subseteq SUBSET Existing /\ F # {}
    BY <1>2 DEF Places
  <2>2. PICK u \in F : \A v \in F : v \subseteq u => v = u
    <3> HIDE DEF F
    <3> QED
      BY <2>1, SmallestSet
  <2>3. PICK at \in Bad : Unseen(at) = Unseen(t) /\ u = at.stack
    BY <2>2
  <2>4. \A b \in Bad : Unseen(b) = Unseen(t) => b.stack \in F
    OBVIOUS
  <2> HIDE DEF F, Bad, Unseen
  <2> QED
    BY <2>2, <2>3, <2>4
<1>4. at.stack # {}
  BY NothingAhead DEF Walks
<1> DEFINE c == Some(at.stack)
           to == Visit(at, c)
<1>5. c \in at.stack
  BY <1>4, SomeIn
<1>6. to \in Places /\ FinallySeen(to) = FinallySeen(at)
  BY <1>5, VisitKeepsEnd
<1>7. g[at] = g[to]
  BY <1>4 DEF Walks
<1>8. to \in Bad
  BY <1>6, <1>7
<1> HIDE DEF Bad
<1>9. at \in Places
  BY DEF Bad
<1>10. CASE c \in at.seen
  <2>1. to.seen = at.seen /\ to.stack = at.stack \ {c}
    BY <1>9, <1>10 DEF Visit, Places
  <2> HIDE DEF to, c
  <2> QED
    BY <2>1, <1>3, <1>5, <1>8
<1>11. CASE c \notin at.seen
  <2>1. to.seen = at.seen \cup {c} /\ c \in Existing
    BY <1>5, <1>9, <1>11 DEF Visit, Places
  <2> HIDE DEF to, c
  <2> QED
    BY <2>1, <1>2, <1>3, <1>8, <1>11
<1> QED
  BY <1>10, <1>11

\* What the walk from some units finds.
LEMMA DescendantsAre ==
  ASSUME IsFiniteSet(Existing), NEW roots \in SUBSET Existing
  PROVE  WithDescendants(roots) = Ahead([stack |-> roots, seen |-> {}])
<1> DEFINE from == [stack |-> roots, seen |-> {}]
           g == CHOOSE h : Walks(h)
<1>1. from \in Places /\ FinallySeen(from) = Ahead(from)
  BY DEF Places, FinallySeen
<1>2. WithDescendants(roots) = g[from]
  BY DEF WithDescendants, Walks, Some
<1>3. Walks(g)
  BY WalkExists
<1> HIDE DEF g, from
<1>4. g[from] = FinallySeen(from)
  BY <1>1, <1>3, WalkEnds
<1> QED
  BY <1>1, <1>2, <1>4 DEF from

\* Finitely many units, each with a parent on file or none, and scopes of units
\* on file.
OrgInv ==
  /\ IsFiniteSet(Existing) /\ Existing \subseteq Units
  /\ parent \in [Existing -> Existing \cup {NoUnit}]
  /\ scopes \in [Viewers -> SUBSET Existing]

\* The walk down from some units finds those that have one of them above.
LEMMA BeneathIsAbove ==
  ASSUME OrgInv, NEW roots \in SUBSET Existing, NEW u \in Existing
  PROVE  u \in WithDescendants(roots) <=> \E a \in roots : AtOrAbove(a, u)
<1> DEFINE from == [stack |-> roots, seen |-> {}]
           D == Ahead(from)
<1>1. from \in Places /\ from.stack = roots /\ from.seen = {}
  BY DEF Places
<1>2. WithDescendants(roots) = D
  BY DescendantsAre DEF OrgInv
<1> HIDE DEF from
<1>3. /\ D \in SUBSET Existing /\ roots \subseteq D /\ \A y \in D : Children(y) \subseteq D
      /\ \A S \in SUBSET Existing :
           (roots \subseteq S /\ \A y \in S : Children(y) \subseteq S) => D \subseteq S
  BY <1>1, AheadClosed
<1> HIDE DEF D
<1>4. ASSUME NEW a \in roots, AtOrAbove(a, u) PROVE u \in D
  <2> SUFFICES ASSUME u \notin D PROVE FALSE
    OBVIOUS
  <2> DEFINE S == Existing \ D
  <2>1. \A x \in S : parent[x] \in S \cup {NoUnit}
    BY <1>3 DEF OrgInv, Children
  <2> QED
    BY <1>3, <1>4, <2>1 DEF AtOrAbove
<1>5. ASSUME u \in D PROVE \E a \in roots : AtOrAbove(a, u)
  <2> DEFINE T == {x \in Existing : \E a \in roots : AtOrAbove(a, x)}
  <2>1. roots \subseteq T
    BY DEF AtOrAbove
  <2>2. ASSUME NEW y \in T, NEW c \in Children(y) PROVE c \in T
    <3>1. PICK a \in roots : AtOrAbove(a, y)
      OBVIOUS
    <3>2. c \in Existing /\ parent[c] = y /\ y \in Existing /\ y # NoUnit
      BY OrgScopeAssumption DEF Children, OrgInv
    <3>3. AtOrAbove(a, c)
      BY <3>1, <3>2 DEF AtOrAbove
    <3> QED
      BY <3>2, <3>3
  <2> QED
    BY <1>3, <1>5, <2>1, <2>2
<1> QED
  BY <1>2, <1>4, <1>5

\* Units are added and scopes come and go; no unit is moved or taken away.
LEMMA OrgStep == OrgInv /\ [OrgScopeNext]_orgVars => OrgInv'
<1> SUFFICES ASSUME OrgInv, [OrgScopeNext]_orgVars PROVE OrgInv'
  OBVIOUS
<1>1. ASSUME NEW u \in Units, NEW p \in Units \cup {NoUnit}, CreateUnit(u, p) PROVE OrgInv'
  <2>1. Existing' = Existing \cup {u}
    BY <1>1 DEF CreateUnit, Existing
  <2>2. IsFiniteSet(Existing')
    BY <2>1, FS_AddElement DEF OrgInv
  <2> QED
    BY <1>1, <2>1, <2>2 DEF CreateUnit, OrgInv
<1>2. ASSUME NEW w \in Viewers, NEW u \in Units, Assign(w, u) \/ Revoke(w, u) PROVE OrgInv'
  <2>1. Existing' = Existing
    BY <1>2 DEF Assign, Revoke, Existing
  <2>2. scopes' \in [Viewers -> SUBSET Existing]
    BY <1>2 DEF Assign, Revoke, OrgInv
  <2> QED
    BY <1>2, <2>1, <2>2 DEF Assign, Revoke, OrgInv
<1>3. CASE UNCHANGED orgVars
  BY <1>3 DEF orgVars, OrgInv, Existing
<1> QED
  BY <1>1, <1>2, <1>3 DEF OrgScopeNext

\* org_unit_service.py:6-15: whatever units and scopes there are, somebody with a
\* scope sees a unit exactly when an assigned one is at or above it.
THEOREM ScopesReachBeneath == OrgScopeSpec => []SeesWhatIsBeneath
<1>1. OrgScopeInit => OrgInv
  BY FS_EmptySet DEF OrgScopeInit, OrgInv, Existing
<1>2. OrgInv => SeesWhatIsBeneath
  BY BeneathIsAbove, OrgScopeAssumption DEF SeesWhatIsBeneath, Sees, OrgInv
<1> QED
  BY <1>1, <1>2, OrgStep, PTL DEF OrgScopeSpec

-----------------------------------------------------------------------------
(* The decision inbox.                                                     *)

\* The inbox repeats the guards of three services in filters of its own, and
\* whatever the state, lists exactly what they would let the user approve.
THEOREM TheInboxIsTheWork == InboxIsTheWork
<1> SUFFICES ASSUME NEW u \in Users
             PROVE /\ PayrollItems(u) = {c \in Changes : CanApproveChange(u, c)}
                   /\ HeadcountItems(u) = {h \in Hires : CanApproveHire(u, h)}
                   /\ ClaimItems(u) = {c \in Claimed : CanApproveClaim(u, c, TRUE)}
  BY DEF InboxIsTheWork
<1>1. PayrollItems(u) = {c \in Changes : CanApproveChange(u, c)}
  BY DEF PayrollItems, CanApproveChange, Conflicted
<1>2. HeadcountItems(u) = {h \in Hires : CanApproveHire(u, h)}
  BY DEF HeadcountItems, CanApproveHire
<1>3. ClaimItems(u) = {c \in Claimed : CanApproveClaim(u, c, TRUE)}
  BY DEF ClaimItems, CanApproveClaim
<1> QED
  BY <1>1, <1>2, <1>3

=============================================================================
