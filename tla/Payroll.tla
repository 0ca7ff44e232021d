------------------------------- MODULE Payroll ------------------------------
(***************************************************************************)
(* Changes to what somebody is paid (payroll_change_service.py): raised    *)
(* for somebody else, signed by a third person, and applied in the         *)
(* transaction that signs them.                                            *)
(***************************************************************************)
EXTENDS People, Integers

CONSTANT Changes

VARIABLES change,       \* each request
          moved         \* history: the pay change each applied request made
payVars == <<staff, change, moved>>

NoChange == [state |-> "none", of |-> NoEmployee, by |-> NoUser, old |-> 0, new |-> 0,
             jump |-> 0, signer |-> NoUser, hat |-> NoEmployee]

Distance(a, b) == IF a > b THEN a - b ELSE b - a

PayrollInit ==
  /\ staff = [e \in Employees |-> NoPerson]
  /\ change = [c \in Changes |-> NoChange]
  /\ moved = [c \in Changes |-> 0]

WriteChange(c, r) == change' = [change EXCEPT ![c] = r] /\ UNCHANGED <<staff, moved>>

RaiseChange(u, c, e, salary) ==
  /\ May(u, "hr.request_payroll_change")
  /\ change[c].state = "none"
  /\ e \in Employed /\ ~IsSelf(e, u)
  /\ WriteChange(c, [NoChange EXCEPT !.state = "draft", !.of = e, !.by = u, !.old = staff[e].pay,
                               !.new = salary, !.jump = Distance(salary, staff[e].pay)])

SubmitChange(u, c) ==
  /\ May(u, "hr.request_payroll_change")
  /\ change[c].state = "draft"
  /\ WriteChange(c, [change[c] EXCEPT !.state = "pending_approval"])

\* _refuse_conflicted_approver: not the raiser, not the subject, and nobody
\* whose manager the subject is.
Conflicted(u, c) ==
  \/ change[c].by = u
  \/ IsSelf(change[c].of, u)
  \/ Self(u) # NoEmployee /\ Manager[Self(u)] = change[c].of

\* Approved and applied in one transaction.
SignedBy(u, c) ==
  /\ change' = [change EXCEPT ![c].state = "applied", ![c].signer = u, ![c].hat = Self(u)]
  /\ staff' = [staff EXCEPT ![change[c].of].pay = change[c].new]
  /\ moved' = [moved EXCEPT ![c] = Distance(change[c].new, staff[change[c].of].pay)]

\* Mutant: only one record at a time is looked at.
ApproveForManager(u, c) ==
  /\ May(u, "hr.approve_payroll_change")
  /\ change[c].state = "pending_approval"
  /\ change[c].by # u /\ ~IsSelf(change[c].of, u)
  /\ SignedBy(u, c)

CanApproveChange(u, c) ==
  /\ May(u, "hr.approve_payroll_change")
  /\ change[c].state = "pending_approval"
  /\ ~Conflicted(u, c)

ApproveChange(u, c) == CanApproveChange(u, c) /\ SignedBy(u, c)

RejectChange(u, c) ==
  /\ May(u, "hr.approve_payroll_change")
  /\ change[c].state = "pending_approval"
  /\ WriteChange(c, [change[c] EXCEPT !.state = "rejected"])

CancelChange(u, c) ==
  /\ May(u, "hr.request_payroll_change")
  /\ change[c].state \notin {"none", "applied", "cancelled"}
  /\ WriteChange(c, [change[c] EXCEPT !.state = "cancelled"])

PayrollNext ==
  \/ \E u \in Users, c \in Changes :
       \/ \E e \in Employees, salary \in Salaries : RaiseChange(u, c, e, salary)
       \/ SubmitChange(u, c) \/ ApproveChange(u, c)
       \/ RejectChange(u, c) \/ CancelChange(u, c)
  \/ PeopleNext /\ UNCHANGED <<change, moved>>

PayrollSpec == PayrollInit /\ [][PayrollNext]_payVars

-----------------------------------------------------------------------------
(* Properties.                                                             *)

ChangeRecords ==
  [state : {"none", "draft", "pending_approval", "applied", "rejected", "cancelled"},
   of : Employees \cup {NoEmployee}, by : Users \cup {NoUser}, old : Nat, new : Nat,
   jump : Nat, signer : Users \cup {NoUser}, hat : Employees \cup {NoEmployee}]

\* Employees and requests hold values of their kind.
PayrollTypeOK ==
  /\ PeopleTypeOK
  /\ change \in [Changes -> ChangeRecords]
  /\ moved \in [Changes -> Nat]

Applied == {c \in Changes : change[c].state = "applied"}

\* payroll_change_service.py:13-16: two people one of whom manages the other do
\* not approve each other's pay, though each request passes on its own, and
\* whatever logins were linked in between.
NoMutualRises ==
  \A c, d \in Applied :
    (change[c].hat = change[d].of /\ change[d].hat = change[c].of /\ change[c].hat # NoEmployee)
      => Manager[change[c].of] # change[d].of /\ Manager[change[d].of] # change[c].of

\* models/hr.py:229-231 and 254-255: the size of the jump that is approved is
\* the size of the jump that is made.
JumpAsStated == \A c \in Applied : moved[c] = change[c].jump

=============================================================================
