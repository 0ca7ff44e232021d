------------------------------- MODULE People -------------------------------
(***************************************************************************)
(* Employees (employee_service.py, models/employee.py).  An employee is    *)
(* not a user: the login is a nullable link, set and cleared by an         *)
(* administrator while requests about the employee are open.               *)
(***************************************************************************)
EXTENDS Governance

CONSTANTS Employees, NoEmployee,
          Manager,      \* manager_id: set when the employee is created
          Salaries,
          Statuses, Logins  \* bounds: the statuses and the logins given out

EmploymentStatuses == {"active", "on_leave", "notice", "left"}

ASSUME PeopleAssumption ==
  /\ NoEmployee \notin Employees
  /\ Manager \in [Employees -> Employees \cup {NoEmployee}]
  /\ Salaries \subseteq Nat /\ 0 \notin Salaries
  /\ Statuses \subseteq EmploymentStatuses /\ Logins \subseteq Users

VARIABLE staff          \* status, login and base_salary of each employee

NoPerson == [status |-> "none", login |-> NoUser, pay |-> 0]

Employed == {e \in Employees : staff[e].status # "none"}

\* A starting salary takes PERM_VIEW_COMPENSATION too: the administrator, who
\* alone manages employees, has it.
CreateEmployee(u, e, salary) ==
  /\ May(u, "hr.manage_employees")
  /\ staff[e] = NoPerson
  /\ Manager[e] \in Employed \cup {NoEmployee}
  /\ staff' = [staff EXCEPT ![e] = [status |-> "active", login |-> NoUser, pay |-> salary]]

\* One login is at most one person.
LinkLogin(u, e, login) ==
  /\ May(u, "hr.manage_employees")
  /\ e \in Employed
  /\ login # NoUser => \A f \in Employed \ {e} : staff[f].login # login
  /\ staff' = [staff EXCEPT ![e].login = login]

\* Leaving takes an end date, and takes nothing away.
SetEmployment(u, e, status) ==
  /\ May(u, "hr.manage_employees")
  /\ e \in Employed
  /\ staff' = [staff EXCEPT ![e].status = status]

PeopleNext ==
  \E u \in Users, e \in Employees :
    \/ \E salary \in Salaries \cup {0} : CreateEmployee(u, e, salary)
    \/ \E login \in Logins \cup {NoUser} : LinkLogin(u, e, login)
    \/ \E status \in Statuses : SetEmployment(u, e, status)

\* The employee a user is, if any (_is_self, and the look-up of the approver).
Self(u) == IF \E e \in Employed : staff[e].login = u
             THEN CHOOSE e \in Employed : staff[e].login = u ELSE NoEmployee

IsSelf(e, u) == staff[e].login = u

PeopleTypeOK ==
  staff \in [Employees -> [status : EmploymentStatuses \cup {"none"},
                           login : Users \cup {NoUser}, pay : Nat]]

=============================================================================
