------------------------------- MODULE Hiring -------------------------------
(***************************************************************************)
(* Headcount requests (headcount_service.py) and the checklists of those   *)
(* who join and leave (onboarding_service.py).  A checklist is kept to the *)
(* tasks of the access and account categories, as one.                     *)
(***************************************************************************)
EXTENDS People

CONSTANTS Hires,        \* the headcount requests
          Sensitive,    \* those raised for a sensitive role
          Cleared,      \* employees with background_check_cleared, which no
                        \* operation of the program sets
          Flows         \* onboarding, offboarding, or one of them: they share
                        \* the engine

VARIABLES hire,
          access        \* the access task of each employee and flow
hireVars == <<staff, hire, access>>

ASSUME HiringAssumption == Flows \subseteq {"onboarding", "offboarding"}

TaskStates == {"pending", "in_progress", "blocked", "done", "not_applicable"}

NoHire == [state |-> "none", by |-> NoUser, justified |-> FALSE, signer |-> NoUser,
           filledBy |-> NoEmployee]

HiringInit ==
  /\ staff = [e \in Employees |-> NoPerson]
  /\ hire = [h \in Hires |-> NoHire]
  /\ access = [e \in Employees |-> [f \in Flows |-> "none"]]

WriteHire(h, r) == hire' = [hire EXCEPT ![h] = r] /\ UNCHANGED <<staff, access>>

RaiseHire(u, h, justified) ==
  /\ May(u, "hr.request_headcount")
  /\ hire[h].state = "none"
  /\ WriteHire(h, [NoHire EXCEPT !.state = "draft", !.by = u, !.justified = justified])

SubmitHire(u, h) ==
  /\ May(u, "hr.request_headcount")
  /\ hire[h].state = "draft" /\ hire[h].justified
  /\ WriteHire(h, [hire[h] EXCEPT !.state = "pending_approval"])

CanApproveHire(u, h) ==
  /\ May(u, "hr.approve_headcount")
  /\ hire[h].state = "pending_approval" /\ hire[h].by # u

ApproveHire(u, h) ==
  /\ CanApproveHire(u, h)
  /\ WriteHire(h, [hire[h] EXCEPT !.state = "approved", !.signer = u])

RejectHire(u, h) ==
  /\ May(u, "hr.approve_headcount")
  /\ hire[h].state = "pending_approval"
  /\ WriteHire(h, [hire[h] EXCEPT !.state = "rejected"])

FillHire(u, h, e) ==
  /\ May(u, "hr.request_headcount")
  /\ hire[h].state = "approved" /\ e \in Employed
  /\ h \in Sensitive => e \in Cleared
  /\ WriteHire(h, [hire[h] EXCEPT !.state = "filled", !.filledBy = e])

CancelHire(u, h) ==
  /\ May(u, "hr.request_headcount")
  /\ hire[h].state \notin {"none", "filled"}
  /\ WriteHire(h, [hire[h] EXCEPT !.state = "cancelled"])

\* Once per employee and flow.
CreateChecklist(u, e, flow) ==
  /\ May(u, "hr.manage_onboarding")
  /\ e \in Employed /\ access[e][flow] = "none"
  /\ access' = [access EXCEPT ![e][flow] = "pending"]
  /\ UNCHANGED <<staff, hire>>

\* From any state to any other; skipping and blocking take a note as well.
SetTask(u, e, flow, status) ==
  /\ May(u, "hr.manage_onboarding")
  /\ access[e][flow] # "none"
  /\ access' = [access EXCEPT ![e][flow] = status]
  /\ UNCHANGED <<staff, hire>>

HiringNext ==
  \/ \E u \in Users, h \in Hires :
       \/ \E justified \in BOOLEAN : RaiseHire(u, h, justified)
       \/ SubmitHire(u, h) \/ ApproveHire(u, h) \/ RejectHire(u, h) \/ CancelHire(u, h)
       \/ \E e \in Employees : FillHire(u, h, e)
  \/ \E u \in Users, e \in Employees, flow \in Flows :
       \/ CreateChecklist(u, e, flow)
       \/ \E status \in TaskStates : SetTask(u, e, flow, status)
  \/ PeopleNext /\ UNCHANGED <<hire, access>>

HiringSpec == HiringInit /\ [][HiringNext]_hireVars

\* outstanding_access.
Outstanding == {e \in Employees : access[e]["offboarding"]
                                    \in {"pending", "in_progress", "blocked"}}

-----------------------------------------------------------------------------
(* Properties.                                                             *)

HireStates == {"none", "draft", "pending_approval", "approved", "rejected", "filled", "cancelled"}

HireRecords == [state : HireStates, by : Users \cup {NoUser}, justified : BOOLEAN,
                signer : Users \cup {NoUser}, filledBy : Employees \cup {NoEmployee}]

\* Employees, requests and tasks hold values of their kind.
HiringTypeOK ==
  /\ PeopleTypeOK /\ hire \in [Hires -> HireRecords]
  /\ access \in [Employees -> [Flows -> TaskStates \cup {"none"}]]

\* headcount_service.py:18-22, 162, 233-238: nobody is hired on a request without a
\* reason, or on one that whoever raised it signed; and a sensitive role is filled
\* by somebody with a cleared background check.  Submission, signature and hire
\* are three steps, with rejections and cancellations between them.
FilledAsApproved ==
  \A h \in Hires : hire[h].state = "filled" =>
    /\ hire[h].justified /\ hire[h].signer \notin {NoUser, hire[h].by}
    /\ hire[h].filledBy \in IF h \in Sensitive THEN Employees \cap Cleared ELSE Employees

\* headcount_service.py:15-17, one approval, one thing: a request that was hired
\* against authorises no second hire, and is not cancelled under the first.
HiredOnce == [][\A h \in Hires : hire[h].state = "filled" => hire'[h] = hire[h]]_hireVars

\* onboarding_service.py:251-252: who has left and can still sign in?
LeaversOutstanding ==
  \A e \in Employees : staff[e].status = "left" /\ staff[e].login # NoUser => e \in Outstanding

=============================================================================
