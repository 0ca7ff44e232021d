------------------------------ MODULE OfficeInbox ---------------------------
(***************************************************************************)
(* The decision inbox over pay changes, headcount requests and expense     *)
(* claims (decision_inbox_service.py).  The inbox repeats from the         *)
(* services who may decide what; each collector is one operator here.      *)
(***************************************************************************)
EXTENDS Payroll, Claims, Hiring

\* Mutant: the reports of the subject are not looked for.
PayrollItemsOfReports(u) ==
  {c \in Changes : /\ May(u, "hr.approve_payroll_change")
                   /\ change[c].state = "pending_approval"
                   /\ change[c].by # u
                   /\ ~IsSelf(change[c].of, u)}

\* Not the raiser's, not the subject's, and not that of a report of the subject.
PayrollItems(u) ==
  {c \in Changes : /\ May(u, "hr.approve_payroll_change")
                   /\ change[c].state = "pending_approval"
                   /\ change[c].by # u
                   /\ ~IsSelf(change[c].of, u)
                   /\ Self(u) # NoEmployee => Manager[Self(u)] # change[c].of}

HeadcountItems(u) ==
  {h \in Hires : /\ May(u, "hr.approve_headcount")
                 /\ hire[h].state = "pending_approval"
                 /\ hire[h].by # u}

ClaimItems(u) ==
  {c \in Claimed : /\ May(u, "hr.approve_expense")
                   /\ claim[c].state = "pending_approval"
                   /\ claim[c].by # u
                   /\ ~IsSelf(claim[c].of, u)}

-----------------------------------------------------------------------------
(* Properties.                                                             *)

\* decision_inbox_service.py:22-24 and 602-604: only what the caller can act on,
\* and all of it: the inbox lists what the services would let the user approve,
\* whatever logins were linked and whoever left since the request was made.
InboxIsTheWork ==
  \A u \in Users :
    /\ PayrollItems(u) = {c \in Changes : CanApproveChange(u, c)}
    /\ HeadcountItems(u) = {h \in Hires : CanApproveHire(u, h)}
    /\ ClaimItems(u) = {c \in Claimed : CanApproveClaim(u, c, TRUE)}

=============================================================================
