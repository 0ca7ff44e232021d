------------------------------- MODULE Claims -------------------------------
(***************************************************************************)
(* Expense claims (expense_service.py).  The receipt is looked for at      *)
(* submission; approval reads the flag that submission stored.             *)
(***************************************************************************)
EXTENDS People, Integers

CONSTANTS Claimed,      \* the claims
          Required      \* those whose category or amount calls for a receipt

VARIABLES claim,
          receipts      \* claims with a file attached (file_service)
claimVars == <<staff, claim, receipts>>

NoClaim == [state |-> "none", of |-> NoEmployee, by |-> NoUser, hasReceipt |-> FALSE,
            signer |-> NoUser, hat |-> NoEmployee, waived |-> FALSE, posted |-> 0]

ClaimsInit ==
  /\ staff = [e \in Employees |-> NoPerson]
  /\ claim = [c \in Claimed |-> NoClaim]
  /\ receipts = {}

WriteClaim(c, r) == claim' = [claim EXCEPT ![c] = r] /\ UNCHANGED <<staff, receipts>>

RaiseClaim(u, c, e) ==
  /\ May(u, "hr.claim_expense")
  /\ claim[c].state = "none" /\ e \in Employed
  /\ WriteClaim(c, [NoClaim EXCEPT !.state = "draft", !.of = e, !.by = u])

\* A file stays: nothing deletes one.
AttachReceipt(c) ==
  /\ claim[c].state # "none" /\ c \notin receipts
  /\ receipts' = receipts \cup {c}
  /\ UNCHANGED <<staff, claim>>

SubmitClaim(u, c) ==
  /\ May(u, "hr.claim_expense")
  /\ claim[c].state = "draft"
  /\ c \in Required => c \in receipts
  /\ WriteClaim(c, [claim[c] EXCEPT !.state = "pending_approval", !.hasReceipt = c \in receipts])

\* Mutant: only the raiser is kept from deciding.
ApproveOwnClaim(u, c, reason) ==
  /\ May(u, "hr.approve_expense")
  /\ claim[c].state = "pending_approval"
  /\ claim[c].by # u
  /\ c \in Required /\ ~claim[c].hasReceipt => reason
  /\ WriteClaim(c, [claim[c] EXCEPT !.state = "approved", !.signer = u, !.hat = Self(u),
                               !.waived = c \in Required /\ ~claim[c].hasReceipt])

\* A missing receipt can be waived with a reason.  Neither the raiser nor the
\* claimant decides, whatever the role.
CanApproveClaim(u, c, reason) ==
  /\ May(u, "hr.approve_expense")
  /\ claim[c].state = "pending_approval"
  /\ claim[c].by # u /\ ~IsSelf(claim[c].of, u)
  /\ c \in Required /\ ~claim[c].hasReceipt => reason

ApproveClaim(u, c, reason) ==
  /\ CanApproveClaim(u, c, reason)
  /\ WriteClaim(c, [claim[c] EXCEPT !.state = "approved", !.signer = u, !.hat = Self(u),
                               !.waived = c \in Required /\ ~claim[c].hasReceipt])

RejectClaim(u, c) ==
  /\ May(u, "hr.approve_expense")
  /\ claim[c].state = "pending_approval"
  /\ WriteClaim(c, [claim[c] EXCEPT !.state = "rejected"])

\* Enqueues the posting in the same transaction (Postings).
MarkClaimPaid(u, c) ==
  /\ May(u, "hr.approve_expense")
  /\ claim[c].state = "approved"
  /\ WriteClaim(c, [claim[c] EXCEPT !.state = "paid", !.posted = @ + 1])

CancelClaim(u, c) ==
  /\ May(u, "hr.claim_expense")
  /\ claim[c].state \notin {"none", "paid"}
  /\ WriteClaim(c, [claim[c] EXCEPT !.state = "cancelled"])

ClaimsNext ==
  \/ \E u \in Users, c \in Claimed :
       \/ \E e \in Employees : RaiseClaim(u, c, e)
       \/ SubmitClaim(u, c) \/ RejectClaim(u, c)
       \/ \E reason \in BOOLEAN : ApproveClaim(u, c, reason)
       \/ MarkClaimPaid(u, c) \/ CancelClaim(u, c)
  \/ \E c \in Claimed : AttachReceipt(c)
  \/ PeopleNext /\ UNCHANGED <<claim, receipts>>

ClaimsSpec == ClaimsInit /\ [][ClaimsNext]_claimVars

-----------------------------------------------------------------------------
(* Properties.                                                             *)

ClaimRecords ==
  [state : {"none", "draft", "pending_approval", "approved", "rejected", "paid", "cancelled"},
   of : Employees \cup {NoEmployee}, by : Users \cup {NoUser}, hasReceipt : BOOLEAN,
   signer : Users \cup {NoUser}, hat : Employees \cup {NoEmployee}, waived : BOOLEAN,
   posted : Nat]

\* Employees and claims hold values of their kind.
ClaimsTypeOK ==
  /\ PeopleTypeOK
  /\ claim \in [Claimed -> ClaimRecords] /\ receipts \subseteq Claimed

\* expense_service.py:6-24: money leaves on evidence and on another's word: a
\* claim that is paid was signed by somebody who neither raised it nor was its
\* claimant then, is evidenced or waived, and was posted once.
ClaimsStandUp ==
  \A c \in Claimed :
    /\ claim[c].state \in {"approved", "paid"} =>
         /\ claim[c].signer \notin {NoUser, claim[c].by} /\ claim[c].hat # claim[c].of
         /\ c \in Required => c \in receipts \/ claim[c].waived
    /\ claim[c].posted = IF claim[c].state = "paid" THEN 1 ELSE 0

=============================================================================
