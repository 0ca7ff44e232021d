---------------------------- MODULE Reconciliation ----------------------------
(***************************************************************************)
(* Bank statements against released payments (reconciliation.py): import,  *)
(* scored suggestions, and the match that a person confirms or undoes.     *)
(*                                                                         *)
(* A request that matches or unmatches runs in a session of its own: it    *)
(* reads and checks, then writes and commits, and other sessions commit in *)
(* between.  The unique index on matched_payment_id is the only thing two  *)
(* sessions meet at.                                                       *)
(***************************************************************************)
EXTENDS Governance, Integers, FiniteSets

CONSTANTS Payments, Statements,
          Lines, Debits,        \* the statement lines and those that are debits
          On,                   \* the statement each line is on
          Signal,               \* what a line and a payment have in common
          Matchers, NoPayment

ASSUME ReconciliationAssumption ==
  Debits \subseteq Lines /\ On \in [Lines -> Statements] /\ NoPayment \notin Payments

VARIABLES releasedBy,   \* of each payment; NoUser until it is released
          imported,     \* the statements, that is their file hashes, on file
          matched,      \* matched_payment_id and matched_by of each line
          matching

bankVars == <<releasedBy, imported, matched, matching>>

Unmatched == [payment |-> NoPayment, by |-> NoUser]
NotMatching == [op |-> "idle"]

ReconciliationInit ==
  /\ releasedBy = [p \in Payments |-> NoUser]
  /\ imported = {}
  /\ matched = [l \in Lines |-> Unmatched]
  /\ matching = [s \in Matchers |-> NotMatching]

\* PaymentRuns seen from here.
Release(u, p) ==
  /\ May(u, "payments.release")
  /\ releasedBy[p] = NoUser
  /\ releasedBy' = [releasedBy EXCEPT ![p] = u]
  /\ UNCHANGED <<imported, matched, matching>>

\* The same file is refused a second time.
ImportStatement(u, st) ==
  /\ May(u, "bank_statements.import")
  /\ st \notin imported
  /\ imported' = imported \cup {st}
  /\ UNCHANGED <<releasedBy, matched, matching>>

-----------------------------------------------------------------------------
(* Suggestions.                                                            *)

MINIMUM_SCORE == 40

AmountScore(x) == CASE x.amount = "exact" -> 40 [] x.amount = "near" -> 20 [] OTHER -> 0

DateScore(x) ==
  CASE x.days = "unknown" -> 0 [] x.days = "near" -> 15 [] x.days = "window" -> 8 [] OTHER -> -20

\* A different amount cannot be made up for.
Score(x) ==
  LET sum == (IF x.quotesNumber THEN 60 ELSE 0) + AmountScore(x) + DateScore(x)
             + (IF x.sameName THEN 15 ELSE 0) - (IF x.otherCurrency THEN 30 ELSE 0)
  IN  IF x.amount = "off" \/ sum < 0 THEN 0 ELSE sum

OnFile(l) == On[l] \in imported

Claimed(l, p) == \E k \in Lines \ {l} : matched[k].payment = p

\* _candidates; the best five of them are shown.
Candidates(l) ==
  {p \in Payments : /\ l \in Debits
                    /\ releasedBy[p] # NoUser
                    /\ ~Claimed(l, p)
                    /\ Score(Signal[l][p]) >= MINIMUM_SCORE}

-----------------------------------------------------------------------------
(* Matching.                                                               *)

\* Any released payment may be confirmed, suggested or not.
Confirmable(l, p) ==
  /\ OnFile(l) /\ l \in Debits
  /\ matched[l].payment = NoPayment
  /\ releasedBy[p] # NoUser
  /\ ~Claimed(l, p)

BeginConfirm(s, u, l, p) ==
  /\ May(u, "bank_statements.reconcile")
  /\ matching[s] = NotMatching
  /\ Confirmable(l, p)
  /\ ~ViolatesSelfReconciliation(releasedBy[p], u)
  /\ matching' = [matching EXCEPT ![s] = [op |-> "confirm", line |-> l, payment |-> p, by |-> u]]
  /\ UNCHANGED <<releasedBy, imported, matched>>

BeginUnmatch(s, u, l) ==
  /\ May(u, "bank_statements.reconcile")
  /\ matching[s] = NotMatching
  /\ matched[l].payment # NoPayment
  /\ matching' = [matching EXCEPT ![s] = [op |-> "unmatch", line |-> l, payment |-> NoPayment,
                                        by |-> NoUser]]
  /\ UNCHANGED <<releasedBy, imported, matched>>

\* Mutant: no unique index on matched_payment_id.
CommitUnindexed(s) ==
  /\ matching[s] # NotMatching
  /\ matched' = [matched EXCEPT ![matching[s].line] =
                   [payment |-> matching[s].payment, by |-> matching[s].by]]
  /\ matching' = [matching EXCEPT ![s] = NotMatching]
  /\ UNCHANGED <<releasedBy, imported>>

CommitMatch(s) ==
  /\ matching[s] # NotMatching
  /\ matching[s].op = "confirm" => ~Claimed(matching[s].line, matching[s].payment)
  /\ matched' = [matched EXCEPT ![matching[s].line] =
                   [payment |-> matching[s].payment, by |-> matching[s].by]]
  /\ matching' = [matching EXCEPT ![s] = NotMatching]
  /\ UNCHANGED <<releasedBy, imported>>

\* The index refuses the row, or the request dies: nothing is written.
AbortMatch(s) ==
  /\ matching[s] # NotMatching
  /\ matching' = [matching EXCEPT ![s] = NotMatching]
  /\ UNCHANGED <<releasedBy, imported, matched>>

ReconciliationNext ==
  \/ \E u \in Users : \/ \E p \in Payments : Release(u, p)
                      \/ \E st \in Statements : ImportStatement(u, st)
                      \/ \E s \in Matchers, l \in Lines :
                           \/ \E p \in Payments : BeginConfirm(s, u, l, p)
                           \/ BeginUnmatch(s, u, l)
  \/ \E s \in Matchers : CommitMatch(s) \/ AbortMatch(s)

ReconciliationSpec == ReconciliationInit /\ [][ReconciliationNext]_bankVars

-----------------------------------------------------------------------------
(* Properties.                                                             *)

MatchRequests ==
  [op : {"confirm"}, line : Lines, payment : Payments, by : Users]
  \cup [op : {"unmatch"}, line : Lines, payment : {NoPayment}, by : {NoUser}]

\* Rows and sessions hold values of their kind, and an unmatched line has no
\* matcher.
ReconciliationTypeOK ==
  /\ releasedBy \in [Payments -> Users \cup {NoUser}] /\ imported \subseteq Statements
  /\ matched \in [Lines -> [payment : Payments, by : Users] \cup {Unmatched}]
  /\ matching \in [Matchers -> MatchRequests \cup {NotMatching}]

\* models/bank_statement.py:82-86: one payment, one bank debit, also when two
\* reconcilers act at once; and an open line is offered no payment that
\* explains another, nor one that could not be confirmed (reconciliation.py:387).
MatchedOnce ==
  /\ \A k, l \in Lines :
       k # l /\ matched[k].payment # NoPayment => matched[k].payment # matched[l].payment
  /\ \A l \in Lines : matched[l].payment = NoPayment /\ OnFile(l) =>
       \A p \in Candidates(l) : Confirmable(l, p)

\* reconciliation.py:263: a confirmed match goes only by being undone.
MatchStands ==
  [][\A l \in Lines : matched[l].payment # NoPayment =>
       matched'[l] \in {matched[l], Unmatched}]_bankVars

=============================================================================
