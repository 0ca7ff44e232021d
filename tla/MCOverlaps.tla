----------------------------- MODULE MCOverlaps -----------------------------
(***************************************************************************)
(* Where database sessions and background jobs overlap: small instances of *)
(* seven components that share no state, in one state space.  A behaviour    *)
(* belongs to one of them from its first state on, and the others stay as  *)
(* they are.                                                               *)
(***************************************************************************)
EXTENDS PaymentSessions, StockLedger, Reconciliation, AuditChain, Mail, Postings,
        SlaTimers, TLC

CONSTANTS ann, bob, cy, nobody,     \* who reconciles
          s1, s2, r1, r2, i1, i2, desk, p1, p2, l1, l2, l3, june, july, nop

VARIABLE part

\* Two payment runs over two invoices, both over the first, which are recalled and
\* paid by hand, and whose approval autopilot reverts.
Overlapping == [r \in Runs |-> IF r = r1 THEN {i1, i2} ELSE {i1}]
Payable == RunOps \cup {"mark_paid", "revert"}

\* A receipt to the bay, and two requests that lock bay and shelf in opposite
\* orders.
TwoWays == [receipt |-> <<[cell |-> "bay", quantity |-> 2]>>,
            putaway |-> <<[cell |-> "bay", quantity |-> -1], [cell |-> "shelf", quantity |-> 1]>>,
            adjust  |-> <<[cell |-> "shelf", quantity |-> 1], [cell |-> "bay", quantity |-> -1]>>]

\* A clerk without the permission to reconcile, a CFO and an administrator.
Treasury == {ann, bob, cy}
TreasuryRoles == (ann :> "ap_clerk" @@ bob :> "cfo" @@ cy :> "admin")

\* l1 equals p1 in amount, l2 is near p2 and quotes its number, l3 is a credit.
Statement == [l \in Lines |-> IF l = l1 THEN june ELSE july]
InCommon(amount, quoted) == [quotesNumber |-> quoted, amount |-> amount, days |-> "window",
                             sameName |-> FALSE, otherCurrency |-> FALSE]
Signals == [l \in Lines |-> [p \in Payments |->
              IF p = p1 THEN InCommon("exact", FALSE) ELSE InCommon("near", l = l2)]]

-----------------------------------------------------------------------------
Parts == {"payments", "stock", "bank", "audit", "mail", "postings", "sla"}

OverlapsInit ==
  /\ part \in Parts
  /\ Init /\ LedgerInit /\ ReconciliationInit /\ ChainInit
  /\ MailInit /\ PostingsInit /\ SlaInit
  /\ smtp => part = "mail"

Stays(own, state) == IF own THEN TRUE ELSE UNCHANGED state

\* The state of every part but this one stays as it is.
Only(name) ==
  /\ part = name /\ UNCHANGED part
  /\ Stays(name = "payments", vars)
  /\ Stays(name = "stock", ledgerVars)
  /\ Stays(name = "bank", bankVars)
  /\ Stays(name = "audit", chainVars)
  /\ Stays(name = "mail", mailVars)
  /\ Stays(name = "postings", postVars)
  /\ Stays(name = "sla", slaVars)

OverlapsNext ==
  \/ Only("payments") /\ Next
  \/ Only("stock") /\ LedgerNext
  \/ Only("bank") /\ ReconciliationNext
  \/ Only("audit") /\ ChainNext
  \/ Only("mail") /\ MailNext
  \/ Only("postings") /\ PostingsNext
  \/ Only("sla") /\ SlaNext

overlapsVars ==
  <<part, vars, ledgerVars, bankVars, chainVars, mailVars, postVars, slaVars>>

\* The fair actions of a part that did not start are never enabled.
OverlapsSpec ==
  /\ OverlapsInit /\ [][OverlapsNext]_overlapsVars
  /\ LedgerFairness /\ MailFairness /\ PostingsFairness /\ SlaFairness

=============================================================================
