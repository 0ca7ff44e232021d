--------------------------- MODULE PaymentSessions --------------------------
(***************************************************************************)
(* The requests of PaymentRuns and of the approval desk as what they are:  *)
(* database sessions that overlap.  A session runs at READ COMMITTED: each *)
(* statement sees what is committed when it runs, objects already loaded   *)
(* are not read again, and nothing locks a row before it is written.  So a *)
(* request decides on what it read and writes, in one commit, over         *)
(* whatever others committed meanwhile.                                    *)
(*                                                                         *)
(* People, vendors and bank details are PaymentRuns' and left out here:    *)
(* what a request reads of them decides whether it is made at all.         *)
(***************************************************************************)
CONSTANTS Sessions, Runs, Invoices,
          Listed,   \* the invoices each prepared run lists
          Ops,      \* bound: the requests people make
          Desk      \* who pays when an invoice is marked paid by hand

RunOps == {"submit", "release", "reject"}
InvoiceOps == {"approve", "reject_invoice", "revert", "mark_paid"}

ASSUME ListedAssumption == Listed \in [Runs -> SUBSET Invoices]
ASSUME OpsAssumption == Ops \subseteq RunOps \cup InvoiceOps
ASSUME DeskAssumption == Desk \notin Runs

VARIABLES runState, invState,   \* committed
          payers,   \* committed marked_paid entries: who paid each invoice
          session   \* the request each session works on

\* History, which no guard reads.
VARIABLES missed,       \* per session: the invoices others wrote since it read them
          overwritten   \* the invoices a session wrote that had missed a write of them

history == <<missed, overwritten>>
vars == <<runState, invState, payers, session, history>>

\* The edge of the workflow each request takes.
From == [submit  |-> "draft", release |-> "pending_release", reject |-> "pending_release",
         approve |-> "pending_approval", reject_invoice |-> "pending_approval",
         revert  |-> "approved", mark_paid |-> "approved"]
To == [submit  |-> "pending_release", release |-> "released", reject |-> "rejected",
       approve |-> "approved", reject_invoice |-> "rejected",
       revert  |-> "pending_approval", mark_paid |-> "paid"]

RunStates == {"draft", "pending_release", "released", "rejected"}
InvStates == {"pending_approval", "approved", "rejected", "paid"}

Idle == [op |-> "none"]
Request == [op : RunOps, on : Runs, checked : SUBSET Invoices, settling : BOOLEAN]
           \cup [op : InvoiceOps, on : Invoices]

\* Runs are prepared over approved invoices, and drafts may share invoices.
Init ==
  /\ runState = [r \in Runs |-> "draft"]
  /\ invState = [i \in Invoices |-> "approved"]
  /\ payers = [i \in Invoices |-> {}]
  /\ session = [s \in Sessions |-> Idle]
  /\ missed = [s \in Sessions |-> {}]
  /\ overwritten = {}

Releasing(s) == session[s].op = "release"

\* The invoices that session s has read and is about to write.
Held(s) ==
  IF session[s].op \in InvoiceOps THEN {session[s].on}
  ELSE IF Releasing(s) /\ session[s].settling THEN Listed[session[s].on] ELSE {}

\* Session s ends, and has written these invoices.
Wrote(s, invoices) ==
  /\ session' = [session EXCEPT ![s] = Idle]
  /\ overwritten' = overwritten \cup (invoices \cap missed[s])
  /\ missed' = [t \in Sessions |->
                  IF t = s THEN {} ELSE missed[t] \cup (invoices \cap Held(t))]

-----------------------------------------------------------------------------
\* The request loads its row; transition_state looks at what was loaded.
OpenRun(s, op, r) ==
  /\ session[s] = Idle
  /\ runState[r] = From[op]
  /\ session' = [session EXCEPT ![s] =
                   [op |-> op, on |-> r, checked |-> {}, settling |-> FALSE]]
  /\ UNCHANGED <<runState, invState, payers, history>>

OpenInvoice(s, op, i) ==
  /\ session[s] = Idle
  /\ invState[i] = From[op]
  /\ session' = [session EXCEPT ![s] = [op |-> op, on |-> i]]
  /\ UNCHANGED <<runState, invState, payers, history>>

\* Mutant: only a run that is released has a claim on its invoices.
ClashReleased(r, i) == \E q \in Runs \ {r} : runState[q] = "released" /\ i \in Listed[q]

\* Claimed by another run that is released or awaiting release.
Clash(r, i) ==
  \E q \in Runs \ {r} : runState[q] \in {"released", "pending_release"} /\ i \in Listed[q]

\* payment_lines_still_payable goes through the lines, querying for each.
CheckLine(s, i) ==
  LET r == session[s].on IN
  /\ Releasing(s) /\ ~session[s].settling
  /\ i \in Listed[r] \ session[s].checked
  /\ invState[i] = "approved"
  /\ ~Clash(r, i)
  /\ session' = [session EXCEPT ![s].checked = @ \cup {i}]
  /\ UNCHANGED <<runState, invState, payers, history>>

\* The row of a run is locked from its first flush to the commit.
Locked(r) == \E t \in Sessions : Releasing(t) /\ session[t].settling /\ session[t].on = r

\* Mutant: what was read for the checks is not read again.
SettleAsChecked(s) ==
  LET r == session[s].on IN
  /\ Releasing(s) /\ ~session[s].settling
  /\ session[s].checked = Listed[r]
  /\ ~Locked(r)
  /\ session' = [session EXCEPT ![s].settling = TRUE]
  /\ UNCHANGED <<runState, invState, payers, history>>

\* The run is flushed and its invoices are read again, in one query.
SettleLines(s) ==
  LET r == session[s].on IN
  /\ Releasing(s) /\ ~session[s].settling
  /\ session[s].checked = Listed[r]
  /\ ~Locked(r)
  /\ \A i \in Listed[r] : invState[i] = "approved"
  /\ session' = [session EXCEPT ![s].settling = TRUE]
  /\ UNCHANGED <<runState, invState, payers, history>>

CommitRelease(s) ==
  LET r == session[s].on IN
  /\ Releasing(s) /\ session[s].settling
  /\ runState' = [runState EXCEPT ![r] = "released"]
  /\ invState' = [i \in Invoices |-> IF i \in Listed[r] THEN "paid" ELSE invState[i]]
  /\ payers' = [i \in Invoices |-> IF i \in Listed[r] THEN payers[i] \cup {r} ELSE payers[i]]
  /\ Wrote(s, Listed[r])

CommitRun(s) ==
  LET r == session[s].on IN
  /\ session[s].op \in {"submit", "reject"}
  /\ ~Locked(r)
  /\ runState' = [runState EXCEPT ![r] = To[session[s].op]]
  /\ Wrote(s, {})
  /\ UNCHANGED <<invState, payers>>

CommitInvoice(s) ==
  LET i == session[s].on IN
  /\ session[s].op \in InvoiceOps
  /\ invState' = [invState EXCEPT ![i] = To[session[s].op]]
  /\ payers' = IF session[s].op = "mark_paid"
                 THEN [payers EXCEPT ![i] = @ \cup {Desk}] ELSE payers
  /\ Wrote(s, {i})
  /\ UNCHANGED runState

\* A guard refuses, the database picks a deadlock victim, or the server dies:
\* nothing of the session is committed.
Abort(s) ==
  /\ session[s] # Idle
  /\ Wrote(s, {})
  /\ UNCHANGED <<runState, invState, payers>>

Next ==
  \E s \in Sessions :
    \/ \E op \in Ops \cap RunOps, r \in Runs : OpenRun(s, op, r)
    \/ \E op \in Ops \cap InvoiceOps, i \in Invoices : OpenInvoice(s, op, i)
    \/ \E i \in Invoices : CheckLine(s, i)
    \/ SettleLines(s) \/ CommitRelease(s) \/ CommitRun(s) \/ CommitInvoice(s)
    \/ Abort(s)

Spec == Init /\ [][Next]_vars

-----------------------------------------------------------------------------
(* Properties.                                                             *)

\* Rows and sessions hold values of their kind.
TypeOK ==
  /\ runState \in [Runs -> RunStates]
  /\ invState \in [Invoices -> InvStates]
  /\ payers \in [Invoices -> SUBSET (Runs \cup {Desk})]
  /\ session \in [Sessions -> Request \cup {Idle}]
  /\ missed \in [Sessions -> SUBSET Invoices]
  /\ overwritten \subseteq Invoices

\* payment_service.py:15-17, No double payment: money for an invoice does not
\* go out twice.  While nobody recalls a run that waits for release and nobody
\* marks invoices paid by hand, this holds however releases, submissions,
\* approvals and reverts overlap: a run that waits blocks every other run over
\* its invoices, so of two such runs neither passes its check.
NoDoublePayment == \A i \in Invoices : \A p, q \in payers[i] : p = q

\* payment_service.py:15-17 of every kind of request, recalls and payments by hand
\* included, which can make it fail: an invoice is `paid' exactly when somebody
\* paid it, and by one payer, unless a request wrote over a version of that very
\* invoice it had not read.  Whatever else overlaps does no harm: runs that
\* share invoices and are checked, recalled and submitted at once, checks that
\* were overtaken before the release read its invoices, and requests about
\* other invoices.
PaidOnceUnlessOverwritten ==
  \A i \in Invoices \ overwritten :
    /\ invState[i] = "paid" <=> payers[i] # {}
    /\ \A p, q \in payers[i] : p = q

=============================================================================
