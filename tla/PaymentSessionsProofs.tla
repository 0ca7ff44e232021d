------------------------ MODULE PaymentSessionsProofs -----------------------
(***************************************************************************)
(* What holds of overlapping payment requests, for any number of sessions, *)
(* runs and invoices.                                                      *)
(***************************************************************************)
EXTENDS PaymentSessions, TLAPS

\* Opening a session, checking a line, settling, committing or aborting keeps
\* every row and every session a value of its kind.
LEMMA InitType == Init => TypeOK
  BY DEF Init, TypeOK, RunStates, InvStates, Idle, Request

LEMMA HeldType == ASSUME TypeOK, NEW s \in Sessions PROVE Held(s) \subseteq Invoices
  BY ListedAssumption DEF TypeOK, Held, Releasing, Request, Idle, RunOps, InvoiceOps

\* A session that ends leaves the others as they are.
LEMMA WroteType ==
  ASSUME TypeOK, NEW s \in Sessions, NEW W \in SUBSET Invoices, Wrote(s, W)
  PROVE  /\ session' \in [Sessions -> Request \cup {Idle}]
         /\ session' = [session EXCEPT ![s] = Idle]
         /\ missed' \in [Sessions -> SUBSET Invoices] /\ overwritten' \subseteq Invoices
BY DEF TypeOK, Wrote

LEMMA TypeStep == ASSUME TypeOK, [Next]_vars PROVE TypeOK'
<1> USE ListedAssumption, OpsAssumption, DeskAssumption DEF TypeOK, history
<1>1. CASE UNCHANGED vars
  BY <1>1 DEF vars
<1>2. ASSUME NEW s \in Sessions, NEW op \in Ops \cap RunOps, NEW r \in Runs, OpenRun(s, op, r)
      PROVE  TypeOK'
  BY <1>2, [op |-> op, on |-> r, checked |-> {}, settling |-> FALSE] \in Request
     DEF OpenRun, Request
<1>3. ASSUME NEW s \in Sessions, NEW op \in Ops \cap InvoiceOps, NEW i \in Invoices,
             OpenInvoice(s, op, i)
      PROVE  TypeOK'
  BY <1>3, [op |-> op, on |-> i] \in Request DEF OpenInvoice, Request
<1>4. ASSUME NEW s \in Sessions, NEW i \in Invoices, CheckLine(s, i) PROVE TypeOK'
  <2>1. session[s] \in [op : RunOps, on : Runs, checked : SUBSET Invoices, settling : BOOLEAN]
    BY <1>4 DEF CheckLine, Releasing, Request, Idle, InvoiceOps
  <2>2. [session[s] EXCEPT !.checked = @ \cup {i}] \in Request
    BY <2>1 DEF Request
  <2> QED
    BY <1>4, <2>2 DEF CheckLine
<1>5. ASSUME NEW s \in Sessions, SettleLines(s) PROVE TypeOK'
  <2>1. session[s] \in [op : RunOps, on : Runs, checked : SUBSET Invoices, settling : BOOLEAN]
    BY <1>5 DEF SettleLines, Releasing, Request, Idle, InvoiceOps
  <2>2. [session[s] EXCEPT !.settling = TRUE] \in Request
    BY <2>1 DEF Request
  <2> QED
    BY <1>5, <2>2 DEF SettleLines
<1>6. ASSUME NEW s \in Sessions, CommitRelease(s) PROVE TypeOK'
  <2>1. session[s].on \in Runs
    BY <1>6 DEF CommitRelease, Releasing, Request, Idle, InvoiceOps
  <2> QED
    BY <1>6, <2>1, WroteType DEF CommitRelease, RunStates, InvStates
<1>7. ASSUME NEW s \in Sessions, CommitRun(s) PROVE TypeOK'
  <2>1. session[s].on \in Runs
    BY <1>7 DEF CommitRun, Request, Idle, InvoiceOps
  <2> QED
    BY <1>7, <2>1, WroteType DEF CommitRun, RunStates, To
<1>8. ASSUME NEW s \in Sessions, CommitInvoice(s) PROVE TypeOK'
  <2>1. session[s].on \in Invoices
    BY <1>8 DEF CommitInvoice, Request, Idle, InvoiceOps, RunOps
  <2>2. To[session[s].op] \in InvStates
    BY <1>8 DEF CommitInvoice, To, InvoiceOps, InvStates
  <2> QED
    BY <1>8, <2>1, <2>2, WroteType DEF CommitInvoice
<1>9. ASSUME NEW s \in Sessions, Abort(s) PROVE TypeOK'
  BY <1>9, WroteType DEF Abort
<1> QED
  BY <1>1, <1>2, <1>3, <1>4, <1>5, <1>6, <1>7, <1>8, <1>9 DEF Next

\* Rows and sessions hold values of their kind.
THEOREM TypeCorrect == Spec => []TypeOK
<1>1. Init => TypeOK
  BY InitType
<1>2. TypeOK /\ [Next]_vars => TypeOK'
  BY TypeStep
<1> QED
  BY <1>1, <1>2, PTL DEF Spec

-----------------------------------------------------------------------------
(* However requests overlap, as long as no waiting run is recalled.        *)

Claiming(r) == runState[r] \in {"pending_release", "released"}

\* Run r paid invoice i, or has it behind it on the way to a release.
Passed(r, i) ==
  \/ r \in payers[i]
  \/ \E s \in Sessions : /\ Releasing(s) /\ session[s].on = r
                         /\ i \in session[s].checked

\* A release that is under way works on a run that still waits or is released,
\* and what passed the check has no rival: the check of the second run over an
\* invoice would have met the claim of the first.
ClaimsInv ==
  /\ \A s \in Sessions : session[s].op \in Ops \cup {"none"}
  /\ \A s \in Sessions : Releasing(s) =>
       /\ Claiming(session[s].on)
       /\ session[s].settling => session[s].checked = Listed[session[s].on]
  /\ \A i \in Invoices : payers[i] \subseteq Runs
  /\ \A r \in Runs, i \in Invoices : Passed(r, i) => Claiming(r) /\ i \in Listed[r]
  /\ \A i \in Invoices : \A p, q \in Runs : Passed(p, i) /\ Passed(q, i) => p = q

LEMMA ClaimsInit == Init => ClaimsInv
  BY DEF Init, ClaimsInv, Passed, Releasing, Idle

LEMMA ClaimsStep ==
  ASSUME Ops \cap {"reject", "mark_paid"} = {}, TypeOK, ClaimsInv, [Next]_vars
  PROVE  ClaimsInv'
<1> USE ListedAssumption, OpsAssumption, DeskAssumption
<1>0. /\ \A s \in Sessions : Releasing(s) => session[s].on \in Runs /\ session[s].checked \subseteq Invoices
      /\ \A s \in Sessions : session[s] \in Request \cup {Idle}
  BY DEF TypeOK, Releasing, Request, Idle, InvoiceOps
<1>1. CASE UNCHANGED vars
  BY <1>1 DEF vars, ClaimsInv, Passed, Claiming, Releasing
<1>2. ASSUME NEW s \in Sessions, NEW op \in Ops \cap RunOps, NEW r \in Runs, OpenRun(s, op, r)
      PROVE  ClaimsInv'
  <2>1. \A t \in Sessions : session'[t] = IF t = s
           THEN [op |-> op, on |-> r, checked |-> {}, settling |-> FALSE] ELSE session[t]
    BY <1>2 DEF OpenRun, TypeOK
  <2>2. op = "release" => Claiming(r)
    BY <1>2 DEF OpenRun, From, Claiming
  <2>3. \A q \in Runs, i \in Invoices : Passed(q, i)' => Passed(q, i)
    BY <1>2, <2>1 DEF OpenRun, Passed, Releasing
  <2>4. \A q \in Runs : Claiming(q)' <=> Claiming(q)
    BY <1>2 DEF OpenRun, Claiming
  <2>5. \A t \in Sessions : Releasing(t)' =>
          /\ session'[t].on \in Runs
          /\ Claiming(session'[t].on)
          /\ session'[t].settling => session'[t].checked = Listed[session'[t].on]
    BY <1>0, <2>1, <2>2 DEF ClaimsInv, Releasing
  <2>6. \A t \in Sessions : session'[t].op \in Ops \cup {"none"}
    BY <2>1 DEF ClaimsInv
  <2>7. payers' = payers
    BY <1>2 DEF OpenRun
  <2> QED
    BY <2>3, <2>4, <2>5, <2>6, <2>7 DEF ClaimsInv
<1>3. ASSUME NEW s \in Sessions, NEW op \in Ops \cap InvoiceOps, NEW i \in Invoices,
             OpenInvoice(s, op, i)
      PROVE  ClaimsInv'
  <2>1. \A t \in Sessions : session'[t] = IF t = s THEN [op |-> op, on |-> i] ELSE session[t]
    BY <1>3 DEF OpenInvoice, TypeOK
  <2>2. op # "release"
    BY DEF InvoiceOps
  <2>3. runState' = runState /\ payers' = payers
    BY <1>3 DEF OpenInvoice
  <2>4. \A t \in Sessions : Releasing(t)' => Releasing(t) /\ session'[t] = session[t]
    BY <2>1, <2>2 DEF Releasing
  <2>5. \A q \in Runs, j \in Invoices : Passed(q, j)' => Passed(q, j)
    BY <2>3, <2>4 DEF Passed
  <2>6. \A t \in Sessions : session'[t].op \in Ops \cup {"none"}
    BY <2>1 DEF ClaimsInv
  <2> QED
    BY <1>0, <2>3, <2>4, <2>5, <2>6 DEF ClaimsInv, Claiming
<1>4. ASSUME NEW s \in Sessions, NEW i \in Invoices, CheckLine(s, i) PROVE ClaimsInv'
  <2> DEFINE r == session[s].on
  <2>1. Releasing(s) /\ ~session[s].settling /\ i \in Listed[r] /\ ~Clash(r, i)
    BY <1>4 DEF CheckLine
  <2>2. runState' = runState /\ payers' = payers
    BY <1>4 DEF CheckLine
  <2>3. \A t \in Sessions : t # s => session'[t] = session[t]
    BY <1>4 DEF CheckLine, TypeOK
  <2>4. /\ session'[s].op = "release" /\ session'[s].on = r
        /\ session'[s].settling = session[s].settling
        /\ session'[s].checked = session[s].checked \cup {i}
    <3>1. session[s] \in [op : RunOps, on : Runs, checked : SUBSET Invoices, settling : BOOLEAN]
      BY <2>1, <1>0 DEF Releasing, Request, Idle, InvoiceOps
    <3> QED
      BY <1>4, <2>1, <3>1 DEF CheckLine, TypeOK, Releasing
  <2>5. \A q \in Runs, j \in Invoices : Passed(q, j)' => Passed(q, j) \/ (q = r /\ j = i)
    BY <2>1, <2>2, <2>3, <2>4 DEF Passed, Releasing
  <2>6. \A q \in Runs : Passed(q, i) => q = r
    BY <2>1 DEF Clash, ClaimsInv, Claiming
  <2>7. Claiming(r) /\ r \in Runs
    BY <1>0, <2>1 DEF ClaimsInv
  <2>8. "release" \in Ops
    BY <2>1 DEF ClaimsInv, Releasing
  <2>9. \A t \in Sessions : Releasing(t)' =>
          /\ Claiming(session'[t].on)
          /\ session'[t].settling => session'[t].checked = Listed[session'[t].on]
    BY <2>1, <2>3, <2>4, <2>7 DEF ClaimsInv, Releasing
  <2>10. \A t \in Sessions : session'[t].op \in Ops \cup {"none"}
    BY <2>3, <2>4, <2>8 DEF ClaimsInv
  <2>11. \A q \in Runs, j \in Invoices : Passed(q, j)' => Claiming(q) /\ j \in Listed[q]
    BY <2>1, <2>5, <2>7 DEF ClaimsInv
  <2>12. \A j \in Invoices : \A p, q \in Runs : Passed(p, j)' /\ Passed(q, j)' => p = q
    BY <2>5, <2>6 DEF ClaimsInv
  <2>13. \A q : Claiming(q)' <=> Claiming(q)
    BY <2>2 DEF Claiming
  <2> QED
    BY <2>2, <2>9, <2>10, <2>11, <2>12, <2>13 DEF ClaimsInv
<1>5. ASSUME NEW s \in Sessions, SettleLines(s) PROVE ClaimsInv'
  <2>1. Releasing(s) /\ session[s].checked = Listed[session[s].on]
    BY <1>5 DEF SettleLines
  <2>2. runState' = runState /\ payers' = payers
    BY <1>5 DEF SettleLines
  <2>3. \A t \in Sessions : t # s => session'[t] = session[t]
    BY <1>5 DEF SettleLines, TypeOK
  <2>4. /\ session'[s].op = "release" /\ session'[s].on = session[s].on
        /\ session'[s].checked = session[s].checked
    <3>1. session[s] \in [op : RunOps, on : Runs, checked : SUBSET Invoices, settling : BOOLEAN]
      BY <2>1, <1>0 DEF Releasing, Request, Idle, InvoiceOps
    <3> QED
      BY <1>5, <2>1, <3>1 DEF SettleLines, TypeOK, Releasing
  <2>5. \A t \in Sessions : Releasing(t)' <=> Releasing(t)
    BY <2>1, <2>3, <2>4 DEF Releasing
  <2>6. \A q \in Runs, j \in Invoices : Passed(q, j)' => Passed(q, j)
    BY <2>2, <2>3, <2>4, <2>5 DEF Passed
  <2>7. \A t \in Sessions : session'[t].op \in Ops \cup {"none"}
    BY <2>1, <2>3, <2>4 DEF ClaimsInv, Releasing
  <2>8. \A t \in Sessions : Releasing(t) =>
          /\ session'[t].on = session[t].on
          /\ session'[t].settling => session'[t].checked = Listed[session'[t].on]
    BY <2>1, <2>3, <2>4 DEF ClaimsInv
  <2>9. \A q : Claiming(q)' <=> Claiming(q)
    BY <2>2 DEF Claiming
  <2> QED
    BY <2>2, <2>5, <2>6, <2>7, <2>8, <2>9 DEF ClaimsInv
<1>6. ASSUME NEW s \in Sessions, CommitRelease(s) PROVE ClaimsInv'
  <2> DEFINE r == session[s].on
  <2>1. /\ Releasing(s) /\ session[s].settling /\ session[s].checked = Listed[r] /\ r \in Runs
        /\ Claiming(r)
    BY <1>0, <1>6 DEF CommitRelease, ClaimsInv
  <2>2. \A t \in Sessions : session'[t] = IF t = s THEN Idle ELSE session[t]
    BY <1>6 DEF CommitRelease, Wrote, TypeOK
  <2>3. \A q \in Runs : Claiming(q) => Claiming(q)'
    BY <1>6, <2>1 DEF CommitRelease, Claiming, TypeOK
  <2>4. \A i \in Invoices : payers'[i] = IF i \in Listed[r] THEN payers[i] \cup {r} ELSE payers[i]
    BY <1>6 DEF CommitRelease
  <2>5. \A t \in Sessions : Releasing(t)' => Releasing(t) /\ session'[t] = session[t]
    BY <2>2 DEF Releasing, Idle
  <2>6. ASSUME NEW q \in Runs, NEW i \in Invoices, Passed(q, i)' PROVE Passed(q, i)
    <3>1. CASE q \in payers'[i]
      <4>1. CASE q \in payers[i]
        BY <4>1 DEF Passed
      <4>2. CASE q = r /\ i \in Listed[r]
        BY <2>1, <4>2 DEF Passed
      <4> HIDE DEF r
      <4> QED
        BY <2>4, <3>1, <4>1, <4>2
    <3>2. CASE \E t \in Sessions : Releasing(t)' /\ session'[t].on = q /\ i \in session'[t].checked
      BY <2>5, <3>2 DEF Passed
    <3> QED
      BY <2>6, <3>1, <3>2 DEF Passed
  <2>7. \A t \in Sessions : session'[t].op \in Ops \cup {"none"}
    BY <2>2 DEF ClaimsInv, Idle
  <2>8. \A i \in Invoices : payers'[i] \subseteq Runs
    <3>1. r \in Runs /\ \A i \in Invoices : payers[i] \subseteq Runs
      BY <2>1 DEF ClaimsInv
    <3> HIDE DEF r
    <3> QED
      BY <2>4, <3>1
  <2> QED
    BY <1>0, <2>3, <2>5, <2>6, <2>7, <2>8 DEF ClaimsInv
<1>7. ASSUME NEW s \in Sessions, CommitRun(s) PROVE ClaimsInv'
  <2>1. session[s].op = "submit"
    BY <1>7 DEF CommitRun, ClaimsInv
  <2>2. session[s].on \in Runs
    BY <1>0, <2>1 DEF Request, Idle, InvoiceOps
  <2>3. \A t \in Sessions : session'[t] = IF t = s THEN Idle ELSE session[t]
    BY <1>7 DEF CommitRun, Wrote, TypeOK
  <2>4. \A q \in Runs : Claiming(q) => Claiming(q)'
    BY <1>7, <2>1, <2>2 DEF CommitRun, Claiming, TypeOK, To
  <2>5. payers' = payers
    BY <1>7 DEF CommitRun
  <2>6. \A t \in Sessions : Releasing(t)' => Releasing(t) /\ session'[t] = session[t]
    BY <2>3 DEF Releasing, Idle
  <2>7. \A q \in Runs, i \in Invoices : Passed(q, i)' => Passed(q, i)
    BY <2>5, <2>6 DEF Passed
  <2>8. \A t \in Sessions : session'[t].op \in Ops \cup {"none"}
    BY <2>3 DEF ClaimsInv, Idle
  <2> QED
    BY <1>0, <2>4, <2>5, <2>6, <2>7, <2>8 DEF ClaimsInv
<1>8. ASSUME NEW s \in Sessions, CommitInvoice(s) \/ Abort(s) PROVE ClaimsInv'
  <2>1. session[s].op # "mark_paid"
    BY DEF ClaimsInv
  <2>2. payers' = payers /\ runState' = runState
    BY <1>8, <2>1 DEF CommitInvoice, Abort
  <2>3. \A t \in Sessions : session'[t] = IF t = s THEN Idle ELSE session[t]
    BY <1>8 DEF CommitInvoice, Abort, Wrote, TypeOK
  <2>4. \A t \in Sessions : Releasing(t)' => Releasing(t) /\ session'[t] = session[t]
    BY <2>3 DEF Releasing, Idle
  <2>5. \A q \in Runs, i \in Invoices : Passed(q, i)' => Passed(q, i)
    BY <2>2, <2>4 DEF Passed
  <2>6. \A t \in Sessions : session'[t].op \in Ops \cup {"none"}
    BY <2>3 DEF ClaimsInv, Idle
  <2>7. \A q : Claiming(q)' <=> Claiming(q)
    BY <2>2 DEF Claiming
  <2> QED
    BY <2>2, <2>4, <2>5, <2>6, <2>7 DEF ClaimsInv
<1> QED
  BY <1>1, <1>2, <1>3, <1>4, <1>5, <1>6, <1>7, <1>8 DEF Next

\* No double payment (payment_service.py:15-17), for any number of sessions:
\* while nobody recalls a waiting run and nobody pays by hand, no overlap of
\* requests makes money for one invoice go out twice.
THEOREM OverlapPaysOnce ==
  ASSUME Ops \cap {"reject", "mark_paid"} = {}
  PROVE  Spec => []NoDoublePayment
<1>1. Init => ClaimsInv
  BY ClaimsInit
<1>2. TypeOK /\ ClaimsInv /\ [Next]_vars => ClaimsInv'
  BY ClaimsStep
<1>3. ClaimsInv => NoDoublePayment
  BY DEF ClaimsInv, NoDoublePayment, Passed
<1> QED
  BY <1>1, <1>2, <1>3, TypeCorrect, PTL DEF Spec

-----------------------------------------------------------------------------
(* However requests overlap, recalls and payments by hand included.        *)

\* The state in which session s has read the invoices it is about to write.
ReadAs(s) == IF Releasing(s) THEN "approved" ELSE From[session[s].op]

\* An invoice a session has read and not missed a write of is still as it was.
RaceInv ==
  /\ PaidOnceUnlessOverwritten
  /\ \A s \in Sessions : \A i \in Held(s) \ missed[s] : invState[i] = ReadAs(s)

LEMMA RaceInit == Init => RaceInv
  BY DEF Init, RaceInv, PaidOnceUnlessOverwritten, Held, Releasing, Idle, InvoiceOps

\* What a session has read depends on its own request alone.
LEMMA HeldKept ==
  ASSUME NEW t, session'[t] = session[t]
  PROVE  Held(t)' = Held(t) /\ ReadAs(t)' = ReadAs(t)
BY DEF Held, ReadAs, Releasing

\* A request of which the other sessions learn nothing: it opens, or reads on.
LEMMA ReadingStep ==
  ASSUME TypeOK, RaceInv, NEW s \in Sessions,
         \A t \in Sessions \ {s} : session'[t] = session[t],
         UNCHANGED <<invState, payers, history>>,
         \A i \in Held(s)' : invState[i] = ReadAs(s)' \/ i \in missed[s]
  PROVE  RaceInv'
<1>1. PaidOnceUnlessOverwritten'
  BY DEF RaceInv, PaidOnceUnlessOverwritten, history
<1>2. ASSUME NEW t \in Sessions, NEW i \in Held(t)' \ missed'[t] PROVE invState'[i] = ReadAs(t)'
  <2>1. invState' = invState /\ missed' = missed
    BY DEF history
  <2>2. CASE t = s
    BY <1>2, <2>1, <2>2
  <2>3. CASE t # s
    BY <1>2, <2>1, <2>3, HeldKept DEF RaceInv
  <2> QED
    BY <2>2, <2>3
<1> QED
  BY <1>1, <1>2 DEF RaceInv

\* An invoice is paid exactly when somebody paid it, and by one payer.
PaidOnce(i) == (invState[i] = "paid" <=> payers[i] # {}) /\ \A p, q \in payers[i] : p = q

\* What a session has read, missed no write of and did not find paid, nobody has paid.
LEMMA FoundUnpaid ==
  ASSUME RaceInv, NEW s \in Sessions, ReadAs(s) # "paid",
         NEW i \in Held(s) \ missed[s], i \in Invoices \ overwritten
  PROVE  invState[i] = ReadAs(s) /\ payers[i] = {}
<1>1. invState[i] = ReadAs(s)
  BY DEF RaceInv
<1>2. invState[i] = "paid" <=> payers[i] # {}
  BY DEF RaceInv, PaidOnceUnlessOverwritten
<1> QED
  BY <1>1, <1>2

\* A session ends and writes some of what it had read: whoever has read one of
\* these invoices misses the write.
LEMMA WritingStep ==
  ASSUME TypeOK, RaceInv, NEW s \in Sessions, NEW W \in SUBSET Invoices, Wrote(s, W),
         \A i \in W : i \notin overwritten /\ i \notin missed[s] => PaidOnce(i)',
         \A i \in Invoices \ W : invState'[i] = invState[i] /\ payers'[i] = payers[i]
  PROVE  RaceInv'
<1>1. /\ \A t \in Sessions \ {s} : session'[t] = session[t]
      /\ session'[s] = Idle
      /\ overwritten' = overwritten \cup (W \cap missed[s])
      /\ \A t \in Sessions \ {s} : missed'[t] = missed[t] \cup (W \cap Held(t))
  BY DEF Wrote, TypeOK
<1>2. ASSUME NEW i \in Invoices \ overwritten' PROVE PaidOnce(i)'
  <2>1. i \notin overwritten /\ (i \in W => i \notin missed[s])
    BY <1>1, <1>2
  <2>2. CASE i \notin W
    BY <2>1, <2>2 DEF RaceInv, PaidOnceUnlessOverwritten, PaidOnce
  <2>3. CASE i \in W
    BY <2>1, <2>3
  <2> QED
    BY <2>2, <2>3
<1>3. ASSUME NEW t \in Sessions, NEW i \in Held(t)' \ missed'[t] PROVE invState'[i] = ReadAs(t)'
  <2>1. t # s
    BY <1>1, <1>3 DEF Held, Releasing, Idle, InvoiceOps
  <2>2. Held(t)' = Held(t) /\ ReadAs(t)' = ReadAs(t)
    BY <1>1, <2>1, HeldKept
  <2>3. i \in Held(t) \ missed[t] /\ i \notin W
    BY <1>1, <1>3, <2>1, <2>2
  <2>4. i \in Invoices
    BY <2>3, HeldType
  <2> QED
    BY <2>2, <2>3, <2>4 DEF RaceInv
<1> QED
  BY <1>2, <1>3 DEF RaceInv, PaidOnceUnlessOverwritten, PaidOnce

LEMMA RaceStep == ASSUME TypeOK, RaceInv, [Next]_vars PROVE RaceInv'
<1> USE ListedAssumption, OpsAssumption
<1>1. CASE UNCHANGED vars
  BY <1>1 DEF vars, history, RaceInv, PaidOnceUnlessOverwritten, Held, ReadAs, Releasing
<1>2. ASSUME NEW s \in Sessions, NEW op \in Ops \cap RunOps, NEW r \in Runs, OpenRun(s, op, r)
      PROVE  RaceInv'
  <2>1. /\ \A t \in Sessions \ {s} : session'[t] = session[t]
        /\ session'[s] = [op |-> op, on |-> r, checked |-> {}, settling |-> FALSE]
    BY <1>2 DEF OpenRun, TypeOK
  <2>2. Held(s)' = {}
    BY <2>1 DEF Held, RunOps, InvoiceOps
  <2> QED
    BY <1>2, <2>1, <2>2, ReadingStep DEF OpenRun
<1>3. ASSUME NEW s \in Sessions, NEW op \in Ops \cap InvoiceOps, NEW i \in Invoices,
             OpenInvoice(s, op, i)
      PROVE  RaceInv'
  <2>1. /\ \A t \in Sessions \ {s} : session'[t] = session[t]
        /\ session'[s] = [op |-> op, on |-> i]
    BY <1>3 DEF OpenInvoice, TypeOK
  <2>2. Held(s)' = {i} /\ ReadAs(s)' = From[op]
    BY <2>1 DEF Held, ReadAs, Releasing, InvoiceOps
  <2> QED
    BY <1>3, <2>1, <2>2, ReadingStep DEF OpenInvoice
<1>4. ASSUME NEW s \in Sessions, (\E i \in Invoices : CheckLine(s, i)) \/ SettleLines(s)
      PROVE  RaceInv'
  <2>1. /\ session[s] \in [op : RunOps, on : Runs, checked : SUBSET Invoices, settling : BOOLEAN]
        /\ session[s].op = "release" /\ ~session[s].settling
    BY <1>4 DEF CheckLine, SettleLines, Releasing, TypeOK, Request, Idle, InvoiceOps
  <2>2. /\ \A t \in Sessions \ {s} : session'[t] = session[t]
        /\ session'[s].op = "release" /\ session'[s].on = session[s].on
        /\ UNCHANGED <<invState, payers, history>>
    BY <1>4, <2>1 DEF CheckLine, SettleLines, TypeOK
  <2>3. session'[s].settling => \A i \in Listed[session[s].on] : invState[i] = "approved"
    <3>1. CASE SettleLines(s)
      BY <3>1 DEF SettleLines
    <3>2. ASSUME NEW i \in Invoices, CheckLine(s, i) PROVE ~session'[s].settling
      BY <3>2, <2>1 DEF CheckLine, TypeOK
    <3> QED
      BY <1>4, <3>1, <3>2
  <2>4. \A i \in Held(s)' : invState[i] = ReadAs(s)'
    BY <2>2, <2>3 DEF Held, ReadAs, Releasing, InvoiceOps
  <2> QED
    BY <2>2, <2>4, ReadingStep
<1>5. ASSUME NEW s \in Sessions, CommitRelease(s) PROVE RaceInv'
  <2> DEFINE r == session[s].on
  <2>1. Listed[r] \in SUBSET Invoices /\ Held(s) = Listed[r] /\ ReadAs(s) = "approved"
    BY <1>5 DEF CommitRelease, Releasing, TypeOK, Request, Idle, InvoiceOps, Held, ReadAs
  <2>2. /\ \A i \in Listed[r] : invState'[i] = "paid" /\ payers'[i] = payers[i] \cup {r}
        /\ \A i \in Invoices \ Listed[r] : invState'[i] = invState[i] /\ payers'[i] = payers[i]
        /\ Wrote(s, Listed[r])
    BY <1>5, <2>1 DEF CommitRelease
  <2> HIDE DEF r
  <2>3. ASSUME NEW i \in Listed[r], i \notin overwritten, i \notin missed[s] PROVE PaidOnce(i)'
    <3>1. payers[i] = {}
      BY <2>1, <2>3, FoundUnpaid
    <3> QED
      BY <2>2, <3>1 DEF PaidOnce
  <2> QED
    BY <2>1, <2>2, <2>3, WritingStep
<1>6. ASSUME NEW s \in Sessions, CommitRun(s) \/ Abort(s) PROVE RaceInv'
  <2>1. Wrote(s, {}) /\ invState' = invState /\ payers' = payers
    BY <1>6 DEF CommitRun, Abort
  <2>2. {} \in SUBSET Invoices
    OBVIOUS
  <2> QED
    BY <2>1, <2>2, WritingStep
<1>7. ASSUME NEW s \in Sessions, CommitInvoice(s) PROVE RaceInv'
  <2> DEFINE i == session[s].on
             op == session[s].op
  <2>1. i \in Invoices /\ op \in InvoiceOps /\ Held(s) = {i} /\ ReadAs(s) = From[op]
    BY <1>7 DEF CommitInvoice, TypeOK, Request, Idle, RunOps, InvoiceOps, Held, ReadAs, Releasing
  <2>2. ReadAs(s) # "paid" /\ To[op] \in InvStates /\ (To[op] = "paid" <=> op = "mark_paid")
    BY <2>1 DEF From, To, InvoiceOps, InvStates
  <2>3. /\ invState'[i] = To[op]
        /\ payers'[i] = IF op = "mark_paid" THEN payers[i] \cup {Desk} ELSE payers[i]
        /\ \A j \in Invoices \ {i} : invState'[j] = invState[j] /\ payers'[j] = payers[j]
        /\ Wrote(s, {i})
    BY <1>7, <2>1 DEF CommitInvoice, TypeOK
  <2> HIDE DEF i, op
  <2>4. ASSUME NEW j \in {i}, j \notin overwritten, j \notin missed[s] PROVE PaidOnce(j)'
    <3>1. payers[j] = {}
      BY <2>1, <2>2, <2>4, FoundUnpaid
    <3>2. invState'[j] = To[op] /\ payers'[j] = IF op = "mark_paid" THEN {Desk} ELSE {}
      BY <2>3, <2>4, <3>1
    <3> QED
      BY <2>2, <3>2 DEF PaidOnce
  <2> QED
    BY <2>1, <2>3, <2>4, WritingStep
<1> QED
  BY <1>1, <1>2, <1>3, <1>4, <1>5, <1>6, <1>7 DEF Next

\* Whatever people ask for, and however their requests overlap: an invoice that
\* no request wrote over unread is `paid' exactly when somebody paid it, and by
\* one payer.  So with requests that follow each other nothing is paid twice.
THEOREM OverwritingAlonePaysTwice == Spec => []PaidOnceUnlessOverwritten
<1>1. Init => RaceInv
  BY RaceInit
<1>2. TypeOK /\ RaceInv /\ [Next]_vars => RaceInv'
  BY RaceStep
<1>3. RaceInv => PaidOnceUnlessOverwritten
  BY DEF RaceInv
<1> QED
  BY <1>1, <1>2, <1>3, TypeCorrect, PTL DEF Spec

=============================================================================
