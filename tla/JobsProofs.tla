----------------------------- MODULE JobsProofs -----------------------------
(***************************************************************************)
(* Theorems about what runs side by side outside the payment requests: the *)
(* matching of bank statements, the escalation timers, the accounting      *)
(* outbox, the stock ledger, the mailer, and the sessions that write an    *)
(* audit trail.                                                            *)
(*                                                                         *)
(* Four of these jobs check before they act and commit at their end, so    *)
(* two of them may do the same thing.  How often is bounded by an argument *)
(* they share: once it was done, what is still going to repeat it is among *)
(* the jobs that had checked before, and every repetition takes one away.  *)
(***************************************************************************)
EXTENDS Reconciliation, SlaTimers, Postings, StockLedger, Mail, AuditChain, Sums,
        SequenceTheorems

-----------------------------------------------------------------------------
(* Reconciliation.                                                         *)

\* No payment explains two debits: the part of MatchedOnce that steps can break.
OneDebitEach ==
  \A k, l \in Lines :
    k # l /\ matched[k].payment # NoPayment => matched[k].payment # matched[l].payment

\* What a committed or aborted request leaves of the rows keeps their kind, and
\* the index keeps every payment to one debit.
LEMMA MatchStep ==
  ASSUME ReconciliationTypeOK, OneDebitEach, [ReconciliationNext]_bankVars
  PROVE  ReconciliationTypeOK' /\ OneDebitEach'
<1> USE NoUserAssumption, ReconciliationAssumption DEF ReconciliationTypeOK
<1>1. CASE UNCHANGED bankVars
  BY <1>1 DEF bankVars, OneDebitEach
<1>2. ASSUME NEW u \in Users, NEW p \in Payments, Release(u, p)
      PROVE  ReconciliationTypeOK' /\ OneDebitEach'
  BY <1>2 DEF Release, OneDebitEach
<1>3. ASSUME NEW u \in Users, NEW st \in Statements, ImportStatement(u, st)
      PROVE  ReconciliationTypeOK' /\ OneDebitEach'
  BY <1>3 DEF ImportStatement, OneDebitEach
<1>4. ASSUME NEW u \in Users, NEW s \in Matchers, NEW l \in Lines, NEW p \in Payments,
             BeginConfirm(s, u, l, p)
      PROVE  ReconciliationTypeOK' /\ OneDebitEach'
  <2>1. [op |-> "confirm", line |-> l, payment |-> p, by |-> u] \in MatchRequests
    BY DEF MatchRequests
  <2> QED
    BY <1>4, <2>1 DEF BeginConfirm, OneDebitEach
<1>5. ASSUME NEW u \in Users, NEW s \in Matchers, NEW l \in Lines, BeginUnmatch(s, u, l)
      PROVE  ReconciliationTypeOK' /\ OneDebitEach'
  <2>1. [op |-> "unmatch", line |-> l, payment |-> NoPayment, by |-> NoUser] \in MatchRequests
    BY DEF MatchRequests
  <2> QED
    BY <1>5, <2>1 DEF BeginUnmatch, OneDebitEach
<1>6. ASSUME NEW s \in Matchers, CommitMatch(s)
      PROVE  ReconciliationTypeOK' /\ OneDebitEach'
  <2> DEFINE l == matching[s].line
             r == [payment |-> matching[s].payment, by |-> matching[s].by]
  <2>1. matching[s] \in MatchRequests
    BY <1>6 DEF CommitMatch
  <2>2. l \in Lines
    BY <2>1 DEF MatchRequests
  <2>3. \/ matching[s].op = "confirm" /\ r \in [payment : Payments, by : Users]
        \/ r = Unmatched
    BY <2>1 DEF MatchRequests, Unmatched
  <2>4. /\ matched' = [matched EXCEPT ![l] = r]
        /\ matching' = [matching EXCEPT ![s] = NotMatching]
        /\ UNCHANGED <<releasedBy, imported>>
        /\ matching[s].op = "confirm" => \A k \in Lines \ {l} : matched[k].payment # r.payment
    BY <1>6 DEF CommitMatch, Claimed
  <2>5. r.payment = NoPayment \/ \A k \in Lines \ {l} : matched[k].payment # r.payment
    BY <2>3, <2>4 DEF Unmatched
  <2> HIDE DEF l, r
  <2>6. ReconciliationTypeOK'
    BY <2>2, <2>3, <2>4
  <2>7. OneDebitEach'
    BY <2>2, <2>4, <2>5 DEF OneDebitEach
  <2> QED
    BY <2>6, <2>7
<1>7. ASSUME NEW s \in Matchers, AbortMatch(s)
      PROVE  ReconciliationTypeOK' /\ OneDebitEach'
  BY <1>7 DEF AbortMatch, OneDebitEach
<1> QED
  BY <1>1, <1>2, <1>3, <1>4, <1>5, <1>6, <1>7 DEF ReconciliationNext

\* At first nothing is matched.
LEMMA MatchInit == ReconciliationInit => ReconciliationTypeOK /\ OneDebitEach
BY DEF ReconciliationInit, ReconciliationTypeOK, OneDebitEach, Unmatched

\* Payments, statements, lines and sessions hold values of their kind.
THEOREM ReconciliationTypeCorrect == ReconciliationSpec => []ReconciliationTypeOK
<1>1. ReconciliationTypeOK /\ OneDebitEach /\ [ReconciliationNext]_bankVars
        => ReconciliationTypeOK' /\ OneDebitEach'
  BY MatchStep
<1> QED
  BY <1>1, MatchInit, PTL DEF ReconciliationSpec

\* The suggestions for an open line are among what may be confirmed.
LEMMA SuggestionsAreConfirmable ==
  ASSUME NEW l \in Lines, matched[l].payment = NoPayment, OnFile(l), NEW p \in Candidates(l)
  PROVE  Confirmable(l, p)
BY DEF Candidates, Confirmable

\* reconciliation.py:263 and the unique index of models/bank_statement.py:82: a
\* payment explains at most one debit of the bank's, however many people match
\* at the same time, and what is suggested for a line can be confirmed.
THEOREM PaymentsExplainOneDebit == ReconciliationSpec => []MatchedOnce
<1>1. ReconciliationTypeOK /\ OneDebitEach /\ [ReconciliationNext]_bankVars
        => ReconciliationTypeOK' /\ OneDebitEach'
  BY MatchStep
<1>2. OneDebitEach => MatchedOnce
  BY SuggestionsAreConfirmable DEF OneDebitEach, MatchedOnce
<1> QED
  BY <1>1, <1>2, MatchInit, PTL DEF ReconciliationSpec

-----------------------------------------------------------------------------
(* SlaTimers.                                                              *)

SweepRecords == [kind : {"none", "remind", "escalate"}, todo : SUBSET Watched,
                 loaded : [Watched -> 0..MaxEntries], wrote : [Watched -> 0..MaxEntries]]

\* No sweep has loaded an entry that is still to come.
SlaInv ==
  /\ SlaTypeOK
  /\ \A s \in Sweeps, r \in Watched : sweep[s].loaded[r] <= entry[r]

\* The sweeps about to commit an escalation of the e-th entry of r.
Escalating(r, e) == {s \in Sweeps : sweep[s].kind = "escalate" /\ sweep[s].wrote[r] = e}

\* Once an entry is escalated, only sweeps that had made up their mind do it again.
SharedAlarms ==
  \A r \in Watched, e \in 1..MaxEntries :
    alarms[r][e] > 0 => alarms[r][e] + Cardinality(Escalating(r, e)) <= Cardinality(Sweeps)

\* What a step does to them: none is added; or one is, of an entry that was never
\* escalated; or one commits all it has to say.
NoneSpeaks ==
  /\ UNCHANGED alarms
  /\ \A r \in Watched, e \in 1..MaxEntries : Escalating(r, e)' \subseteq Escalating(r, e)
SpeaksOf(r) ==
  /\ UNCHANGED alarms
  /\ \A q \in Watched, e \in 1..MaxEntries :
       \/ Escalating(q, e)' \subseteq Escalating(q, e)
       \/ alarms[q][e] = 0
Commits(s) ==
  \A r \in Watched, e \in 1..MaxEntries :
    /\ alarms'[r][e] = IF s \in Escalating(r, e) THEN alarms[r][e] + 1 ELSE alarms[r][e]
    /\ Escalating(r, e)' \subseteq Escalating(r, e) \ {s}

\* A sweep that has not started is one of the sweeps' values.
LEMMA NoSweepType ==
  /\ NoSweep \in SweepRecords
  /\ \A r \in Watched : NoSweep.loaded[r] = 0 /\ NoSweep.wrote[r] = 0
<1> DEFINE f == [r \in Watched |-> 0]
<1>1. f \in [Watched -> 0..MaxEntries] /\ \A r \in Watched : f[r] = 0
  BY SlaAssumption
<1>2. NoSweep = [kind |-> "none", todo |-> {}, loaded |-> f, wrote |-> f]
  BY DEF NoSweep
<1> HIDE DEF f
<1>3. NoSweep.loaded = f /\ NoSweep.wrote = f
  BY <1>2
<1>4. NoSweep \in SweepRecords
  BY SlaAssumption DEF NoSweep, SweepRecords
<1> QED
  BY <1>1, <1>3, <1>4

\* Escalations are counted.
LEMMA AlarmsCount ==
  ASSUME SlaTypeOK PROVE \A r \in Watched, e \in 1..MaxEntries : alarms[r][e] \in Nat
<1>1. alarms \in [Watched -> [1..MaxEntries -> Nat]]
  BY DEF SlaTypeOK
<1> QED
  BY <1>1

\* Before any sweep nothing is escalated.
LEMMA SlaInitInv == SlaInit => SlaInv /\ SharedAlarms
<1> SUFFICES ASSUME SlaInit PROVE SlaInv /\ SharedAlarms
  OBVIOUS
<1>1. SlaTypeOK
  BY SlaAssumption, NoSweepType DEF SlaInit, SlaTypeOK, SweepRecords, Ages
<1>2. \A s \in Sweeps, r \in Watched : sweep[s].loaded[r] <= entry[r]
  <2>1. \A s \in Sweeps, r \in Watched : sweep[s] = NoSweep /\ entry[r] = 0
    BY DEF SlaInit
  <2> QED
    <3> SUFFICES ASSUME NEW s \in Sweeps, NEW r \in Watched PROVE sweep[s].loaded[r] <= entry[r]
      OBVIOUS
    <3>1. sweep[s].loaded[r] = 0 /\ entry[r] = 0
      BY <2>1, NoSweepType
    <3> QED
      BY <3>1
<1>3. SharedAlarms
  BY DEF SlaInit, SharedAlarms
<1> QED
  BY <1>1, <1>2, <1>3 DEF SlaInv

\* The records come and go, and time passes: what sweeps do is left alone.
LEMMA SlaRecordStep ==
  ASSUME SlaInv, NEW r \in Watched,
         EnterState(r) \/ LeaveState(r) \/ TimePasses(r) \/ IntervalPasses(r)
  PROVE  SlaInv' /\ NoneSpeaks
<1> USE SlaAssumption
<1>0. SlaTypeOK /\ UNCHANGED <<alarms, sweep>>
  BY DEF SlaInv, EnterState, LeaveState, TimePasses, IntervalPasses
<1>1. SlaTypeOK' /\ \A q \in Watched : entry[q] <= entry'[q] /\ entry'[q] \in Nat
  <2> USE <1>0 DEF SlaTypeOK
  <2>1. CASE EnterState(r)
    BY <2>1 DEF EnterState, Ages
  <2>2. CASE LeaveState(r)
    BY <2>2 DEF LeaveState
  <2>3. CASE TimePasses(r)
    BY <2>3 DEF TimePasses, Ages
  <2>4. CASE IntervalPasses(r)
    BY <2>4 DEF IntervalPasses
  <2> QED
    BY <2>1, <2>2, <2>3, <2>4
<1>2. \A q \in Watched : entry[q] \in Nat
  BY <1>0 DEF SlaTypeOK
<1>3. \A s \in Sweeps, q \in Watched : sweep[s].loaded[q] \in Nat
  BY DEF SlaInv, SlaTypeOK
<1>4. \A s \in Sweeps, q \in Watched : sweep'[s].loaded[q] <= entry'[q]
  BY <1>0, <1>1, <1>2, <1>3 DEF SlaInv
<1>5. NoneSpeaks
  BY <1>0 DEF NoneSpeaks, Escalating
<1> QED
  BY <1>1, <1>4, <1>5 DEF SlaInv

\* A sweep that starts, considers a record, ends or dies.
LEMMA SlaSweepStep ==
  ASSUME SlaInv, NEW s \in Sweeps,
         \/ \E kind \in {"remind", "escalate"} : StartSweep(s, kind)
         \/ \E r \in Watched : Consider(s, r)
         \/ EndSweep(s) \/ SweepDies(s)
  PROVE  SlaInv' /\ (NoneSpeaks \/ (\E r \in Watched : SpeaksOf(r)) \/ Commits(s))
<1> USE SlaAssumption
<1>0. /\ sweep[s] \in SweepRecords /\ sweep \in [Sweeps -> SweepRecords]
      /\ \A r \in Watched : entry[r] \in 0..MaxEntries /\ sweep[s].loaded[r] <= entry[r]
      /\ \A r \in Watched, e \in 1..MaxEntries : alarms[r][e] \in Nat
  BY DEF SlaInv, SlaTypeOK, SweepRecords
<1>1. ASSUME NEW x \in SweepRecords, sweep' = [sweep EXCEPT ![s] = x],
             UNCHANGED <<entry, waiting, age>>, alarms' \in [Watched -> [1..MaxEntries -> Nat]],
             reminded' \in [Watched -> BOOLEAN],
             \A r \in Watched : x.loaded[r] <= entry[r]
      PROVE  /\ SlaInv' /\ sweep'[s] = x
             /\ \A t \in Sweeps \ {s} : sweep'[t] = sweep[t]
  <2>1. /\ sweep' \in [Sweeps -> SweepRecords] /\ sweep'[s] = x
        /\ \A t \in Sweeps \ {s} : sweep'[t] = sweep[t]
    BY <1>0, <1>1
  <2>2. SlaTypeOK'
    BY <1>1, <2>1 DEF SlaInv, SlaTypeOK, SweepRecords
  <2>3. \A t \in Sweeps, r \in Watched : sweep'[t].loaded[r] <= entry'[r]
    BY <1>1, <2>1 DEF SlaInv
  <2> QED
    BY <2>1, <2>2, <2>3 DEF SlaInv
<1>2. ASSUME NEW x \in SweepRecords, sweep' = [sweep EXCEPT ![s] = x],
             UNCHANGED <<entry, waiting, age, alarms, reminded>>,
             \A r \in Watched : x.loaded[r] <= entry[r] /\ x.wrote[r] = 0
      PROVE  SlaInv' /\ NoneSpeaks
  <2>1. /\ SlaInv' /\ sweep'[s] = x
        /\ \A t \in Sweeps \ {s} : sweep'[t] = sweep[t]
    BY <1>1, <1>2 DEF SlaInv, SlaTypeOK
  <2>2. NoneSpeaks
    BY <1>2, <2>1 DEF NoneSpeaks, Escalating
  <2> QED
    BY <2>1, <2>2
<1>3. ASSUME NEW kind \in {"remind", "escalate"}, StartSweep(s, kind)
      PROVE  SlaInv' /\ NoneSpeaks
  <2> DEFINE loads == [r \in Watched |-> IF waiting[r] THEN entry[r] ELSE 0]
             x == [NoSweep EXCEPT !.kind = kind, !.todo = Waiting, !.loaded = loads]
  <2>0. loads \in [Watched -> 0..MaxEntries] /\ \A r \in Watched : loads[r] <= entry[r]
    BY <1>0
  <2>1. x \in SweepRecords /\ x.loaded = loads /\ x.wrote = NoSweep.wrote
    <3>1. Waiting \in SUBSET Watched
      BY DEF Waiting
    <3> HIDE DEF loads
    <3> QED
      BY <2>0, <3>1, NoSweepType DEF SweepRecords
  <2>2. \A r \in Watched : x.loaded[r] <= entry[r] /\ x.wrote[r] = 0
    <3> HIDE DEF loads, x
    <3> QED
      BY <2>0, <2>1 DEF NoSweep
  <2>3. sweep' = [sweep EXCEPT ![s] = x] /\ UNCHANGED <<entry, waiting, age, alarms, reminded>>
    BY <1>3 DEF StartSweep
  <2> HIDE DEF x
  <2> QED
    BY <1>2, <2>1, <2>2, <2>3
<1>4. ASSUME NEW r \in Watched, Consider(s, r) PROVE SlaInv' /\ SpeaksOf(r)
  <2> DEFINE speaks == IF sweep[s].kind = "escalate" THEN Escalates(s, r) ELSE Reminds(s, r)
             n == IF speaks THEN entry[r] ELSE 0
             x == [sweep[s] EXCEPT !.todo = @ \ {r}, !.wrote[r] = n]
  <2>1. /\ sweep' = [sweep EXCEPT ![s].todo = @ \ {r}, ![s].wrote[r] = n]
        /\ UNCHANGED <<entry, waiting, age, alarms, reminded>>
    BY <1>4 DEF Consider
  <2>2. n \in 0..MaxEntries
    BY <1>0
  <2>3. sweep[s].kind = "escalate" /\ n # 0 =>
          n = entry[r] /\ ~AlreadyEscalated(r, sweep[s].loaded[r])
    BY DEF Escalates
  <2> HIDE DEF n
  <2>4. /\ x \in SweepRecords /\ x.kind = sweep[s].kind /\ x.loaded = sweep[s].loaded
        /\ \A q \in Watched : x.wrote[q] = IF q = r THEN n ELSE sweep[s].wrote[q]
    BY <1>0, <2>2 DEF SweepRecords
  <2>5. sweep' = [sweep EXCEPT ![s] = x]
    BY ONLY <1>0, <2>1, s \in Sweeps
  <2> HIDE DEF x
  <2>6. /\ SlaInv' /\ sweep'[s] = x
        /\ \A t \in Sweeps \ {s} : sweep'[t] = sweep[t]
    BY <1>0, <1>1, <2>1, <2>4, <2>5 DEF SlaInv, SlaTypeOK
  <2>7. ASSUME NEW q \in Watched, NEW e \in 1..MaxEntries,
               ~(Escalating(q, e)' \subseteq Escalating(q, e))
        PROVE  alarms[q][e] = 0
    <3>1. x.kind = "escalate" /\ x.wrote[q] = e /\ ~(sweep[s].kind = "escalate" /\ sweep[s].wrote[q] = e)
      BY <2>6, <2>7 DEF Escalating
    <3>2. q = r /\ e = entry[r] /\ ~AlreadyEscalated(r, sweep[s].loaded[r])
      BY <2>3, <2>4, <3>1
    <3> QED
      BY <1>0, <3>2 DEF AlreadyEscalated
  <2> QED
    BY <2>1, <2>6, <2>7 DEF SpeaksOf
<1>5. CASE EndSweep(s)
  <2>1. /\ sweep' = [sweep EXCEPT ![s] = NoSweep] /\ UNCHANGED <<entry, waiting, age>>
        /\ reminded' \in [Watched -> BOOLEAN]
        /\ alarms' \in [Watched -> [1..MaxEntries -> Nat]]
        /\ \A r \in Watched, e \in 1..MaxEntries :
             alarms'[r][e] = IF sweep[s].kind = "escalate" /\ sweep[s].wrote[r] = e
                               THEN alarms[r][e] + 1 ELSE alarms[r][e]
    <3>1. reminded' \in [Watched -> BOOLEAN]
      <4>1. \A r \in Watched : (reminded[r] \/ (sweep[s].kind = "remind"
                  /\ sweep[s].wrote[r] = entry[r] /\ entry[r] > 0)) \in BOOLEAN
        OBVIOUS
      <4> QED
        BY <1>5, <4>1 DEF EndSweep
    <3> QED
      BY <1>5, <1>0, <3>1 DEF EndSweep
  <2>2. \A r \in Watched : NoSweep.loaded[r] <= entry[r]
    <3> TAKE r \in Watched
    <3>1. NoSweep.loaded[r] = 0 /\ entry[r] \in 0..MaxEntries
      BY <1>0, NoSweepType
    <3> QED
      BY <3>1
  <2>3. /\ SlaInv' /\ sweep'[s] = NoSweep
        /\ \A t \in Sweeps \ {s} : sweep'[t] = sweep[t]
    BY <1>1, <2>1, <2>2, NoSweepType
  <2>4. Commits(s)
    BY <2>1, <2>3 DEF Commits, Escalating, NoSweep
  <2> QED
    BY <2>3, <2>4
<1>6. CASE SweepDies(s)
  <2>1. \A r \in Watched : NoSweep.loaded[r] <= entry[r] /\ NoSweep.wrote[r] = 0
    <3> TAKE r \in Watched
    <3>1. NoSweep.loaded[r] = 0 /\ NoSweep.wrote[r] = 0 /\ entry[r] \in 0..MaxEntries
      BY <1>0, NoSweepType
    <3> QED
      BY <3>1
  <2> QED
    BY <1>2, <1>6, <2>1, NoSweepType DEF SweepDies
<1> QED
  BY <1>3, <1>4, <1>5, <1>6

\* A step of the timers keeps its types; the escalations of an entry that was
\* escalated stay within the number of sweeps.
LEMMA SlaStep ==
  ASSUME SlaInv, [SlaNext]_slaVars
  PROVE  /\ SlaInv'
         /\ IsFiniteSet(Sweeps) /\ SharedAlarms => SharedAlarms'
<1>1. /\ SlaInv'
      /\ \/ NoneSpeaks
         \/ \E r \in Watched : SpeaksOf(r)
         \/ \E s \in Sweeps : Commits(s)
  <2>1. CASE UNCHANGED slaVars
    BY <2>1 DEF slaVars, SlaInv, SlaTypeOK, NoneSpeaks, Escalating
  <2> QED
    BY <2>1, SlaRecordStep, SlaSweepStep DEF SlaNext
<1>2. ASSUME IsFiniteSet(Sweeps), SharedAlarms PROVE SharedAlarms'
  <2>1. Cardinality(Sweeps) \in Nat
    BY <1>2, FS_CardinalityType
  <2>2. /\ \A T \in SUBSET Sweeps : Cardinality(T) \in Nat /\ Cardinality(T) <= Cardinality(Sweeps)
        /\ \A T, U \in SUBSET Sweeps : T \subseteq U => Cardinality(T) <= Cardinality(U)
        /\ \A T \in SUBSET Sweeps : \A s \in T : Cardinality(T \ {s}) = Cardinality(T) - 1
    BY <1>2, Counting
  <2>3. \A r, e : Escalating(r, e) \in SUBSET Sweeps /\ Escalating(r, e)' \in SUBSET Sweeps
    BY DEF Escalating
  <2> SUFFICES ASSUME NEW r \in Watched, NEW e \in 1..MaxEntries, alarms'[r][e] > 0
               PROVE  alarms'[r][e] + Cardinality(Escalating(r, e)') <= Cardinality(Sweeps)
    BY DEF SharedAlarms
  <2>4. /\ Cardinality(Escalating(r, e)) \in Nat /\ Cardinality(Escalating(r, e)') \in Nat
        /\ Cardinality(Escalating(r, e)) <= Cardinality(Sweeps)
        /\ alarms[r][e] \in Nat
    BY <2>2, <2>3, AlarmsCount DEF SlaInv
  <2>5. alarms[r][e] > 0 => alarms[r][e] + Cardinality(Escalating(r, e)) <= Cardinality(Sweeps)
    BY <1>2 DEF SharedAlarms
  <2>6. CASE UNCHANGED alarms /\ Escalating(r, e)' \subseteq Escalating(r, e)
    <3>1. Cardinality(Escalating(r, e)') <= Cardinality(Escalating(r, e))
      BY <2>2, <2>3, <2>6
    <3> QED
      BY <2>1, <2>4, <2>5, <2>6, <3>1
  <2>7. CASE UNCHANGED alarms /\ alarms[r][e] = 0
    BY <2>7
  <2>8. ASSUME NEW s \in Sweeps, Commits(s)
        PROVE  alarms'[r][e] + Cardinality(Escalating(r, e)') <= Cardinality(Sweeps)
    <3>1. Escalating(r, e)' \subseteq Escalating(r, e) \ {s}
      BY <2>8 DEF Commits
    <3>2. CASE s \in Escalating(r, e)
      <4>1. Cardinality(Escalating(r, e)') <= Cardinality(Escalating(r, e) \ {s})
        <5>1. Escalating(r, e) \ {s} \in SUBSET Sweeps
          BY <2>3
        <5> QED
          BY <2>2, <2>3, <3>1, <5>1
      <4>2. Cardinality(Escalating(r, e) \ {s}) = Cardinality(Escalating(r, e)) - 1
        BY <2>2, <2>3, <3>2
      <4>3. alarms'[r][e] = alarms[r][e] + 1
        BY <2>8, <3>2 DEF Commits
      <4> QED
        BY <2>1, <2>4, <2>5, <4>1, <4>2, <4>3
    <3>3. CASE s \notin Escalating(r, e)
      <4>1. Cardinality(Escalating(r, e)') <= Cardinality(Escalating(r, e))
        BY <2>2, <2>3, <3>1
      <4>2. alarms'[r][e] = alarms[r][e]
        BY <2>8, <3>3 DEF Commits
      <4> QED
        BY <2>1, <2>4, <2>5, <4>1, <4>2
    <3> QED
      BY <3>2, <3>3
  <2> QED
    BY <1>1, <2>6, <2>7, <2>8 DEF NoneSpeaks, SpeaksOf
<1> QED
  BY <1>1, <1>2

\* Records and sweeps hold values of their kind.
THEOREM SlaTypeCorrect == SlaSpec => []SlaTypeOK
<1>1. SlaInv /\ [SlaNext]_slaVars => SlaInv'
  BY SlaStep
<1>2. SlaInit => SlaInv
  BY SlaInitInv
<1>3. SlaInv => SlaTypeOK
  BY DEF SlaInv
<1> QED
  BY <1>1, <1>2, <1>3, PTL DEF SlaSpec

\* sla_service.py:131: sweeps that overlap may each escalate a breach none of
\* them found escalated, but none that asks afterwards does it again: however
\* often records come and go, an entry is escalated at most once per sweep.
THEOREM EscalatedPerSweepAtMost ==
  ASSUME IsFiniteSet(Sweeps) PROVE SlaSpec => []AlarmPerSweep
<1>1. SlaInv /\ SharedAlarms /\ [SlaNext]_slaVars => SlaInv' /\ SharedAlarms'
  BY SlaStep
<1>2. SlaInv /\ SharedAlarms => AlarmPerSweep
  <2> SUFFICES ASSUME SlaInv, SharedAlarms, NEW r \in Watched, NEW e \in 1..MaxEntries
               PROVE  alarms[r][e] <= Cardinality(Sweeps)
    BY DEF AlarmPerSweep
  <2>1. Cardinality(Escalating(r, e)) \in Nat /\ Cardinality(Sweeps) \in Nat
    BY Counting, FS_CardinalityType DEF Escalating
  <2> QED
    BY <2>1, AlarmsCount DEF SlaInv, SharedAlarms
<1> QED
  BY <1>1, <1>2, SlaInitInv, PTL DEF SlaSpec

\* sla_service.py:131, one escalation per state entry: while no two sweeps run
\* at once, a breach is escalated once, though the record leaves and enters the
\* state again between being loaded and being written about.
THEOREM BreachIsEscalatedOnce ==
  ASSUME \A s, t \in Sweeps : s = t PROVE SlaSpec => []OneAlarm
<1>1. IsFiniteSet(Sweeps) /\ Cardinality(Sweeps) \in Nat /\ Cardinality(Sweeps) <= 1
  BY OneAtMost
<1>2. SlaSpec => []AlarmPerSweep
  BY <1>1, EscalatedPerSweepAtMost
<1>3. SlaTypeOK /\ AlarmPerSweep => OneAlarm
  <2> SUFFICES ASSUME SlaTypeOK, AlarmPerSweep, NEW r \in Watched, NEW e \in 1..MaxEntries
               PROVE  alarms[r][e] <= 1
    BY DEF OneAlarm
  <2>1. alarms[r][e] \in Nat /\ alarms[r][e] <= Cardinality(Sweeps)
    BY AlarmsCount DEF AlarmPerSweep
  <2> QED
    BY <1>1, <2>1
<1> QED
  BY <1>2, <1>3, SlaTypeCorrect, PTL

-----------------------------------------------------------------------------
(* Postings.                                                               *)

PostRecords == [status : {"none", "pending", "posted", "failed"}, attempts : Nat, due : BOOLEAN]

\* The types without the drains.
RowsOK ==
  /\ conn \in [status : {"not_connected", "connected", "expired"}, ready : BOOLEAN]
  /\ moved \subseteq Records
  /\ post \in [Records -> PostRecords]
  /\ entries \in [Records -> Nat]

DrainsOK ==
  /\ drain \in [Drains -> DrainRecords]
  /\ \A d \in Drains : DOMAIN drain[d].wrote \subseteq DOMAIN drain[d].loaded

\* A row is there once its money moved, and says posted only of what is entered.
RowsAreTrue ==
  \A p \in Records : /\ entries[p] \in {0, 1}
                     /\ post[p].status # "none" => p \in moved
                     /\ post[p].status = "posted" => entries[p] = 1

\* What a drain has loaded is still to be posted, what it reports is entered,
\* and what it did not find is not.
DrainIsTrue(d) ==
  /\ \A p \in DOMAIN drain[d].loaded : post[p].status = "pending"
  /\ \A p \in DOMAIN drain[d].wrote : drain[d].wrote[p] = "posted" => entries[p] = 1
  /\ drain[d].absent => \A p \in Records : Trying(d, p) => entries[p] = 0

PostingsInv ==
  /\ RowsOK /\ DrainsOK /\ RowsAreTrue
  /\ \A d \in Drains : DrainIsTrue(d)

\* The two halves of the type.
LEMMA PostingsTypeParts == RowsOK /\ DrainsOK <=> PostingsTypeOK
BY DEF RowsOK, DrainsOK, PostingsTypeOK, PostRecords

\* An idle drain is one of the drains' values.
LEMMA NoDrainType ==
  /\ NoDrain \in DrainRecords /\ DOMAIN NoDrain.loaded = {} /\ DOMAIN NoDrain.wrote = {}
  /\ ~NoDrain.absent
<1>1. /\ [p \in {} |-> 0] \in UNION {[S -> Nat] : S \in SUBSET Records}
      /\ [p \in {} |-> "again"] \in UNION {[S -> Outcomes] : S \in SUBSET Records}
  <2>1. [p \in {} |-> 0] \in [{} -> Nat] /\ [p \in {} |-> "again"] \in [{} -> Outcomes]
    OBVIOUS
  <2> QED
    BY <2>1
<1> QED
  BY <1>1 DEF NoDrain, DrainRecords

\* Before any drain nothing is entered.
LEMMA PostingsInitInv == PostingsInit => PostingsInv
<1> SUFFICES ASSUME PostingsInit PROVE PostingsInv
  OBVIOUS
<1>1. RowsOK /\ RowsAreTrue
  BY DEF PostingsInit, RowsOK, RowsAreTrue, PostRecords
<1>2. DrainsOK /\ \A d \in Drains : DrainIsTrue(d)
  BY NoDrainType DEF PostingsInit, DrainsOK, DrainIsTrue
<1> QED
  BY <1>1, <1>2 DEF PostingsInv

\* One record is queued, or its row put back: it is pending afterwards, and was
\* neither loaded nor posted before, unless only its due time changes.
LEMMA RowStep ==
  ASSUME PostingsInv, NEW p \in Records, Enqueue(p) \/ PostBackoffEnds(p) \/ Retry(p)
  PROVE  PostingsInv' /\ UNCHANGED <<entries, drain>> /\ Told' = Told
<1>0. RowsOK /\ UNCHANGED <<entries, drain, conn>>
  BY DEF PostingsInv, Enqueue, PostBackoffEnds, Retry
<1>1. /\ RowsOK' /\ moved \subseteq moved'
      /\ \A q \in Records : \/ post'[q] = post[q]
                            \/ /\ q = p /\ post'[q].status = "pending" /\ p \in moved'
                               /\ post[q].status \in {"none", "failed", "pending"}
  <2> USE <1>0 DEF RowsOK, PostRecords
  <2>1. CASE Enqueue(p)
    BY <2>1 DEF Enqueue, PostingsInv, RowsAreTrue
  <2>2. CASE PostBackoffEnds(p)
    BY <2>2 DEF PostBackoffEnds, PostingsInv, RowsAreTrue
  <2>3. CASE Retry(p)
    <3> DEFINE x == [post[p] EXCEPT !.status = "pending", !.due = TRUE]
    <3>1. x \in PostRecords /\ x.status = "pending"
      OBVIOUS
    <3>2. post' = [post EXCEPT ![p] = x] /\ post[p].status = "failed" /\ UNCHANGED moved
      BY <2>3 DEF Retry
    <3>3. p \in moved
      BY <3>2 DEF PostingsInv, RowsAreTrue
    <3> HIDE DEF x
    <3> QED
      BY <3>1, <3>2, <3>3
  <2> QED
    BY <2>1, <2>2, <2>3
<1>2. RowsAreTrue'
  BY <1>0, <1>1 DEF PostingsInv, RowsAreTrue
<1>3. ASSUME NEW d \in Drains PROVE DrainIsTrue(d)'
  <2>1. DrainIsTrue(d) /\ DOMAIN drain[d].loaded \subseteq Records
    BY DEF PostingsInv, DrainsOK, DrainRecords
  <2> QED
    BY <1>0, <1>1, <2>1 DEF DrainIsTrue, Trying
<1>4. Told' = Told
  BY <1>1 DEF Told
<1> QED
  BY <1>0, <1>1, <1>2, <1>3, <1>4 DEF PostingsInv, DrainsOK

\* A drain has dealt with one more record.
LEMMA OutcomeStep ==
  ASSUME DrainsOK, NEW d \in Drains, NEW p \in Records, Trying(d, p),
         NEW what \in Outcomes, Outcome(d, p, what)
  PROVE  /\ DrainsOK'
         /\ \A c \in Drains \ {d} : drain'[c] = drain[c]
         /\ drain'[d].loaded = drain[d].loaded /\ ~drain'[d].absent
         /\ DOMAIN drain'[d].wrote = DOMAIN drain[d].wrote \cup {p}
         /\ drain'[d].wrote[p] = what
         /\ \A q \in DOMAIN drain[d].wrote : q # p => drain'[d].wrote[q] = drain[d].wrote[q]
<1> DEFINE w == [q \in DOMAIN drain[d].wrote \cup {p} |->
                   IF q = p THEN what ELSE drain[d].wrote[q]]
           gone == what \in {"auth", "expired"}
           x == [drain[d] EXCEPT !.wrote = w, !.absent = FALSE, !.dead = gone]
<1>0. /\ drain[d] \in DrainRecords /\ drain \in [Drains -> DrainRecords]
      /\ p \in DOMAIN drain[d].loaded
  BY DEF DrainsOK, Trying
<1>1. PICK S \in SUBSET Records : drain[d].wrote \in [S -> Outcomes]
  BY <1>0 DEF DrainRecords
<1>2. w \in [S \cup {p} -> Outcomes] /\ S \cup {p} \in SUBSET Records /\ DOMAIN drain[d].wrote = S
  BY <1>1
<1>3. w \in UNION {[U -> Outcomes] : U \in SUBSET Records}
  <2> HIDE DEF w
  <2> QED
    BY <1>2
<1>4. gone \in BOOLEAN
  OBVIOUS
<1>5. drain' = [drain EXCEPT ![d] = x]
  BY DEF Outcome
<1>6. /\ \A q \in DOMAIN w : w[q] = IF q = p THEN what ELSE drain[d].wrote[q]
      /\ DOMAIN w = DOMAIN drain[d].wrote \cup {p}
  OBVIOUS
<1>7. x \in DrainRecords /\ x.wrote = w /\ x.loaded = drain[d].loaded /\ x.absent = FALSE
  <2> HIDE DEF w, gone
  <2> QED
    BY <1>0, <1>3, <1>4 DEF DrainRecords
<1> HIDE DEF w, gone, x
<1>8. drain'[d] = x /\ \A c \in Drains \ {d} : drain'[c] = drain[c]
  BY <1>0, <1>5
<1>9. drain' \in [Drains -> DrainRecords]
  BY <1>0, <1>5, <1>7
<1>10. DOMAIN x.wrote \subseteq DOMAIN x.loaded
  BY <1>0, <1>6, <1>7 DEF DrainsOK
<1> QED
  BY <1>6, <1>7, <1>8, <1>9, <1>10 DEF DrainsOK

\* What a commit leaves of a row that was pending: only what the drain found or
\* made is posted.
LEMMA PostWrittenType ==
  ASSUME NEW old \in PostRecords, NEW n \in Nat, NEW what \in Outcomes, old.status = "pending"
  PROVE  /\ PostWritten(n, what, old) \in PostRecords
         /\ PostWritten(n, what, old).status \in {"pending", "failed", "posted"}
         /\ PostWritten(n, what, old).status = "posted" <=> what = "posted"
BY DEF PostWritten, PostRecords, Outcomes

\* A drain commits rows of their kind, and touches those alone that it loaded.
LEMMA CommitStep ==
  ASSUME RowsOK, DrainsOK, NEW d \in Drains, CommitDrain(d),
         \A p \in DOMAIN drain[d].loaded : post[p].status = "pending"
  PROVE  /\ post' \in [Records -> PostRecords]
         /\ conn' \in [status : {"not_connected", "connected", "expired"}, ready : BOOLEAN]
         /\ \A p \in Records \ DOMAIN drain[d].wrote : post'[p] = post[p]
         /\ \A p \in DOMAIN drain[d].wrote :
              /\ post'[p].status \in {"pending", "failed", "posted"}
              /\ post'[p].status = "posted" <=> drain[d].wrote[p] = "posted"
<1> DEFINE new(p) == PostWritten(drain[d].loaded[p] + 1, drain[d].wrote[p], post[p])
<1>1. /\ post' = [p \in Records |-> IF p \in DOMAIN drain[d].wrote THEN new(p) ELSE post[p]]
      /\ conn' = IF drain[d].dead THEN [conn EXCEPT !.status = "expired"] ELSE conn
  BY DEF CommitDrain
<1>2. DOMAIN drain[d].wrote \subseteq DOMAIN drain[d].loaded /\ drain[d] \in DrainRecords
  BY DEF DrainsOK
<1>3. ASSUME NEW p \in DOMAIN drain[d].wrote
      PROVE  /\ p \in Records /\ new(p) \in PostRecords
             /\ new(p).status \in {"pending", "failed", "posted"}
             /\ new(p).status = "posted" <=> drain[d].wrote[p] = "posted"
  <2>1. drain[d].wrote[p] \in Outcomes /\ drain[d].loaded[p] \in Nat /\ p \in Records
    BY <1>2 DEF DrainRecords
  <2>2. post[p] \in PostRecords /\ post[p].status = "pending"
    BY <1>2, <2>1 DEF RowsOK
  <2> QED
    BY <2>1, <2>2, PostWrittenType
<1>4. conn' \in [status : {"not_connected", "connected", "expired"}, ready : BOOLEAN]
  BY <1>1 DEF RowsOK
<1> HIDE DEF new
<1> QED
  BY <1>1, <1>3, <1>4 DEF RowsOK

\* A drain that ends, or refreshes its token, reports what it entered.
LEMMA DrainCommits ==
  ASSUME PostingsInv, \A c, d \in Drains : c = d, NEW d \in Drains,
         EndDrain(d) \/ RefreshTokens(d)
  PROVE  /\ PostingsInv' /\ UNCHANGED entries
         /\ \E ps \in SUBSET Records : (\A p \in ps : entries[p] = 1) /\ Told' = Told \cup ps
<1> DEFINE ps == {p \in DOMAIN drain[d].wrote : drain[d].wrote[p] = "posted"}
<1>0. /\ RowsOK /\ DrainsOK /\ RowsAreTrue /\ DrainIsTrue(d) /\ drain[d] \in DrainRecords
      /\ CommitDrain(d) /\ UNCHANGED <<moved, entries>>
  BY DEF PostingsInv, DrainsOK, EndDrain, RefreshTokens
<1>1. /\ post' \in [Records -> PostRecords]
      /\ conn' \in [status : {"not_connected", "connected", "expired"}, ready : BOOLEAN]
      /\ \A p \in Records \ DOMAIN drain[d].wrote : post'[p] = post[p]
      /\ \A p \in DOMAIN drain[d].wrote :
           /\ post'[p].status \in {"pending", "failed", "posted"}
           /\ post'[p].status = "posted" <=> drain[d].wrote[p] = "posted"
  BY <1>0, CommitStep DEF DrainIsTrue
<1>2. /\ DOMAIN drain[d].wrote \subseteq DOMAIN drain[d].loaded
      /\ DOMAIN drain[d].loaded \subseteq Records
  BY <1>0 DEF DrainsOK, DrainRecords
<1>3. RowsOK'
  BY <1>0, <1>1 DEF RowsOK
<1>4. RowsAreTrue'
  <2>1. \A p \in DOMAIN drain[d].wrote : post[p].status = "pending"
    BY <1>0, <1>2 DEF DrainIsTrue
  <2> QED
    BY <1>0, <1>1, <1>2, <2>1 DEF RowsAreTrue, DrainIsTrue
<1>5. \A p \in ps : entries[p] = 1
  BY <1>0 DEF DrainIsTrue
<1>6. Told' = Told \cup ps
  <2>1. \A p \in DOMAIN drain[d].wrote : post[p].status # "posted"
    BY <1>0, <1>2 DEF DrainIsTrue
  <2> QED
    BY <1>1, <1>2, <2>1 DEF Told
<1>7. DrainsOK' /\ DrainIsTrue(d)'
  <2>1. CASE EndDrain(d)
    <3>1. drain' = [drain EXCEPT ![d] = NoDrain]
      BY <2>1 DEF EndDrain
    <3>2. drain'[d] = NoDrain
      BY <1>0, <3>1 DEF DrainsOK
    <3> QED
      BY <1>0, <3>1, <3>2, NoDrainType DEF DrainsOK, DrainIsTrue
  <2>2. CASE RefreshTokens(d)
    <3> DEFINE left == DOMAIN drain[d].loaded \ DOMAIN drain[d].wrote
               l == [p \in left |-> post[p].attempts]
               x == [drain[d] EXCEPT !.loaded = l, !.wrote = NoDrain.wrote]
    <3>1. drain' = [drain EXCEPT ![d] = x] /\ ~drain[d].absent
      BY <2>2 DEF RefreshTokens
    <3>2. l \in [left -> Nat] /\ left \in SUBSET Records
      BY <1>0, <1>2 DEF RowsOK, PostRecords
    <3>3. l \in UNION {[S -> Nat] : S \in SUBSET Records} /\ DOMAIN l = left
      <4> HIDE DEF l, left
      <4> QED
        BY <3>2
    <3>4. /\ x \in DrainRecords /\ x.loaded = l /\ x.wrote = NoDrain.wrote
          /\ x.absent = drain[d].absent
      <4> HIDE DEF l
      <4> QED
        BY <1>0, <3>3, NoDrainType DEF DrainRecords
    <3> HIDE DEF x, l
    <3>5. drain'[d] = x /\ drain' \in [Drains -> DrainRecords]
      BY <1>0, <3>1, <3>4 DEF DrainsOK
    <3>6. \A p \in left : post'[p].status = "pending"
      BY <1>0, <1>1, <1>2 DEF DrainIsTrue
    <3>7. DrainsOK'
      BY <3>4, <3>5, NoDrainType DEF DrainsOK
    <3>8. DrainIsTrue(d)'
      BY <3>1, <3>3, <3>4, <3>5, <3>6, NoDrainType DEF DrainIsTrue
    <3> QED
      BY <3>7, <3>8
  <2> QED
    BY <2>1, <2>2
<1>8. ps \in SUBSET Records
  BY <1>2
<1> HIDE DEF ps
<1> QED
  BY <1>0, <1>3, <1>4, <1>5, <1>6, <1>7, <1>8 DEF PostingsInv

\* A drain that starts, deals with a record, or dies enters at most a record
\* that it found the books without.
LEMMA DrainStep ==
  ASSUME PostingsInv, \A c, d \in Drains : c = d, NEW d \in Drains,
         \/ StartDrain(d) \/ DrainDies(d)
         \/ \E p \in Records : Skip(d, p) \/ LookUp(d, p) \/ Create(d, p) \/ Refused(d, p)
  PROVE  /\ PostingsInv' /\ Told' = Told
         /\ \/ UNCHANGED entries
            \/ \E p \in Records : entries[p] = 0 /\ entries' = [entries EXCEPT ![p] = 1]
<1> DEFINE
      Goal == /\ PostingsInv' /\ Told' = Told
              /\ \/ UNCHANGED entries
                 \/ \E p \in Records : entries[p] = 0 /\ entries' = [entries EXCEPT ![p] = 1]
<1> SUFFICES Goal
  OBVIOUS
<1>0. /\ RowsOK /\ DrainsOK /\ RowsAreTrue /\ DrainIsTrue(d) /\ drain[d] \in DrainRecords
      /\ DOMAIN drain[d].loaded \subseteq Records
  BY DEF PostingsInv, DrainsOK, DrainRecords
<1>1. ASSUME NEW p \in Records, Trying(d, p), NEW what \in Outcomes, Outcome(d, p, what),
             UNCHANGED <<conn, moved, post>>,
             \/ UNCHANGED entries
             \/ entries[p] = 0 /\ entries' = [entries EXCEPT ![p] = 1],
             what = "posted" => entries'[p] = 1
      PROVE  Goal
  <2>1. /\ DrainsOK'
        /\ drain'[d].loaded = drain[d].loaded /\ ~drain'[d].absent
        /\ DOMAIN drain'[d].wrote = DOMAIN drain[d].wrote \cup {p}
        /\ drain'[d].wrote[p] = what
        /\ \A q \in DOMAIN drain[d].wrote : q # p => drain'[d].wrote[q] = drain[d].wrote[q]
    BY <1>0, <1>1, OutcomeStep
  <2>2. entries' \in [Records -> Nat] /\ \A q \in Records \ {p} : entries'[q] = entries[q]
    BY <1>0, <1>1 DEF RowsOK
  <2>3. RowsOK' /\ RowsAreTrue'
    BY <1>0, <1>1, <2>2 DEF RowsOK, RowsAreTrue
  <2>4. DOMAIN drain[d].wrote \subseteq Records
    BY <1>0 DEF DrainsOK
  <2>5. DrainIsTrue(d)'
    BY <1>0, <1>1, <2>1, <2>2, <2>4 DEF DrainIsTrue
  <2>6. Told' = Told
    BY <1>1 DEF Told
  <2> QED
    BY <1>1, <2>1, <2>3, <2>5, <2>6 DEF PostingsInv
<1>2. ASSUME NEW x \in DrainRecords, drain' = [drain EXCEPT ![d] = x],
             UNCHANGED <<conn, moved, post, entries>>,
             DOMAIN x.wrote \subseteq DOMAIN x.loaded,
             \A p \in DOMAIN x.loaded : post[p].status = "pending",
             \A p \in DOMAIN x.wrote : x.wrote[p] = drain[d].wrote[p] /\ p \in DOMAIN drain[d].wrote,
             x.absent => \A p \in Records : Trying(d, p)' => entries[p] = 0
      PROVE  Goal
  <2>1. drain'[d] = x /\ drain' \in [Drains -> DrainRecords]
    BY <1>0, <1>2 DEF DrainsOK
  <2>2. DrainsOK' /\ RowsOK' /\ RowsAreTrue' /\ Told' = Told
    BY <1>0, <1>2, <2>1 DEF DrainsOK, RowsOK, RowsAreTrue, Told
  <2>3. DrainIsTrue(d)'
    BY <1>0, <1>2, <2>1 DEF DrainIsTrue
  <2> QED
    BY <1>2, <2>2, <2>3 DEF PostingsInv
<1> HIDE DEF Goal
<1>3. CASE StartDrain(d)
  <2> DEFINE l == [p \in DuePosts |-> post[p].attempts]
             x == [drain[d] EXCEPT !.loaded = l]
  <2>1. drain' = [drain EXCEPT ![d] = x] /\ drain[d] = NoDrain /\ UNCHANGED <<conn, moved, post, entries>>
    BY <1>3 DEF StartDrain
  <2>2. l \in [DuePosts -> Nat] /\ DuePosts \in SUBSET Records
    BY <1>0 DEF DuePosts, RowsOK, PostRecords
  <2>3. l \in UNION {[S -> Nat] : S \in SUBSET Records} /\ DOMAIN l = DuePosts
    <3> HIDE DEF l
    <3> QED
      BY <2>2
  <2>4. /\ x \in DrainRecords /\ x.loaded = l /\ x.wrote = NoDrain.wrote
        /\ x.absent = NoDrain.absent
    <3> HIDE DEF l
    <3> QED
      BY <2>1, <2>3, NoDrainType DEF DrainRecords
  <2>5. \A p \in DuePosts : post[p].status = "pending"
    BY DEF DuePosts
  <2> HIDE DEF x, l
  <2> QED
    BY <1>2, <2>1, <2>3, <2>4, <2>5, NoDrainType
<1>4. CASE DrainDies(d)
  BY <1>2, <1>4, NoDrainType DEF DrainDies
<1>5. ASSUME NEW p \in Records, Skip(d, p) PROVE Goal
  BY <1>1, <1>5 DEF Skip, Outcomes
<1>6. ASSUME NEW p \in Records, LookUp(d, p) PROVE Goal
  <2>1. CASE entries[p] > 0
    <3>1. entries[p] = 1
      BY <1>0, <2>1 DEF RowsAreTrue
    <3> QED
      BY <1>1, <1>6, <2>1, <3>1 DEF LookUp, Outcomes
  <2>2. CASE ~(entries[p] > 0)
    <3> DEFINE x == [drain[d] EXCEPT !.absent = TRUE]
    <3>1. /\ drain' = [drain EXCEPT ![d] = x] /\ UNCHANGED <<conn, moved, post, entries>>
          /\ Trying(d, p)
      BY <1>6, <2>2 DEF LookUp
    <3>2. /\ x \in DrainRecords /\ x.loaded = drain[d].loaded /\ x.wrote = drain[d].wrote
          /\ x.dead = drain[d].dead
      BY <1>0 DEF DrainRecords
    <3> HIDE DEF x
    <3>3. drain'[d] = x
      BY <1>0, <3>1 DEF DrainsOK
    <3>4. \A q \in Records : Trying(d, q)' => q = p
      BY <1>0, <3>1, <3>2, <3>3, PostingsAssumption DEF Trying
    <3>5. entries[p] = 0
      BY <1>0, <2>2 DEF RowsAreTrue
    <3>6. DOMAIN x.wrote \subseteq DOMAIN x.loaded
      BY <1>0, <3>2 DEF DrainsOK
    <3>7. \A q \in DOMAIN x.loaded : post[q].status = "pending"
      BY <1>0, <3>2 DEF DrainIsTrue
    <3> QED
      BY <1>2, <3>1, <3>2, <3>4, <3>5, <3>6, <3>7
  <2> QED
    BY <2>1, <2>2
<1>7. ASSUME NEW p \in Records, Create(d, p) PROVE Goal
  <2>1. entries[p] = 0 /\ entries' = [entries EXCEPT ![p] = 1] /\ entries'[p] = 1
    <3>1. entries[p] = 0
      BY <1>0, <1>7 DEF Create, DrainIsTrue
    <3>2. entries' = [entries EXCEPT ![p] = entries[p] + 1]
      BY <1>7 DEF Create
    <3> QED
      BY <1>0, <3>1, <3>2 DEF RowsOK
  <2>2. /\ Trying(d, p) /\ UNCHANGED <<conn, moved, post>>
        /\ \E what \in {"posted", "again"} : Outcome(d, p, what)
    BY <1>7 DEF Create
  <2> QED
    BY <1>1, <2>1, <2>2 DEF Outcomes
<1>8. ASSUME NEW p \in Records, Refused(d, p) PROVE Goal
  BY <1>1, <1>8 DEF Refused, Outcomes
<1> QED
  BY <1>3, <1>4, <1>5, <1>6, <1>7, <1>8

\* A step of the outbox keeps the invariant, and is a step of the books or none.
LEMMA PostingsStep ==
  ASSUME PostingsInv, \A c, d \in Drains : c = d, [PostingsNext]_postVars
  PROVE  PostingsInv' /\ [Books!BookkeepingNext]_<<entries, Told>>
<1>1. CASE UNCHANGED postVars
  BY <1>1 DEF postVars, PostingsInv, RowsOK, DrainsOK, RowsAreTrue, DrainIsTrue, Trying, Told
<1>2. CASE CompleteConnect \/ SetDefaultAccounts \/ Disconnect
  <2>1. /\ UNCHANGED <<moved, post, entries, drain>>
        /\ conn' \in [status : {"not_connected", "connected", "expired"}, ready : BOOLEAN]
    BY <1>2 DEF CompleteConnect, SetDefaultAccounts, Disconnect, PostingsInv, RowsOK
  <2> QED
    BY <2>1 DEF PostingsInv, RowsOK, DrainsOK, RowsAreTrue, DrainIsTrue, Trying, Told
<1>3. ASSUME NEW p \in Records, Enqueue(p) \/ PostBackoffEnds(p) \/ Retry(p)
      PROVE  PostingsInv' /\ [Books!BookkeepingNext]_<<entries, Told>>
  BY <1>3, RowStep
<1>4. ASSUME NEW d \in Drains, EndDrain(d) \/ RefreshTokens(d)
      PROVE  PostingsInv' /\ [Books!BookkeepingNext]_<<entries, Told>>
  <2>1. PICK ps \in SUBSET Records : (\A p \in ps : entries[p] = 1) /\ Told' = Told \cup ps
    BY <1>4, DrainCommits
  <2>2. PostingsInv' /\ UNCHANGED entries
    BY <1>4, DrainCommits
  <2>3. ps # {} => Books!Tell(ps)
    BY <2>1, <2>2 DEF Books!Tell
  <2>4. ps = {} => Told' = Told
    BY <2>1
  <2> QED
    BY <2>2, <2>3, <2>4 DEF Books!BookkeepingNext
<1>5. ASSUME NEW d \in Drains,
             \/ StartDrain(d) \/ DrainDies(d)
             \/ \E p \in Records : Skip(d, p) \/ LookUp(d, p) \/ Create(d, p) \/ Refused(d, p)
      PROVE  PostingsInv' /\ [Books!BookkeepingNext]_<<entries, Told>>
  BY <1>5, DrainStep DEF Books!BookkeepingNext, Books!Enter
<1> QED
  BY <1>1, <1>2, <1>3, <1>4, <1>5 DEF PostingsNext

\* DECISION_REGISTER.md:578, at least once on the queue and once in the books:
\* through lost answers, restarts, rejected tokens and retries, one drain at a
\* time enters every record at most once, and never reports one that is not
\* entered, or takes a report back: the outbox implements the bookkeeping it
\* promises.
THEOREM MoneyIsEnteredOnce ==
  ASSUME \A c, d \in Drains : c = d PROVE PostingsSpec => EnteredOnce
<1>1. PostingsInv /\ [PostingsNext]_postVars
        => PostingsInv' /\ [Books!BookkeepingNext]_<<entries, Told>>
  BY PostingsStep
<1>2. PostingsInit => Books!BookkeepingInit
  BY DEF PostingsInit, Books!BookkeepingInit, Told
<1> QED
  BY <1>1, <1>2, PostingsInitInv, PTL DEF PostingsSpec, EnteredOnce, Books!BookkeepingSpec

\* The drains that found the books without p and are about to enter it.
About(p) == {d \in Drains : drain[d].absent /\ Trying(d, p)}

\* A row, or a drain, says posted only of what is entered.
ReportsAreTrue ==
  /\ \A p \in Records : post[p].status = "posted" => entries[p] > 0
  /\ \A d \in Drains : \A p \in DOMAIN drain[d].wrote :
       drain[d].wrote[p] = "posted" => entries[p] > 0

\* What a step does to the drains about to enter a record, and to the books:
\* nothing is entered and none is added to them; or one finds that p is not
\* there; or one of them enters p.
NoneAdded == UNCHANGED entries /\ \A p \in Records : About(p)' \subseteq About(p)
Finds(p) ==
  /\ entries[p] = 0 /\ UNCHANGED entries
  /\ \A q \in Records \ {p} : About(q)' \subseteq About(q)
Enters(d, p) ==
  /\ entries' = [entries EXCEPT ![p] = @ + 1]
  /\ d \in About(p) /\ About(p)' \subseteq About(p) \ {d}
  /\ \A q \in Records : About(q)' \subseteq About(q)

ManyGoal ==
  /\ RowsOK' /\ DrainsOK' /\ ReportsAreTrue'
  /\ \/ NoneAdded
     \/ \E p \in Records : Finds(p) \/ \E d \in Drains : Enters(d, p)

\* What a commit leaves of any row: it says posted only when the drain, or the row
\* before it, did.
LEMMA PostWrittenKind ==
  ASSUME NEW old \in PostRecords, NEW n \in Nat, NEW what \in Outcomes
  PROVE  /\ PostWritten(n, what, old) \in PostRecords
         /\ PostWritten(n, what, old).status = "posted"
              => what = "posted" \/ old.status = "posted"
BY DEF PostWritten, PostRecords, Outcomes

\* A drain commits rows of their kind that say posted only of what is entered, though
\* others have changed them since it loaded them.
LEMMA CommitKind ==
  ASSUME RowsOK, DrainsOK, ReportsAreTrue, NEW d \in Drains, CommitDrain(d),
         UNCHANGED <<moved, entries>>
  PROVE  /\ RowsOK'
         /\ \A p \in Records : post'[p].status = "posted" => entries[p] > 0
<1> DEFINE new(p) == PostWritten(drain[d].loaded[p] + 1, drain[d].wrote[p], post[p])
<1>1. /\ post' = [p \in Records |-> IF p \in DOMAIN drain[d].wrote THEN new(p) ELSE post[p]]
      /\ conn' = IF drain[d].dead THEN [conn EXCEPT !.status = "expired"] ELSE conn
  BY DEF CommitDrain
<1>2. DOMAIN drain[d].wrote \subseteq DOMAIN drain[d].loaded /\ drain[d] \in DrainRecords
  BY DEF DrainsOK
<1>3. ASSUME NEW p \in DOMAIN drain[d].wrote
      PROVE  /\ p \in Records /\ new(p) \in PostRecords
             /\ new(p).status = "posted" => entries[p] > 0
  <2>1. drain[d].wrote[p] \in Outcomes /\ drain[d].loaded[p] \in Nat /\ p \in Records
    BY <1>2 DEF DrainRecords
  <2>2. post[p] \in PostRecords
    BY <2>1 DEF RowsOK
  <2>3. /\ new(p) \in PostRecords
        /\ new(p).status = "posted" => drain[d].wrote[p] = "posted" \/ post[p].status = "posted"
    BY <2>1, <2>2, PostWrittenKind
  <2> HIDE DEF new
  <2> QED
    BY <2>1, <2>3 DEF ReportsAreTrue
<1>4. conn' \in [status : {"not_connected", "connected", "expired"}, ready : BOOLEAN]
  BY <1>1 DEF RowsOK
<1> HIDE DEF new
<1> QED
  BY <1>1, <1>3, <1>4 DEF RowsOK, ReportsAreTrue

\* However many drains run, a step keeps the types and the reports true, and adds
\* nobody to those about to enter a record that is in the books.
LEMMA ManyDrainsStep ==
  ASSUME RowsOK, DrainsOK, ReportsAreTrue, [PostingsNext]_postVars
  PROVE  ManyGoal
<1> SUFFICES ManyGoal
  OBVIOUS
<1>0. /\ drain \in [Drains -> DrainRecords] /\ entries \in [Records -> Nat]
      /\ \A d \in Drains : DOMAIN drain[d].loaded \subseteq Records
  BY DEF RowsOK, DrainsOK, DrainRecords
<1>1. ASSUME UNCHANGED <<drain, entries>>, RowsOK',
             \A p \in Records : post'[p].status = "posted" => post[p].status = "posted"
      PROVE  ManyGoal
  BY <1>1 DEF ManyGoal, DrainsOK, ReportsAreTrue, NoneAdded, About, Trying
<1>2. CASE UNCHANGED postVars
  BY <1>1, <1>2 DEF postVars, RowsOK
<1>3. CASE CompleteConnect \/ SetDefaultAccounts \/ Disconnect
  <2>1. /\ UNCHANGED <<moved, post, entries, drain>>
        /\ conn' \in [status : {"not_connected", "connected", "expired"}, ready : BOOLEAN]
    BY <1>3 DEF CompleteConnect, SetDefaultAccounts, Disconnect, RowsOK
  <2> QED
    BY <1>1, <2>1 DEF RowsOK
<1>4. ASSUME NEW p \in Records, Enqueue(p) \/ PostBackoffEnds(p) \/ Retry(p) PROVE ManyGoal
  <2>1. UNCHANGED <<drain, entries>>
    BY <1>4 DEF Enqueue, PostBackoffEnds, Retry
  <2>2. RowsOK' /\ \A q \in Records : post'[q].status = "posted" => post[q].status = "posted"
    <3> USE DEF RowsOK, PostRecords
    <3>1. CASE Enqueue(p)
      BY <3>1 DEF Enqueue
    <3>2. CASE PostBackoffEnds(p)
      BY <3>2 DEF PostBackoffEnds
    <3>3. CASE Retry(p)
      <4> DEFINE x == [post[p] EXCEPT !.status = "pending", !.due = TRUE]
      <4>1. x \in PostRecords /\ x.status = "pending"
        OBVIOUS
      <4>2. post' = [post EXCEPT ![p] = x] /\ UNCHANGED <<conn, moved, entries>>
        BY <3>3 DEF Retry
      <4> HIDE DEF x
      <4> QED
        BY <4>1, <4>2
    <3> QED
      BY <1>4, <3>1, <3>2, <3>3
  <2> QED
    BY <1>1, <2>1, <2>2
<1>5. ASSUME NEW d \in Drains, NEW x \in DrainRecords, drain' = [drain EXCEPT ![d] = x],
             RowsOK', UNCHANGED entries, ~x.absent, DOMAIN x.wrote \subseteq DOMAIN x.loaded,
             \A p \in Records : post'[p].status = "posted" => entries[p] > 0,
             \A p \in DOMAIN x.wrote : p \in DOMAIN drain[d].wrote /\ x.wrote[p] = drain[d].wrote[p]
      PROVE  ManyGoal
  <2>1. drain'[d] = x /\ \A c \in Drains \ {d} : drain'[c] = drain[c]
    BY <1>0, <1>5
  <2>2. DrainsOK'
    BY <1>0, <1>5, <2>1 DEF DrainsOK
  <2>3. ReportsAreTrue'
    BY <1>5, <2>1 DEF ReportsAreTrue
  <2>4. NoneAdded
    BY <1>5, <2>1 DEF NoneAdded, About, Trying
  <2> QED
    BY <1>5, <2>2, <2>3, <2>4 DEF ManyGoal
<1>6. ASSUME NEW d \in Drains, NEW p \in Records, Trying(d, p), NEW what \in Outcomes,
             Outcome(d, p, what), UNCHANGED <<conn, moved, post>>,
             \/ UNCHANGED entries /\ (what = "posted" => entries[p] > 0)
             \/ drain[d].absent /\ entries' = [entries EXCEPT ![p] = @ + 1]
      PROVE  ManyGoal
  <2>1. /\ DrainsOK'
        /\ \A c \in Drains \ {d} : drain'[c] = drain[c]
        /\ ~drain'[d].absent
        /\ DOMAIN drain'[d].wrote = DOMAIN drain[d].wrote \cup {p}
        /\ drain'[d].wrote[p] = what
        /\ \A q \in DOMAIN drain[d].wrote : q # p => drain'[d].wrote[q] = drain[d].wrote[q]
    BY <1>6, OutcomeStep
  <2>2. /\ RowsOK' /\ \A q \in Records : entries[q] > 0 => entries'[q] > 0
        /\ what = "posted" => entries'[p] > 0
    BY <1>0, <1>6 DEF RowsOK
  <2>3. \A c \in Drains : DOMAIN drain[c].wrote \subseteq Records
    BY <1>0 DEF DrainsOK
  <2>4. ReportsAreTrue'
    BY <1>6, <2>1, <2>2, <2>3 DEF ReportsAreTrue
  <2>5. \A q \in Records : About(q)' \subseteq About(q) \ {d}
    BY <2>1 DEF About, Trying
  <2>6. CASE UNCHANGED entries
    BY <2>1, <2>2, <2>4, <2>5, <2>6 DEF ManyGoal, NoneAdded
  <2>7. CASE drain[d].absent /\ entries' = [entries EXCEPT ![p] = @ + 1]
    <3>1. d \in About(p)
      BY <1>6, <2>7 DEF About
    <3>2. Enters(d, p)
      BY <2>5, <2>7, <3>1 DEF Enters
    <3> QED
      BY <2>1, <2>2, <2>4, <3>2 DEF ManyGoal
  <2> QED
    BY <1>6, <2>6, <2>7
<1>7. ASSUME NEW d \in Drains, StartDrain(d) PROVE ManyGoal
  <2> DEFINE l == [p \in DuePosts |-> post[p].attempts]
             x == [drain[d] EXCEPT !.loaded = l]
  <2>1. /\ drain' = [drain EXCEPT ![d] = x] /\ drain[d] = NoDrain
        /\ UNCHANGED <<conn, moved, post, entries>>
    BY <1>7 DEF StartDrain
  <2>2. l \in [DuePosts -> Nat] /\ DuePosts \in SUBSET Records
    BY DEF DuePosts, RowsOK, PostRecords
  <2>3. l \in UNION {[S -> Nat] : S \in SUBSET Records} /\ DOMAIN l = DuePosts
    <3> HIDE DEF l
    <3> QED
      BY <2>2
  <2>4. /\ x \in DrainRecords /\ x.loaded = l /\ x.wrote = NoDrain.wrote
        /\ x.absent = NoDrain.absent
    <3> HIDE DEF l
    <3> QED
      BY <2>1, <2>3, NoDrainType DEF DrainRecords
  <2>5. RowsOK' /\ \A p \in Records : post'[p].status = "posted" => entries[p] > 0
    BY <2>1 DEF RowsOK, ReportsAreTrue
  <2> HIDE DEF x, l
  <2> QED
    BY <1>5, <2>1, <2>3, <2>4, <2>5, NoDrainType
<1>8. ASSUME NEW d \in Drains, DrainDies(d) PROVE ManyGoal
  <2>1. /\ drain' = [drain EXCEPT ![d] = NoDrain] /\ UNCHANGED <<conn, moved, post, entries>>
    BY <1>8 DEF DrainDies
  <2>2. RowsOK' /\ \A p \in Records : post'[p].status = "posted" => entries[p] > 0
    BY <2>1 DEF RowsOK, ReportsAreTrue
  <2> QED
    BY <1>5, <2>1, <2>2, NoDrainType
<1>9. ASSUME NEW d \in Drains, EndDrain(d) PROVE ManyGoal
  <2>1. /\ drain' = [drain EXCEPT ![d] = NoDrain] /\ CommitDrain(d)
        /\ UNCHANGED <<moved, entries>>
    BY <1>9 DEF EndDrain
  <2>2. RowsOK' /\ \A p \in Records : post'[p].status = "posted" => entries[p] > 0
    BY <2>1, CommitKind
  <2> QED
    BY <1>5, <2>1, <2>2, NoDrainType
<1>10. ASSUME NEW d \in Drains, RefreshTokens(d) PROVE ManyGoal
  <2> DEFINE left == DOMAIN drain[d].loaded \ DOMAIN drain[d].wrote
             l == [p \in left |-> post[p].attempts]
             x == [drain[d] EXCEPT !.loaded = l, !.wrote = NoDrain.wrote]
  <2>1. /\ drain' = [drain EXCEPT ![d] = x] /\ ~drain[d].absent /\ CommitDrain(d)
        /\ UNCHANGED <<moved, entries>>
    BY <1>10 DEF RefreshTokens
  <2>2. l \in [left -> Nat] /\ left \in SUBSET Records
    BY <1>0 DEF RowsOK, PostRecords
  <2>3. l \in UNION {[S -> Nat] : S \in SUBSET Records} /\ DOMAIN l = left
    <3> HIDE DEF l, left
    <3> QED
      BY <2>2
  <2>4. /\ x \in DrainRecords /\ x.loaded = l /\ x.wrote = NoDrain.wrote
        /\ x.absent = drain[d].absent
    <3> HIDE DEF l
    <3> QED
      BY <1>0, <2>3, NoDrainType DEF DrainRecords
  <2>5. RowsOK' /\ \A p \in Records : post'[p].status = "posted" => entries[p] > 0
    BY <2>1, CommitKind
  <2> HIDE DEF x, l
  <2> QED
    BY <1>5, <2>1, <2>4, <2>5, NoDrainType
<1>11. ASSUME NEW d \in Drains, NEW p \in Records, Skip(d, p) PROVE ManyGoal
  BY <1>6, <1>11 DEF Skip, Outcomes
<1>12. ASSUME NEW d \in Drains, NEW p \in Records, LookUp(d, p) PROVE ManyGoal
  <2>1. CASE entries[p] > 0
    BY <1>6, <1>12, <2>1 DEF LookUp, Outcomes
  <2>2. CASE ~(entries[p] > 0)
    <3> DEFINE x == [drain[d] EXCEPT !.absent = TRUE]
    <3>1. /\ drain' = [drain EXCEPT ![d] = x] /\ UNCHANGED <<conn, moved, post, entries>>
          /\ Trying(d, p)
      BY <1>12, <2>2 DEF LookUp
    <3>2. /\ x \in DrainRecords /\ x.loaded = drain[d].loaded /\ x.wrote = drain[d].wrote
          /\ x.dead = drain[d].dead
      BY <1>0 DEF DrainRecords
    <3> HIDE DEF x
    <3>3. drain'[d] = x /\ \A c \in Drains \ {d} : drain'[c] = drain[c]
      BY <1>0, <3>1
    <3>4. \A q \in Records : Trying(d, q)' => q = p
      BY <1>0, <3>1, <3>2, <3>3, PostingsAssumption DEF Trying
    <3>5. Finds(p)
      <4>1. entries[p] = 0
        BY <1>0, <2>2
      <4> QED
        BY <3>1, <3>3, <3>4, <4>1 DEF Finds, About, Trying
    <3>6. DrainsOK'
      BY <1>0, <3>1, <3>2, <3>3 DEF DrainsOK
    <3>7. RowsOK' /\ ReportsAreTrue'
      BY <3>1, <3>2, <3>3 DEF RowsOK, ReportsAreTrue
    <3> QED
      BY <3>5, <3>6, <3>7 DEF ManyGoal
  <2> QED
    BY <2>1, <2>2
<1>13. ASSUME NEW d \in Drains, NEW p \in Records, Create(d, p) PROVE ManyGoal
  <2>1. /\ Trying(d, p) /\ drain[d].absent /\ UNCHANGED <<conn, moved, post>>
        /\ entries' = [entries EXCEPT ![p] = @ + 1]
        /\ \E what \in {"posted", "again"} : Outcome(d, p, what)
    BY <1>13 DEF Create
  <2> QED
    BY <1>6, <2>1 DEF Outcomes
<1>14. ASSUME NEW d \in Drains, NEW p \in Records, Refused(d, p) PROVE ManyGoal
  BY <1>6, <1>14 DEF Refused, Outcomes
<1> HIDE DEF ManyGoal
<1> QED
  BY <1>2, <1>3, <1>4, <1>7, <1>8, <1>9, <1>10, <1>11, <1>12, <1>13, <1>14 DEF PostingsNext

\* Before any drain nothing is entered.
LEMMA ManyDrainsInit ==
  PostingsInit => RowsOK /\ DrainsOK /\ ReportsAreTrue /\ \A p \in Records : entries[p] = 0
<1> SUFFICES ASSUME PostingsInit
             PROVE  RowsOK /\ DrainsOK /\ ReportsAreTrue /\ \A p \in Records : entries[p] = 0
  OBVIOUS
<1>1. RowsOK /\ DrainsOK
  BY PostingsInitInv DEF PostingsInv
<1>2. ReportsAreTrue /\ \A p \in Records : entries[p] = 0
  BY NoDrainType DEF PostingsInit, ReportsAreTrue
<1> QED
  BY <1>1, <1>2

\* The connection, the rows of the queue and the drains hold values of their
\* kind, however many drains run.
THEOREM PostingsTypeCorrect == PostingsSpec => []PostingsTypeOK
<1>1. RowsOK /\ DrainsOK /\ ReportsAreTrue /\ [PostingsNext]_postVars
        => (RowsOK /\ DrainsOK /\ ReportsAreTrue)'
  BY ManyDrainsStep DEF ManyGoal
<1>2. PostingsInit => RowsOK /\ DrainsOK /\ ReportsAreTrue
  BY ManyDrainsInit
<1>3. RowsOK /\ DrainsOK => PostingsTypeOK
  BY PostingsTypeParts
<1> QED
  BY <1>1, <1>2, <1>3, PTL DEF PostingsSpec

\* schedulers.yml:69-71 expects that a drain run by hand beside the scheduled one
\* posts nothing twice: each drain may enter a record that it did not find, but
\* through lost answers, restarts and retries there are never more entries of a
\* record than drains, and none is reported that is not entered.
THEOREM EnteredPerDrainAtMost ==
  ASSUME IsFiniteSet(Drains)
  PROVE  PostingsSpec => []EnteredPerDrain
<1> DEFINE N == Cardinality(Drains)
           Shared == \A p \in Records : entries[p] > 0 => entries[p] + Cardinality(About(p)) <= N
           I == RowsOK /\ DrainsOK /\ ReportsAreTrue /\ Shared
<1>1. N \in Nat
  BY FS_CardinalityType
<1>2. PostingsInit => I
  BY ManyDrainsInit
<1>3. I => EnteredPerDrain
  <2> SUFFICES ASSUME I, NEW p \in Records
               PROVE  entries[p] <= N /\ (post[p].status = "posted" => entries[p] > 0)
    BY DEF EnteredPerDrain
  <2>1. Cardinality(About(p)) \in Nat /\ entries[p] \in Nat
    BY Counting DEF About, RowsOK
  <2> HIDE DEF N
  <2> QED
    BY <1>1, <2>1 DEF ReportsAreTrue
<1>4. I /\ [PostingsNext]_postVars => I'
  <2> SUFFICES ASSUME I, [PostingsNext]_postVars PROVE I'
    OBVIOUS
  <2>1. ManyGoal
    BY ManyDrainsStep
  <2>2. \A q : About(q) \in SUBSET Drains /\ About(q)' \in SUBSET Drains
    BY DEF About
  <2>3. \A T \in SUBSET Drains : Cardinality(T) \in Nat /\ Cardinality(T) <= N
    BY Counting
  <2>4. \A T, U \in SUBSET Drains : T \subseteq U => Cardinality(T) <= Cardinality(U)
    BY Counting
  <2>5. \A T \in SUBSET Drains : \A x \in T : Cardinality(T \ {x}) = Cardinality(T) - 1
    BY Counting
  <2>6. /\ \A q : Cardinality(About(q)) \in Nat /\ Cardinality(About(q)) <= N
        /\ \A q : Cardinality(About(q)') \in Nat
        /\ \A q : About(q)' \subseteq About(q) => Cardinality(About(q)') <= Cardinality(About(q))
    BY <2>2, <2>3, <2>4
  <2>7. entries \in [Records -> Nat]
    BY DEF RowsOK
  <2> HIDE DEF N
  <2>8. CASE NoneAdded
    BY <1>1, <2>1, <2>6, <2>7, <2>8 DEF ManyGoal, NoneAdded, N
  <2>9. ASSUME NEW p \in Records, Finds(p) PROVE I'
    BY <1>1, <2>1, <2>6, <2>7, <2>9 DEF ManyGoal, Finds, N
  <2>10. ASSUME NEW p \in Records, NEW d \in Drains, Enters(d, p) PROVE I'
    <3>1. Cardinality(About(p)') <= Cardinality(About(p)) - 1
      <4>1. About(p) \ {d} \in SUBSET Drains /\ d \in About(p)
        BY <2>2, <2>10 DEF Enters
      <4>2. Cardinality(About(p)') <= Cardinality(About(p) \ {d})
        BY <2>2, <2>4, <2>10, <4>1 DEF Enters
      <4>3. Cardinality(About(p) \ {d}) = Cardinality(About(p)) - 1
        BY <2>2, <2>5, <4>1
      <4> QED
        BY <4>2, <4>3
    <3>2. entries'[p] = entries[p] + 1 /\ \A q \in Records \ {p} : entries'[q] = entries[q]
      BY <2>7, <2>10 DEF Enters
    <3>3. ASSUME NEW q \in Records, entries'[q] > 0
          PROVE  entries'[q] + Cardinality(About(q)') <= Cardinality(Drains)
      <4>1. CASE q = p
        BY <1>1, <2>6, <2>7, <3>1, <3>2, <4>1 DEF N
      <4>2. CASE q # p
        BY <1>1, <2>6, <2>7, <2>10, <3>2, <3>3, <4>2 DEF Enters, N
      <4> QED
        BY <4>1, <4>2
    <3> QED
      BY <2>1, <3>3 DEF ManyGoal, N
  <2> QED
    BY <2>1, <2>8, <2>9, <2>10 DEF ManyGoal
<1> HIDE DEF I
<1> QED
  BY <1>2, <1>3, <1>4, PTL DEF PostingsSpec

-----------------------------------------------------------------------------
(* StockLedger.                                                            *)

\* The sum in StockBook is the sum that Sums is about.
LEMMA BookSum ==
  ASSUME NEW f, NEW S
  PROVE  Book!SumFunctionOnSet(f, S) = SumFunctionOnSet(f, S)
BY DEF SumFunctionOnSet, FoldFunctionOnSet, MapThenFoldSet,
       Book!SumFunctionOnSet, Book!FoldFunctionOnSet, Book!MapThenFoldSet

\* What the first n moves of a request do to a cell.
SoFar(r, c, n) == SumFunctionOnSet(Book!Changes(r, c), 1..n)

\* What is taken from the moves of a request.
LEMMA MovesType ==
  ASSUME NEW r \in Requests
  PROVE  /\ Len(Moves[r]) \in Nat /\ DOMAIN Moves[r] = 1..Len(Moves[r])
         /\ \A i \in 1..Len(Moves[r]) : Moves[r][i].cell \in Cells /\ Moves[r][i].quantity \in Int
<1>1. Moves[r] \in Seq([cell : Cells, quantity : Int])
  BY LedgerAssumption
<1>2. \A i \in 1..Len(Moves[r]) : Moves[r][i] \in [cell : Cells, quantity : Int]
  BY <1>1, ElementOfSeq
<1> QED
  BY <1>1, <1>2

\* What a request changes at a cell, move by move, are integers.
LEMMA ChangesType ==
  ASSUME NEW r \in Requests, NEW c
  PROVE  \A i \in 1..Len(Moves[r]) :
           /\ Book!Changes(r, c)[i] = IF Moves[r][i].cell = c THEN Moves[r][i].quantity ELSE 0
           /\ Book!Changes(r, c)[i] \in Int
BY MovesType DEF Book!Changes

\* A move adds what it says to the cell it names.
Adds(r, c, n) ==
  /\ SoFar(r, c, n - 1) \in Int
  /\ SoFar(r, c, n) = SoFar(r, c, n - 1)
       + IF Moves[r][n].cell = c THEN Moves[r][n].quantity ELSE 0

\* Before the first move nothing is done, and each move adds its own.
LEMMA SoFarStep ==
  ASSUME NEW r \in Requests, NEW c
  PROVE  SoFar(r, c, 0) = 0 /\ \A n \in 1..Len(Moves[r]) : Adds(r, c, n)
<1> DEFINE f == Book!Changes(r, c)
<1>1. SoFar(r, c, 0) = 0
  <2>1. 1..0 = {} /\ IsFiniteSet({})
    BY FS_EmptySet
  <2> QED
    BY <2>1, SumZero DEF SoFar
<1>2. ASSUME NEW n \in 1..Len(Moves[r])
      PROVE  /\ SoFar(r, c, n - 1) \in Int
             /\ SoFar(r, c, n) = SoFar(r, c, n - 1) + f[n]
  <2>0. n \in Nat /\ n >= 1 /\ \A i \in 1..n : i \in 1..Len(Moves[r])
    BY MovesType
  <2>1. \A i \in 1..n : f[i] \in Int
    BY <2>0, ChangesType
  <2>2. 1..n \ {n} = 1..(n - 1) /\ n \in 1..n
    BY <2>0
  <2>3. IsFiniteSet(1..n) /\ IsFiniteSet(1..(n - 1))
    BY <2>0, FS_Interval
  <2> HIDE DEF f
  <2>4. SumFunctionOnSet(f, 1..n) = f[n] + SumFunctionOnSet(f, 1..(n - 1))
    <3>1. SumFunctionOnSet(f, 1..n) = f[n] + SumFunctionOnSet(f, 1..n \ {n})
      BY <2>1, <2>2, <2>3, SumRemove
    <3> QED
      BY <2>2, <3>1
  <2>5. SumFunctionOnSet(f, 1..(n - 1)) \in Int
    BY <2>0, <2>1, <2>3, SumInt
  <2>6. f[n] \in Int
    BY <2>1, <2>2
  <2> QED
    BY <2>4, <2>5, <2>6 DEF SoFar, f
<1> QED
  BY <1>1, <1>2, ChangesType DEF Adds

\* What a request changes at a cell adds up to an integer.
LEMMA SoFarInt ==
  ASSUME NEW r \in Requests, NEW c
  PROVE  SoFar(r, c, Len(Moves[r])) \in Int
<1> DEFINE f == Book!Changes(r, c)
           n == Len(Moves[r])
<1>1. n \in Nat /\ \A i \in 1..n : f[i] \in Int
  BY MovesType, ChangesType
<1> HIDE DEF f, n
<1>2. IsFiniteSet(1..n)
  BY <1>1, FS_Interval
<1>3. SumFunctionOnSet(f, 1..n) \in Int
  BY <1>1, <1>2, SumInt
<1> QED
  BY <1>3 DEF f, n, SoFar

\* Moves that do not name a cell leave it alone.
LEMMA SoFarElsewhere ==
  ASSUME NEW r \in Requests, NEW c, NEW n \in 0..Len(Moves[r]),
         c \notin {Moves[r][i].cell : i \in 1..n}
  PROVE  SoFar(r, c, n) = 0
<1>0. n \in Nat /\ \A i \in 1..n : i \in 1..Len(Moves[r])
  BY MovesType
<1>1. \A i \in 1..n : Book!Changes(r, c)[i] = 0
  BY <1>0, ChangesType
<1>2. IsFiniteSet(1..n)
  BY <1>0, FS_Interval
<1> QED
  BY <1>1, <1>2, SumZero DEF SoFar

\* All the moves of a request do what the book says it does.
LEMMA DeltaIsAll ==
  ASSUME NEW r \in Requests, NEW c
  PROVE  Book!Delta(r, c) = SoFar(r, c, Len(Moves[r]))
BY MovesType, BookSum DEF Book!Delta, SoFar

\* A request that is under way holds the rows of the cells it has moved stock
\* of, with what it makes of what they had; a row that it did not find is not
\* one of them.
Holding(w, had) ==
  /\ w.request \in Requests /\ w.step \in 1..(Len(Moves[w.request]) + 1)
  /\ DOMAIN w.mine = {Moves[w.request][i].cell : i \in 1..(w.step - 1)}
  /\ \A c \in DOMAIN w.mine : w.mine[c] = had[c] + SoFar(w.request, c, w.step - 1)
  /\ w.missed => Moves[w.request][w.step].cell \notin DOMAIN w.mine

Holds(s) == Holding(working[s], OnHand)

\* No two requests hold the same row.
HeldApart ==
  \A s, t \in Workers : s # t => DOMAIN working[s].mine \cap DOMAIN working[t].mine = {}

LedgerInv ==
  /\ LedgerTypeOK /\ HeldApart
  /\ movements = OnHand
  /\ \A s \in Workers : working[s] = AtRest \/ Holds(s)

\* A worker at rest is of its kind and holds no row.
LEMMA AtRestType == AtRest \in WorkRecords /\ DOMAIN AtRest.mine = {}
<1>1. [c \in {} |-> 0] \in UNION {[C -> Nat] : C \in SUBSET Cells}
  <2>1. [c \in {} |-> 0] \in [{} -> Nat]
    OBVIOUS
  <2> QED
    BY <2>1
<1> QED
  BY <1>1 DEF AtRest, WorkRecords

\* What is on hand is a number, and what a held row makes of it is one.
LEMMA OnHandType ==
  ASSUME LedgerTypeOK
  PROVE  /\ OnHand \in [Cells -> Nat]
         /\ \A c \in Cells : OnHand[c] = IF balance[c] = NoRow THEN 0 ELSE balance[c]
<1>1. \A c \in Cells : (IF balance[c] = NoRow THEN 0 ELSE balance[c]) \in Nat
  BY DEF LedgerTypeOK, NoRow
<1> QED
  BY <1>1 DEF OnHand

\* A ledger without movements keeps the invariant and is an empty stock book.
LEMMA LedgerInitInv == LedgerInit => LedgerInv /\ Book!BookInit
<1> SUFFICES ASSUME LedgerInit PROVE LedgerInv /\ Book!BookInit
  OBVIOUS
<1>1. LedgerTypeOK
  BY AtRestType DEF LedgerInit, LedgerTypeOK
<1>2. OnHand = [c \in Cells |-> 0]
  BY DEF LedgerInit, OnHand
<1>3. HeldApart /\ \A s \in Workers : working[s] = AtRest
  BY AtRestType DEF LedgerInit, HeldApart
<1> QED
  BY <1>1, <1>2, <1>3 DEF LedgerInit, LedgerInv, Book!BookInit

\* What a request holds stays so while its rows do.
LEMMA HoldingStays ==
  ASSUME NEW w, NEW had, NEW now, Holding(w, had), \A c \in DOMAIN w.mine : now[c] = had[c]
  PROVE  Holding(w, now)
BY DEF Holding

\* A request that does not find a row holds what it held.
LEMMA HoldingMissed ==
  ASSUME NEW w, NEW x, NEW had, Holding(w, had),
         x.request = w.request, x.step = w.step, x.mine = w.mine,
         Moves[w.request][w.step].cell \notin DOMAIN w.mine
  PROVE  Holding(x, had)
<1>1. /\ w.request \in Requests /\ w.step \in 1..(Len(Moves[w.request]) + 1)
      /\ DOMAIN w.mine = {Moves[w.request][i].cell : i \in 1..(w.step - 1)}
      /\ \A c \in DOMAIN w.mine : w.mine[c] = had[c] + SoFar(w.request, c, w.step - 1)
  BY DEF Holding
<1>2. /\ x.request \in Requests /\ x.step \in 1..(Len(Moves[x.request]) + 1)
      /\ DOMAIN x.mine = {Moves[x.request][i].cell : i \in 1..(x.step - 1)}
      /\ \A c \in DOMAIN x.mine : x.mine[c] = had[c] + SoFar(x.request, c, x.step - 1)
  BY <1>1
<1> QED
  BY <1>2 DEF Holding

\* A request that has more to do is about to move stock of some cell; one that
\* did not find its row does not hold it.
LEMMA HeldMove ==
  ASSUME LedgerInv, NEW s \in Workers, Pending(s)
  PROVE  /\ Holding(working[s], OnHand) /\ working[s] \in WorkRecords
         /\ working[s].request \in Requests /\ NextMove(s).cell \in Cells
         /\ working[s].missed => NextMove(s).cell \notin DOMAIN working[s].mine
<1> DEFINE r == working[s].request
           k == working[s].step
<1>1. /\ Holding(working[s], OnHand) /\ working[s] \in WorkRecords
      /\ k <= Len(Moves[r]) /\ NextMove(s) = Moves[r][k]
  BY DEF LedgerInv, LedgerTypeOK, Holds, Pending, Active, Plan, NextMove
<1>2. /\ r \in Requests /\ k \in 1..(Len(Moves[r]) + 1)
      /\ working[s].missed => Moves[r][k].cell \notin DOMAIN working[s].mine
  BY <1>1 DEF Holding
<1> HIDE DEF r, k
<1>3. k \in 1..Len(Moves[r])
  BY <1>1, <1>2, MovesType
<1>4. Moves[r][k].cell \in Cells
  BY <1>2, <1>3, MovesType
<1> QED
  BY <1>1, <1>2, <1>4 DEF r, k

\* The history holds values of its kind, and stays when nothing commits or begins.
HistoryOK == unread \in [Workers -> SUBSET Requests] /\ overtaken \subseteq Requests

LEMMA HistoryKept == ASSUME LedgerInv, UNCHANGED ledgerHistory PROVE HistoryOK'
BY DEF LedgerInv, LedgerTypeOK, HistoryOK, ledgerHistory

\* A session that changes only itself: it comes to rest, or holds its rows apart
\* from the others.
LEMMA OneWorks ==
  ASSUME LedgerInv, NEW s \in Workers, NEW x \in WorkRecords,
         working' = [working EXCEPT ![s] = x],
         UNCHANGED <<balance, movements, done, total>>, HistoryOK',
         \A t \in Workers \ {s} : DOMAIN x.mine \cap DOMAIN working[t].mine = {},
         x = AtRest \/ Holds(s)'
  PROVE  LedgerInv' /\ UNCHANGED OnHand
<1>1. LedgerTypeOK' /\ UNCHANGED OnHand
  BY DEF LedgerInv, LedgerTypeOK, HistoryOK, OnHand
<1>2. working'[s] = x /\ \A t \in Workers \ {s} : working'[t] = working[t]
  BY DEF LedgerInv, LedgerTypeOK
<1>3. HeldApart'
  BY <1>2 DEF LedgerInv, HeldApart
<1>4. \A t \in Workers \ {s} : Holds(t) => Holds(t)'
  BY <1>1, <1>2 DEF Holds
<1> QED
  BY <1>1, <1>2, <1>3, <1>4 DEF LedgerInv, Holds

\* What is rolled back was never committed: the books stay.
LEMMA RollbackStep ==
  ASSUME LedgerInv, NEW s \in Workers, RollbackMoves(s)
  PROVE  LedgerInv' /\ UNCHANGED OnHand
BY OneWorks, HistoryKept, AtRestType DEF RollbackMoves

\* The move m goes through, on a row that is held or taken with n in it, and
\* leaves the request with the rows mine.
MoveMade(w, had, m, n, mine) ==
  /\ w.step <= Len(Moves[w.request]) /\ m = Moves[w.request][w.step]
  /\ \/ m.cell \in DOMAIN w.mine /\ n = w.mine[m.cell]
     \/ m.cell \notin DOMAIN w.mine /\ n = had[m.cell]
  /\ ~(n + m.quantity < 0)
  /\ mine = [c \in DOMAIN w.mine \cup {m.cell} |->
               IF c = m.cell THEN n + m.quantity ELSE w.mine[c]]

\* What is then known of the move and of the rows.
RowsMade(w, m, n, mine) ==
  /\ w.request \in Requests /\ w.step \in 1..Len(Moves[w.request])
  /\ m = Moves[w.request][w.step] /\ m.cell \in Cells /\ m.quantity \in Int
  /\ n \in Nat
  /\ \E C \in SUBSET Cells : w.mine \in [C -> Nat] /\ mine \in [C \cup {m.cell} -> Nat]
  /\ DOMAIN mine = DOMAIN w.mine \cup {m.cell}
  /\ mine[m.cell] = n + m.quantity
  /\ \A c \in DOMAIN w.mine : c # m.cell => mine[c] = w.mine[c]

\* A move that goes through leaves the worker with rows of their kind.
LEMMA MoveMadeType ==
  ASSUME NEW w \in WorkRecords, NEW had \in [Cells -> Nat], Holding(w, had),
         NEW m, NEW n, NEW mine, MoveMade(w, had, m, n, mine)
  PROVE  RowsMade(w, m, n, mine)
<1> DEFINE r == w.request
           k == w.step
<1>1. r \in Requests /\ k \in 1..(Len(Moves[r]) + 1) /\ k <= Len(Moves[r]) /\ m = Moves[r][k]
  BY DEF Holding, MoveMade
<1>2. PICK C \in SUBSET Cells : w.mine \in [C -> Nat]
  BY DEF WorkRecords
<1>3. /\ \/ m.cell \in DOMAIN w.mine /\ n = w.mine[m.cell]
         \/ m.cell \notin DOMAIN w.mine /\ n = had[m.cell]
      /\ ~(n + m.quantity < 0)
      /\ mine = [c \in DOMAIN w.mine \cup {m.cell} |->
                   IF c = m.cell THEN n + m.quantity ELSE w.mine[c]]
  BY DEF MoveMade
<1> HIDE DEF r, k
<1>4. Len(Moves[r]) \in Nat
  BY <1>1, MovesType
<1>5. k \in 1..Len(Moves[r])
  BY <1>1, <1>4
<1>6. m.cell \in Cells /\ m.quantity \in Int
  BY <1>1, <1>5, MovesType
<1>7. n \in Nat
  BY <1>2, <1>3, <1>6
<1>8. n + m.quantity \in Nat
  BY <1>3, <1>6, <1>7
<1>9. mine \in [C \cup {m.cell} -> Nat]
  BY <1>2, <1>3, <1>8
<1> QED
  BY <1>1, <1>2, <1>3, <1>5, <1>6, <1>7, <1>9 DEF r, k, RowsMade

\* A worker that has made one more move holds the rows it wrote, as its moves
\* add up.
LEMMA MoveHolds ==
  ASSUME NEW w \in WorkRecords, NEW had \in [Cells -> Nat], Holding(w, had),
         NEW m, NEW n, NEW mine, MoveMade(w, had, m, n, mine)
  PROVE  /\ [w EXCEPT !.mine = mine, !.step = w.step + 1, !.missed = FALSE] \in WorkRecords
         /\ Holding([w EXCEPT !.mine = mine, !.step = w.step + 1, !.missed = FALSE], had)
<1> DEFINE x == [w EXCEPT !.mine = mine, !.step = w.step + 1, !.missed = FALSE]
           k == w.step
           r == w.request
<1>0. RowsMade(w, m, n, mine)
  BY MoveMadeType
<1>1. /\ r \in Requests /\ k \in 1..Len(Moves[r]) /\ m = Moves[r][k]
      /\ m.cell \in Cells /\ m.quantity \in Int /\ n \in Nat
      /\ DOMAIN mine = DOMAIN w.mine \cup {m.cell}
      /\ mine[m.cell] = n + m.quantity
      /\ \A c \in DOMAIN w.mine : c # m.cell => mine[c] = w.mine[c]
  BY <1>0 DEF RowsMade
<1>2. PICK C \in SUBSET Cells : w.mine \in [C -> Nat] /\ mine \in [C \cup {m.cell} -> Nat]
  BY <1>0 DEF RowsMade
<1>3. mine \in UNION {[D -> Nat] : D \in SUBSET Cells}
  <2>1. C \cup {m.cell} \in SUBSET Cells
    BY <1>1
  <2> QED
    BY <1>2, <2>1
<1>4. k + 1 \in Nat \ {0}
  BY <1>1, MovesType
<1>5. x \in WorkRecords /\ x.request = r /\ x.step = k + 1 /\ x.mine = mine /\ x.missed = FALSE
  BY <1>3, <1>4 DEF WorkRecords
<1>6. /\ DOMAIN w.mine = {Moves[r][i].cell : i \in 1..(k - 1)}
      /\ \A c \in DOMAIN w.mine : w.mine[c] = had[c] + SoFar(r, c, k - 1)
  BY DEF Holding
<1>7. \/ m.cell \in DOMAIN w.mine /\ n = w.mine[m.cell]
      \/ m.cell \notin DOMAIN w.mine /\ n = had[m.cell]
  BY DEF MoveMade
<1> HIDE DEF x, k, r
<1>8. /\ k - 1 \in 0..Len(Moves[r]) /\ k + 1 \in 1..(Len(Moves[r]) + 1) /\ (k + 1) - 1 = k
      /\ 1..k = 1..(k - 1) \cup {k}
  BY <1>1, MovesType
<1>9. DOMAIN mine = {Moves[r][i].cell : i \in 1..k}
  BY <1>1, <1>6, <1>8
<1>10. ASSUME NEW c \in DOMAIN mine PROVE mine[c] = had[c] + SoFar(r, c, k)
  <2>1. /\ SoFar(r, c, k - 1) \in Int
        /\ SoFar(r, c, k) = SoFar(r, c, k - 1) + IF m.cell = c THEN m.quantity ELSE 0
    <3>1. Adds(r, c, k)
      BY <1>1, SoFarStep
    <3> QED
      BY <1>1, <3>1 DEF Adds
  <2>2. c \in Cells /\ had[c] \in Nat
    BY <1>1, <1>2
  <2>3. c \notin DOMAIN w.mine => SoFar(r, c, k - 1) = 0
    BY <1>1, <1>6, <1>8, SoFarElsewhere
  <2>4. CASE c = m.cell
    <3>1. n = had[c] + SoFar(r, c, k - 1)
      BY <1>6, <1>7, <2>1, <2>2, <2>3, <2>4
    <3>2. mine[c] = n + m.quantity /\ SoFar(r, c, k) = SoFar(r, c, k - 1) + m.quantity
      BY <1>1, <2>1, <2>4
    <3> QED
      BY <1>1, <2>1, <2>2, <3>1, <3>2
  <2>5. CASE c # m.cell
    <3>1. mine[c] = w.mine[c] /\ c \in DOMAIN w.mine /\ SoFar(r, c, k) = SoFar(r, c, k - 1)
      BY <1>1, <2>1, <2>5
    <3> QED
      BY <1>6, <3>1
  <2> QED
    BY <2>4, <2>5
<1>11. Holding(x, had)
  <2>1. x.step - 1 = k
    BY <1>5, <1>8
  <2>2. DOMAIN x.mine = {Moves[x.request][i].cell : i \in 1..(x.step - 1)}
    BY <1>5, <1>9, <2>1
  <2>3. \A c \in DOMAIN x.mine : x.mine[c] = had[c] + SoFar(x.request, c, x.step - 1)
    BY <1>5, <1>10, <2>1
  <2> QED
    BY <1>1, <1>5, <1>8, <2>2, <2>3 DEF Holding
<1> QED
  BY <1>5, <1>11 DEF x

\* The next move of a request goes through, or takes the request back.
LEMMA PostStep ==
  ASSUME LedgerInv, NEW s \in Workers, Pending(s), NEW n, Post(s, n),
         \/ NextMove(s).cell \in DOMAIN working[s].mine /\ n = working[s].mine[NextMove(s).cell]
         \/ /\ NextMove(s).cell \notin DOMAIN working[s].mine
            /\ ~HeldByOther(s, NextMove(s).cell)
            /\ n = OnHand[NextMove(s).cell]
  PROVE  LedgerInv' /\ UNCHANGED OnHand
<1> DEFINE w == working[s]
           m == NextMove(s)
           mine == [c \in DOMAIN w.mine \cup {m.cell} |->
                      IF c = m.cell THEN n + m.quantity ELSE w.mine[c]]
           x == [w EXCEPT !.mine = mine, !.step = w.step + 1, !.missed = FALSE]
<1>1. CASE RollbackMoves(s)
  BY <1>1, RollbackStep
<1>2. CASE ~RollbackMoves(s)
  <2>1. /\ ~(n + m.quantity < 0) /\ working' = [working EXCEPT ![s] = x]
        /\ UNCHANGED <<balance, movements, done, total, ledgerHistory>>
    BY <1>2, Zenon DEF Post
  <2>2. w \in WorkRecords /\ Holding(w, OnHand) /\ OnHand \in [Cells -> Nat]
    BY OnHandType DEF LedgerInv, LedgerTypeOK, Holds, Pending, Active
  <2>3. \A t \in Workers \ {s} : m.cell \notin DOMAIN working[t].mine
    BY DEF LedgerInv, HeldApart, HeldByOther
  <2>4. MoveMade(w, OnHand, m, n, mine)
    BY <2>1 DEF MoveMade, Pending, Plan, NextMove
  <2> HIDE DEF mine, m
  <2>5. x \in WorkRecords /\ Holding(x, OnHand)
    BY <2>2, <2>4, MoveHolds
  <2>6. x.mine = mine /\ DOMAIN mine = DOMAIN w.mine \cup {m.cell}
    <3>1. DOMAIN mine = DOMAIN w.mine \cup {m.cell}
      BY <2>4 DEF MoveMade
    <3> QED
      BY <2>2, <3>1 DEF WorkRecords
  <2> HIDE DEF x
  <2>7. working'[s] = x /\ UNCHANGED OnHand
    BY <2>1 DEF LedgerInv, LedgerTypeOK, OnHand
  <2>8. Holds(s)'
    BY <2>5, <2>7 DEF Holds
  <2>9. \A t \in Workers \ {s} : DOMAIN x.mine \cap DOMAIN working[t].mine = {}
    BY <2>3, <2>6 DEF LedgerInv, HeldApart
  <2> QED
    BY <2>1, <2>5, <2>8, <2>9, OneWorks, HistoryKept
<1> QED
  BY <1>1, <1>2

\* A request commits: the shelves hold what the book says they do.
LEMMA CommitMovesStep ==
  ASSUME LedgerInv, NEW s \in Workers, CommitMoves(s)
  PROVE  LedgerInv' /\ \E r \in Requests : Book!PostAll(r)
<1> DEFINE r == working[s].request
           n == Len(Moves[r])
           mine == working[s].mine
<1>0. Holds(s) /\ working[s] \in WorkRecords /\ LedgerTypeOK /\ AtRest \in WorkRecords
  BY AtRestType DEF LedgerInv, LedgerTypeOK, CommitMoves, Active
<1>1. /\ r \in Requests /\ working[s].step = n + 1 /\ n \in Nat
      /\ DOMAIN mine = {Moves[r][i].cell : i \in 1..n}
      /\ \A c \in DOMAIN mine : mine[c] = OnHand[c] + SoFar(r, c, n)
  <2>1. ~(working[s].step <= n)
    BY DEF CommitMoves, Pending, Plan
  <2>2. r \in Requests /\ working[s].step \in 1..(n + 1)
    BY <1>0 DEF Holds, Holding
  <2> HIDE DEF n, r
  <2>3. n \in Nat
    BY <2>2, MovesType DEF n
  <2>4. working[s].step = n + 1 /\ working[s].step - 1 = n
    BY <2>1, <2>2, <2>3
  <2> QED
    BY <1>0, <2>2, <2>3, <2>4 DEF Holds, Holding, r
<1>2. /\ balance' = [c \in Cells |-> IF c \in DOMAIN mine THEN mine[c] ELSE balance[c]]
      /\ movements' = [c \in Cells |-> movements[c] + Book!Delta(r, c)]
      /\ done' = [done EXCEPT ![r] = @ + 1]
      /\ total' = IF r \in Receipts THEN working[s].totalRead + 1 ELSE total
      /\ working' = [working EXCEPT ![s] = AtRest]
      /\ unread' = [t \in Workers |-> IF t = s THEN {} ELSE unread[t] \cup {r}]
      /\ overtaken' = overtaken \cup IF Overtaken(s) THEN {r} ELSE {}
  BY DEF CommitMoves
<1>3. PICK C \in SUBSET Cells : mine \in [C -> Nat]
  BY <1>0 DEF WorkRecords
<1>4. LedgerTypeOK'
  <2>1. balance' \in [Cells -> Nat \cup {NoRow}]
    BY <1>0, <1>2, <1>3 DEF LedgerTypeOK
  <2>2. \A c \in Cells : Book!Delta(r, c) \in Int
    <3> SUFFICES ASSUME NEW c \in Cells PROVE Book!Delta(r, c) \in Int
      OBVIOUS
    <3>1. r \in Requests
      BY <1>1
    <3> HIDE DEF r
    <3>2. Book!Delta(r, c) = SoFar(r, c, Len(Moves[r]))
      BY <3>1, DeltaIsAll
    <3>3. SoFar(r, c, Len(Moves[r])) \in Int
      BY <3>1, SoFarInt
    <3> QED
      BY <3>2, <3>3
  <2>3. movements' \in [Cells -> Int]
    BY <1>0, <1>2, <2>2 DEF LedgerTypeOK
  <2>4. done' \in [Requests -> Nat] /\ total' \in Nat
    BY <1>0, <1>1, <1>2 DEF LedgerTypeOK, WorkRecords
  <2>5. working' \in [Workers -> WorkRecords]
    BY <1>0, <1>2 DEF LedgerTypeOK
  <2>6. unread' \in [Workers -> SUBSET Requests] /\ overtaken' \subseteq Requests
    BY <1>0, <1>1, <1>2 DEF LedgerTypeOK
  <2> QED
    BY <2>1, <2>3, <2>4, <2>5, <2>6 DEF LedgerTypeOK
<1>5. /\ \A c \in Cells : OnHand'[c] = OnHand[c] + Book!Delta(r, c)
      /\ \A c \in Cells \ DOMAIN mine : OnHand'[c] = OnHand[c]
  <2> SUFFICES ASSUME NEW c \in Cells
               PROVE  /\ OnHand'[c] = OnHand[c] + Book!Delta(r, c)
                      /\ c \notin DOMAIN mine => OnHand'[c] = OnHand[c]
    OBVIOUS
  <2>1. OnHand[c] \in Nat /\ OnHand[c] = IF balance[c] = NoRow THEN 0 ELSE balance[c]
    BY <1>0, OnHandType
  <2>2. OnHand'[c] = IF balance'[c] = NoRow THEN 0 ELSE balance'[c]
    BY DEF OnHand
  <2>3. Book!Delta(r, c) = SoFar(r, c, n)
    BY <1>1, DeltaIsAll
  <2>5. CASE c \in DOMAIN mine
    <3>1. mine[c] = OnHand[c] + SoFar(r, c, n)
      BY <1>1, <2>5
    <3>2. mine[c] \in Nat /\ balance'[c] = mine[c]
      BY <1>2, <1>3, <2>5
    <3> QED
      BY <2>2, <2>3, <2>5, <3>1, <3>2 DEF NoRow
  <2>6. CASE c \notin DOMAIN mine
    <3>1. SoFar(r, c, n) = 0
      BY <1>1, <2>6, SoFarElsewhere
    <3>2. balance'[c] = balance[c]
      BY <1>2, <2>6
    <3> QED
      BY <2>1, <2>2, <2>3, <3>1, <3>2
  <2> QED
    BY <2>5, <2>6
<1>6. OnHand' \in [Cells -> Nat]
  <2>1. \A c \in Cells : (IF balance'[c] = NoRow THEN 0 ELSE balance'[c]) \in Nat
    BY <1>4 DEF LedgerTypeOK, NoRow
  <2> QED
    BY <2>1 DEF OnHand
<1>7. OnHand' = [c \in Cells |-> movements[c] + Book!Delta(r, c)]
  BY <1>5, <1>6 DEF LedgerInv
<1>8. movements' = OnHand'
  BY <1>2, <1>7
<1>9. /\ working'[s] = AtRest /\ \A t \in Workers \ {s} : working'[t] = working[t]
  BY <1>0, <1>2 DEF LedgerTypeOK
<1>10. HeldApart'
  BY <1>9, AtRestType DEF LedgerInv, HeldApart
<1>11. ASSUME NEW t \in Workers \ {s}, Holds(t) PROVE Holds(t)'
  <2>1. DOMAIN working[t].mine \subseteq Cells
    BY <1>0 DEF LedgerTypeOK, WorkRecords
  <2>2. \A c \in DOMAIN working[t].mine : OnHand'[c] = OnHand[c]
    BY <1>5, <2>1 DEF LedgerInv, HeldApart
  <2>3. Holding(working[t], OnHand')
    BY <1>11, <2>2, HoldingStays DEF Holds
  <2> QED
    BY <1>9, <2>3 DEF Holds
<1>12. LedgerInv'
  BY <1>4, <1>8, <1>9, <1>10, <1>11 DEF LedgerInv
<1>13. Book!PostAll(r)
  BY <1>2, <1>6, <1>7, <1>8 DEF Book!PostAll
<1> QED
  BY <1>1, <1>12, <1>13

\* A step of the ledger keeps the invariant, and is a step of the book or none.
LEMMA LedgerStep ==
  ASSUME LedgerInv, [LedgerNext]_ledgerVars
  PROVE  LedgerInv' /\ [\E r \in Requests : Book!PostAll(r)]_<<OnHand, movements>>
<1> DEFINE Goal == LedgerInv' /\ [\E r \in Requests : Book!PostAll(r)]_<<OnHand, movements>>
<1> SUFFICES Goal
  OBVIOUS
<1>1. CASE UNCHANGED ledgerVars
  BY <1>1 DEF ledgerVars, ledgerHistory, LedgerInv, LedgerTypeOK, HeldApart, OnHand, Holds
<1>2. ASSUME LedgerInv', UNCHANGED OnHand PROVE Goal
  BY <1>2 DEF LedgerInv
<1>3. ASSUME NEW s \in Workers, NEW r \in Requests, Begin(s, r) PROVE Goal
  <2> DEFINE x == [AtRest EXCEPT !.request = r, !.totalRead = total]
  <2>1. working' = [working EXCEPT ![s] = x] /\ UNCHANGED <<balance, movements, done, total>>
    BY <1>3 DEF Begin
  <2>6. HistoryOK'
    BY <1>3 DEF Begin, LedgerInv, LedgerTypeOK, HistoryOK
  <2>2. /\ x \in WorkRecords /\ x.request = r /\ x.step = 1 /\ x.mine = AtRest.mine
        /\ x.missed = FALSE
    BY AtRestType DEF AtRest, WorkRecords, LedgerInv, LedgerTypeOK
  <2> HIDE DEF x
  <2>3. working'[s] = x
    BY <2>1 DEF LedgerInv, LedgerTypeOK
  <2>4. Holds(s)'
    <3>1. 1 \in 1..(Len(Moves[r]) + 1) /\ 1 - 1 = 0
      BY MovesType
    <3>2. DOMAIN x.mine = {Moves[r][i].cell : i \in 1..0}
      BY <2>2, AtRestType
    <3>3. x.step - 1 = 0 /\ x.missed = FALSE
      BY <2>2
    <3>4. Holding(x, OnHand')
      BY <2>2, <3>1, <3>2, <3>3, AtRestType DEF Holding
    <3> QED
      BY <2>3, <3>4 DEF Holds
  <2>5. LedgerInv' /\ UNCHANGED OnHand
    BY <2>1, <2>2, <2>4, <2>6, AtRestType, OneWorks
  <2> QED
    BY <1>2, <2>5
<1>4. ASSUME NEW s \in Workers, MoveRow(s) PROVE Goal
  <2>0. Pending(s)
    BY <1>4 DEF MoveRow
  <2>1. NextMove(s).cell \in Cells
    BY <2>0, HeldMove
  <2>2. CASE NextMove(s).cell \in DOMAIN working[s].mine
    BY <1>2, <1>4, <2>0, <2>2, PostStep DEF MoveRow
  <2>3. CASE NextMove(s).cell \notin DOMAIN working[s].mine
    <3>1. OnHand[NextMove(s).cell] = balance[NextMove(s).cell]
      BY <1>4, <2>1, <2>3 DEF MoveRow, OnHand
    <3> QED
      BY <1>2, <1>4, <2>0, <2>3, <3>1, PostStep DEF MoveRow
  <2> QED
    BY <2>2, <2>3
<1>5. ASSUME NEW s \in Workers, MissRow(s) PROVE Goal
  <2> DEFINE w == working[s]
             x == [w EXCEPT !.missed = TRUE]
  <2>0. /\ Holding(w, OnHand) /\ w \in WorkRecords
        /\ NextMove(s).cell \notin DOMAIN w.mine
    BY <1>5, HeldMove DEF MissRow
  <2>1. /\ working' = [working EXCEPT ![s] = x] /\ UNCHANGED <<balance, movements, done, total>>
        /\ HistoryOK'
    BY <1>5, HistoryKept DEF MissRow
  <2>2. /\ x \in WorkRecords /\ x.request = w.request /\ x.step = w.step /\ x.mine = w.mine
    BY <2>0 DEF WorkRecords
  <2>3. NextMove(s) = Moves[w.request][w.step]
    BY DEF NextMove, Plan
  <2> HIDE DEF x
  <2>4. working'[s] = x /\ UNCHANGED OnHand
    BY <2>1 DEF LedgerInv, LedgerTypeOK, OnHand
  <2>5. Holding(x, OnHand)
    BY <2>0, <2>2, <2>3, HoldingMissed
  <2>6. Holds(s)'
    BY <2>4, <2>5 DEF Holds
  <2>7. \A t \in Workers \ {s} : DOMAIN x.mine \cap DOMAIN working[t].mine = {}
    BY <2>2 DEF LedgerInv, HeldApart
  <2>8. LedgerInv' /\ UNCHANGED OnHand
    BY <2>1, <2>2, <2>6, <2>7, OneWorks
  <2> QED
    BY <1>2, <2>8
<1>6. ASSUME NEW s \in Workers, InsertRow(s) PROVE Goal
  <2>0. Pending(s) /\ working[s].missed
    BY <1>6 DEF InsertRow
  <2>1. NextMove(s).cell \in Cells /\ NextMove(s).cell \notin DOMAIN working[s].mine
    BY <2>0, HeldMove
  <2>2. CASE RollbackMoves(s)
    BY <1>2, <2>2, RollbackStep
  <2>3. CASE ~RollbackMoves(s)
    <3>1. /\ balance[NextMove(s).cell] = NoRow /\ ~HeldByOther(s, NextMove(s).cell)
          /\ Post(s, 0)
      BY <1>6, <2>3 DEF InsertRow
    <3>2. OnHand[NextMove(s).cell] = 0
      BY <2>1, <3>1 DEF OnHand
    <3>3. LedgerInv' /\ UNCHANGED OnHand
      BY <2>0, <2>1, <3>1, <3>2, PostStep
    <3> QED
      BY <1>2, <3>3
  <2> QED
    BY <2>2, <2>3
<1>7. ASSUME NEW s \in Workers, CommitMoves(s) PROVE Goal
  BY <1>7, CommitMovesStep
<1>8. ASSUME NEW s \in Workers, DeadlockBroken(s) \/ RequestDies(s) PROVE Goal
  BY <1>2, <1>8, RollbackStep DEF DeadlockBroken, RequestDies
<1> QED
  BY <1>1, <1>3, <1>4, <1>5, <1>6, <1>7, <1>8 DEF LedgerNext

\* stock_service.py:10-26: however many requests move stock at the same time,
\* lock rows in whatever order, fail or die, each moves all of its stock or
\* none, no shelf goes below nothing, and every balance is the sum of its
\* movements: the ledger implements the stock book.
THEOREM StockMovesAsBooked == LedgerSpec => StockIsALedger
<1>1. LedgerInv /\ [LedgerNext]_ledgerVars
        => LedgerInv' /\ [\E r \in Requests : Book!PostAll(r)]_<<OnHand, movements>>
  BY LedgerStep
<1> QED
  BY <1>1, LedgerInitInv, PTL DEF LedgerSpec, StockIsALedger, Book!BookSpec

\* Balances, movements and sessions hold values of their kind.
THEOREM LedgerTypeCorrect == LedgerSpec => []LedgerTypeOK
<1>1. LedgerInv /\ [LedgerNext]_ledgerVars => LedgerInv'
  BY LedgerStep
<1>2. LedgerInv => LedgerTypeOK
  BY DEF LedgerInv
<1> QED
  BY <1>1, <1>2, LedgerInitInv, PTL DEF LedgerSpec

\* The requests under way that carry out r.
At(r) == {s \in Workers : Active(s) /\ working[s].request = r}

\* Once a document was carried out, those who loaded it before are all that is left
\* to carry it out again.
OpenTo(r) == done[r] > 0 => done[r] + Cardinality(At(r)) <= Cardinality(Workers)

\* No request commits more often than the bound and those under way allow.
WithinBound(r) == done[r] + Cardinality(At(r)) <= MaxCommits + Cardinality(Workers)

\* What a request read of the total is no more than was received since.
ReadBefore == \A s \in Workers : Active(s) => working[s].totalRead <= Cardinality(Counted)

CountInv ==
  /\ \A r \in Documents : OpenTo(r)
  /\ \A r \in Requests : WithinBound(r)
  /\ TotalWithinReceipts /\ ReadBefore

\* What is counted is finite, and one commit counts once.
LEMMA CountedFinite ==
  ASSUME IsFiniteSet(Receipts), IsFiniteSet(Workers)
  PROVE  IsFiniteSet(Counted) /\ Cardinality(Counted) \in Nat
<1> DEFINE N == MaxCommits + Cardinality(Workers)
<1>1. Cardinality(Workers) \in Nat /\ MaxCommits \in Nat
  BY FS_CardinalityType, LedgerAssumption
<1>2. IsFiniteSet(1..N)
  BY <1>1, FS_Interval
<1>3. IsFiniteSet(Receipts \X (1..N))
  BY <1>2, FS_Product
<1>4. Counted \in SUBSET (Receipts \X (1..N))
  BY DEF Counted
<1> QED
  BY <1>3, <1>4, FS_Subset, FS_CardinalityType

\* A commit adds one to what is counted when it is a receipt, and nothing otherwise.
LEMMA CountedStep ==
  ASSUME LedgerTypeOK, IsFiniteSet(Receipts), IsFiniteSet(Workers), NEW r \in Requests,
         done' = [done EXCEPT ![r] = @ + 1], done[r] < MaxCommits + Cardinality(Workers)
  PROVE  Cardinality(Counted') = Cardinality(Counted) + IF r \in Receipts THEN 1 ELSE 0
<1> DEFINE N == MaxCommits + Cardinality(Workers)
<1>1. N \in Nat /\ MaxCommits \in Nat /\ Receipts \subseteq Requests
  BY FS_CardinalityType, LedgerAssumption
<1>2. done \in [Requests -> Nat]
  BY DEF LedgerTypeOK
<1>3. CASE r \notin Receipts
  <2>1. Counted' = Counted
    BY <1>1, <1>2, <1>3 DEF Counted
  <2> QED
    BY <1>3, <2>1, CountedFinite
<1>4. CASE r \in Receipts
  <2> DEFINE new == <<r, done[r] + 1>>
  <2>1. Counted' = Counted \cup {new} /\ new \notin Counted
    BY <1>1, <1>2, <1>4 DEF Counted
  <2> HIDE DEF new
  <2> QED
    BY <1>4, <2>1, CountedFinite, FS_AddElement
<1> QED
  BY <1>3, <1>4

\* What a step does to the requests under way: none commits, and none of them is
\* another; or one begins; or one commits.
Quiet ==
  /\ UNCHANGED <<done, total, ledgerHistory>>
  /\ \A t \in Workers : Active(t)' => /\ Active(t) /\ working'[t].request = working[t].request
                                      /\ working'[t].totalRead = working[t].totalRead
Starts(s, r) ==
  /\ UNCHANGED <<done, total, overtaken>>
  /\ unread' = [unread EXCEPT ![s] = {}]
  /\ done[r] < MaxCommits /\ (r \in Documents => done[r] = 0)
  /\ working'[s].request = r /\ working'[s].totalRead = total
  /\ \A t \in Workers \ {s} : working'[t] = working[t]
Ends(s, r) ==
  /\ Active(s) /\ working[s].request = r /\ ~Active(s)'
  /\ done' = [done EXCEPT ![r] = @ + 1]
  /\ total' = IF r \in Receipts THEN working[s].totalRead + 1 ELSE total
  /\ unread' = [t \in Workers |-> IF t = s THEN {} ELSE unread[t] \cup {r}]
  /\ overtaken' = overtaken \cup IF Overtaken(s) THEN {r} ELSE {}
  /\ \A t \in Workers \ {s} : working'[t] = working[t]

\* Every step of the ledger is one of the three.
LEMMA WhatHappens ==
  ASSUME LedgerInv, [LedgerNext]_ledgerVars
  PROVE  \/ Quiet
         \/ \E s \in Workers, r \in Requests : Starts(s, r) \/ Ends(s, r)
<1>0. working \in [Workers -> WorkRecords] /\ done \in [Requests -> Nat]
  BY DEF LedgerInv, LedgerTypeOK
<1>1. CASE UNCHANGED ledgerVars
  BY <1>1 DEF ledgerVars, Quiet, Active
<1>2. ASSUME NEW s \in Workers, NEW r \in Requests, Begin(s, r) PROVE Starts(s, r)
  BY <1>0, <1>2 DEF Begin, Starts, AtRest
<1>3. ASSUME NEW s \in Workers, RollbackMoves(s) PROVE Quiet
  BY <1>0, <1>3 DEF RollbackMoves, Quiet, Active
<1>4. ASSUME NEW s \in Workers, NEW n, Active(s), Post(s, n) PROVE Quiet
  <2>1. CASE RollbackMoves(s)
    BY <1>3, <2>1
  <2>2. CASE ~RollbackMoves(s)
    <3> DEFINE m == NextMove(s)
               x == [working[s] EXCEPT
                       !.mine = [c \in DOMAIN @ \cup {m.cell} |->
                                   IF c = m.cell THEN n + m.quantity ELSE @[c]],
                       !.step = working[s].step + 1, !.missed = FALSE]
    <3>1. working' = [working EXCEPT ![s] = x] /\ UNCHANGED <<done, total, ledgerHistory>>
      BY <1>4, <2>2 DEF Post
    <3>2. x.request = working[s].request /\ x.totalRead = working[s].totalRead
      BY <1>0 DEF WorkRecords
    <3> HIDE DEF x
    <3> QED
      BY <1>0, <1>4, <3>1, <3>2 DEF Quiet, Active
  <2> QED
    BY <2>1, <2>2
<1>5. ASSUME NEW s \in Workers, MoveRow(s) PROVE Quiet
  BY <1>4, <1>5 DEF MoveRow, Pending
<1>6. ASSUME NEW s \in Workers, MissRow(s) PROVE Quiet
  BY <1>0, <1>6 DEF MissRow, Pending, Quiet, Active, WorkRecords
<1>7. ASSUME NEW s \in Workers, InsertRow(s) PROVE Quiet
  BY <1>3, <1>4, <1>7 DEF InsertRow, Pending
<1>8. ASSUME NEW s \in Workers, CommitMoves(s)
      PROVE  \E r \in Requests : Ends(s, r)
  <2> DEFINE r == working[s].request
  <2>1. r \in Requests
    <3>1. Holds(s)
      BY <1>8 DEF CommitMoves, LedgerInv, Active
    <3> QED
      BY <3>1 DEF Holds, Holding
  <2>2. Ends(s, r)
    BY <1>0, <1>8 DEF CommitMoves, Ends, Active
  <2> QED
    BY <2>1, <2>2
<1>9. ASSUME NEW s \in Workers, DeadlockBroken(s) \/ RequestDies(s) PROVE Quiet
  BY <1>3, <1>9 DEF DeadlockBroken, RequestDies
<1> QED
  BY <1>1, <1>2, <1>5, <1>6, <1>7, <1>8, <1>9 DEF LedgerNext

\* A request that begins found its document open; one that commits is no longer
\* under way, and what it adds to the total was counted from what it had read.
LEMMA CountStep ==
  ASSUME LedgerInv, LedgerInv', CountInv, [LedgerNext]_ledgerVars,
         IsFiniteSet(Workers), IsFiniteSet(Receipts)
  PROVE  CountInv'
<1> DEFINE N == Cardinality(Workers)
<1>0. /\ working \in [Workers -> WorkRecords] /\ done \in [Requests -> Nat] /\ total \in Nat
      /\ working' \in [Workers -> WorkRecords] /\ done' \in [Requests -> Nat] /\ total' \in Nat
  BY DEF LedgerInv, LedgerTypeOK
<1>1. /\ N \in Nat /\ MaxCommits \in Nat
      /\ Documents \subseteq Requests /\ Receipts \subseteq Requests
  BY FS_CardinalityType, LedgerAssumption
<1>2. \A T \in SUBSET Workers : Cardinality(T) \in Nat /\ Cardinality(T) <= N
  BY Counting
<1>3. \A T, U \in SUBSET Workers : T \subseteq U => Cardinality(T) <= Cardinality(U)
  BY Counting
<1>4. \A T \in SUBSET Workers : \A x \in T : Cardinality(T \ {x}) = Cardinality(T) - 1
  BY Counting
<1>5. \A r : At(r) \in SUBSET Workers /\ At(r)' \in SUBSET Workers
  BY DEF At
<1>6. /\ IsFiniteSet(Counted) /\ Cardinality(Counted) \in Nat
  BY CountedFinite
<1> HIDE DEF N
<1>7. CASE Quiet
  <2>1. \A r : At(r)' \subseteq At(r)
    BY <1>7 DEF Quiet, At, Active
  <2>2. \A r : Cardinality(At(r)') <= Cardinality(At(r))
    BY <2>1, <1>3, <1>5
  <2>3. Counted' = Counted
    BY <1>7 DEF Quiet, Counted
  <2>4. \A r \in Documents : OpenTo(r)'
    BY <1>0, <1>1, <1>2, <1>5, <1>7, <2>2 DEF CountInv, OpenTo, Quiet, N
  <2>5. \A r \in Requests : WithinBound(r)'
    BY <1>0, <1>1, <1>2, <1>5, <1>7, <2>2 DEF CountInv, WithinBound, Quiet, N
  <2>6. TotalWithinReceipts' /\ ReadBefore'
    BY <1>0, <1>7, <2>3 DEF CountInv, TotalWithinReceipts, ReadBefore, Quiet, Active
  <2> QED
    BY <2>4, <2>5, <2>6 DEF CountInv
<1>8. ASSUME NEW s \in Workers, NEW r \in Requests, Starts(s, r) PROVE CountInv'
  <2>1. \A q : q # r => At(q)' \subseteq At(q)
    BY <1>8 DEF Starts, At, Active
  <2>2. \A q : q # r => Cardinality(At(q)') <= Cardinality(At(q))
    BY <2>1, <1>3, <1>5
  <2>3. Counted' = Counted
    BY <1>8 DEF Starts, Counted
  <2>4. ASSUME NEW q \in Documents PROVE OpenTo(q)'
    <3>1. CASE q = r
      BY <1>8, <3>1 DEF Starts, OpenTo
    <3>2. CASE q # r
      BY <1>0, <1>1, <1>2, <1>5, <1>8, <2>2, <3>2 DEF CountInv, OpenTo, Starts, N
    <3> QED
      BY <3>1, <3>2
  <2>5. ASSUME NEW q \in Requests PROVE WithinBound(q)'
    <3>1. CASE q = r
      BY <1>0, <1>1, <1>2, <1>5, <1>8, <3>1 DEF Starts, WithinBound, N
    <3>2. CASE q # r
      BY <1>0, <1>1, <1>2, <1>5, <1>8, <2>2, <3>2 DEF CountInv, WithinBound, Starts, N
    <3> QED
      BY <3>1, <3>2
  <2>6. TotalWithinReceipts' /\ ReadBefore'
    BY <1>0, <1>8, <2>3 DEF CountInv, TotalWithinReceipts, ReadBefore, Starts, Active
  <2> QED
    BY <2>4, <2>5, <2>6 DEF CountInv
<1>9. ASSUME NEW s \in Workers, NEW r \in Requests, Ends(s, r) PROVE CountInv'
  <2>1. s \in At(r) /\ At(r)' \subseteq At(r) \ {s} /\ \A q : At(q)' \subseteq At(q)
    BY <1>9 DEF Ends, At, Active
  <2>2. At(r) \ {s} \in SUBSET Workers
    BY <1>5
  <2>3. /\ Cardinality(At(r)') <= Cardinality(At(r)) - 1
        /\ Cardinality(At(r)) >= 1
    <3>1. Cardinality(At(r)') <= Cardinality(At(r) \ {s})
      BY <2>1, <2>2, <1>3, <1>5
    <3>2. Cardinality(At(r) \ {s}) = Cardinality(At(r)) - 1
      BY <2>1, <1>4, <1>5
    <3>3. /\ Cardinality(At(r) \ {s}) \in Nat /\ Cardinality(At(r)) \in Nat
          /\ Cardinality(At(r)') \in Nat
      BY <2>2, <1>2, <1>5
    <3> QED
      BY <3>1, <3>2, <3>3
  <2>4. \A q : Cardinality(At(q)') <= Cardinality(At(q))
    BY <2>1, <1>3, <1>5
  <2>5. done'[r] = done[r] + 1 /\ \A q \in Requests \ {r} : done'[q] = done[q]
    BY <1>0, <1>9 DEF Ends
  <2>6. ASSUME NEW q \in Documents PROVE OpenTo(q)'
    <3>1. CASE q = r
      <4>1. done'[r] + Cardinality(At(r)') <= N
        BY <1>0, <1>1, <1>2, <1>5, <2>3, <2>5, <3>1 DEF CountInv, OpenTo, N
      <4> QED
        BY <3>1, <4>1 DEF OpenTo, N
    <3>2. CASE q # r
      BY <1>0, <1>1, <1>2, <1>5, <2>4, <2>5, <3>2 DEF CountInv, OpenTo, N
    <3> QED
      BY <3>1, <3>2
  <2>7. ASSUME NEW q \in Requests PROVE WithinBound(q)'
    <3>1. CASE q = r
      BY <1>0, <1>1, <1>2, <1>5, <2>3, <2>5, <3>1 DEF CountInv, WithinBound, N
    <3>2. CASE q # r
      BY <1>0, <1>1, <1>2, <1>5, <2>4, <2>5, <3>2 DEF CountInv, WithinBound, N
    <3> QED
      BY <3>1, <3>2
  <2>8. done[r] < MaxCommits + N
    BY <1>0, <1>1, <1>2, <1>5, <2>3 DEF CountInv, WithinBound, N
  <2>9. Cardinality(Counted') = Cardinality(Counted) + IF r \in Receipts THEN 1 ELSE 0
    BY <1>9, <2>8, CountedStep DEF Ends, LedgerInv, N
  <2>10. TotalWithinReceipts'
    BY <1>0, <1>6, <1>9, <2>9 DEF CountInv, TotalWithinReceipts, ReadBefore, Ends, WorkRecords
  <2>11. ReadBefore'
    <3> SUFFICES ASSUME NEW t \in Workers, Active(t)'
                 PROVE  working'[t].totalRead <= Cardinality(Counted')
      BY DEF ReadBefore
    <3>1. t # s /\ working'[t] = working[t] /\ Active(t)
      BY <1>9 DEF Ends, Active
    <3>2. working[t].totalRead \in Nat /\ working[t].totalRead <= Cardinality(Counted)
      BY <1>0, <3>1 DEF CountInv, ReadBefore, WorkRecords
    <3> QED
      BY <1>6, <2>9, <3>1, <3>2
  <2> QED
    BY <2>6, <2>7, <2>10, <2>11 DEF CountInv
<1> QED
  BY <1>7, <1>8, <1>9, WhatHappens

\* Before any request nothing is counted.
LEMMA CountInit ==
  ASSUME LedgerInit, IsFiniteSet(Workers), IsFiniteSet(Receipts)
  PROVE  CountInv /\ TotalIsReceipts /\ \A s \in Workers : ~Active(s)
<1>1. \A s \in Workers : ~Active(s)
  BY DEF LedgerInit, Active
<1>2. \A r : At(r) = {}
  BY <1>1 DEF At
<1>3. \A r \in Requests : done[r] = 0
  BY DEF LedgerInit
<1>4. Cardinality({}) = 0 /\ Cardinality(Workers) \in Nat /\ MaxCommits \in Nat
  BY FS_EmptySet, FS_CardinalityType, LedgerAssumption
<1>5. Counted = {}
  <2> SUFFICES ASSUME NEW x \in Counted PROVE FALSE
    OBVIOUS
  <2>1. x[1] \in Requests /\ x[2] \in 1..(MaxCommits + Cardinality(Workers)) /\ x[2] <= done[x[1]]
    BY LedgerAssumption DEF Counted
  <2> QED
    BY <1>3, <1>4, <2>1
<1>6. total = 0
  BY DEF LedgerInit
<1>7. TotalIsReceipts /\ TotalWithinReceipts
  BY <1>4, <1>5, <1>6 DEF TotalIsReceipts, TotalWithinReceipts
<1>8. \A r \in Requests : OpenTo(r) /\ WithinBound(r)
  <2> TAKE r \in Requests
  <2>1. Cardinality(At(r)) = 0 /\ done[r] = 0
    BY <1>2, <1>3, <1>4
  <2> QED
    BY <1>4, <2>1 DEF OpenTo, WithinBound
<1> QED
  BY <1>1, <1>7, <1>8, LedgerAssumption DEF CountInv, ReadBefore

\* inventory_adjustment_service.py:239-243, vendor_return_service.py:205-209: who
\* finds a document open carries it out, so overlapping requests may do it more
\* than once, but none that begins later does; and the total the match reads is
\* never more than what was received.
THEOREM DocumentsPerWorkerAtMost ==
  ASSUME IsFiniteSet(Workers), IsFiniteSet(Receipts)
  PROVE  LedgerSpec => []DocumentsBounded
<1>1. LedgerInit => LedgerInv /\ CountInv
  BY LedgerInitInv, CountInit
<1>2. LedgerInv /\ CountInv /\ [LedgerNext]_ledgerVars => LedgerInv' /\ CountInv'
  BY LedgerStep, CountStep
<1>3. LedgerInv /\ CountInv => DocumentsBounded
  <2> SUFFICES ASSUME LedgerInv, CountInv, NEW r \in Documents
               PROVE  done[r] <= Cardinality(Workers)
    BY DEF DocumentsBounded, DocumentPerWorker, CountInv
  <2>1. At(r) \in SUBSET Workers
    BY DEF At
  <2>2. Cardinality(At(r)) \in Nat /\ Cardinality(Workers) \in Nat
    BY <2>1, Counting, FS_CardinalityType
  <2>3. done[r] \in Nat
    BY LedgerAssumption DEF LedgerInv, LedgerTypeOK
  <2> QED
    BY <2>2, <2>3 DEF CountInv, OpenTo
<1> QED
  BY <1>1, <1>2, <1>3, PTL DEF LedgerSpec

\* A request found its document open, and what nobody committed since it began is
\* as it read it.
OvertakenInv ==
  /\ BookedOnceUnlessOvertaken
  /\ \A s \in Workers : Active(s) =>
       /\ working[s].request \in Documents \ unread[s] => done[working[s].request] = 0
       /\ unread[s] \cap Receipts = {} => working[s].totalRead = total

\* A request that commits over nothing it had not read posts an open document once,
\* and adds to the total as it is.
LEMMA OvertakenStep ==
  ASSUME LedgerInv, CountInv, OvertakenInv, [LedgerNext]_ledgerVars,
         IsFiniteSet(Workers), IsFiniteSet(Receipts)
  PROVE  OvertakenInv'
<1>0. /\ working \in [Workers -> WorkRecords] /\ done \in [Requests -> Nat] /\ total \in Nat
      /\ unread \in [Workers -> SUBSET Requests]
      /\ Documents \subseteq Requests /\ Receipts \subseteq Requests
  BY LedgerAssumption DEF LedgerInv, LedgerTypeOK
<1>1. CASE Quiet
  <2>1. BookedOnceUnlessOvertaken'
    BY <1>1 DEF Quiet, ledgerHistory, OvertakenInv, BookedOnceUnlessOvertaken, TotalIsReceipts, Counted
  <2> QED
    BY <1>1, <2>1 DEF Quiet, ledgerHistory, OvertakenInv, Active
<1>2. ASSUME NEW s \in Workers, NEW r \in Requests, Starts(s, r) PROVE OvertakenInv'
  <2>1. BookedOnceUnlessOvertaken'
    BY <1>2 DEF Starts, OvertakenInv, BookedOnceUnlessOvertaken, TotalIsReceipts, Counted
  <2>2. \A t \in Workers \ {s} : unread'[t] = unread[t]
    BY <1>0, <1>2 DEF Starts
  <2> QED
    BY <1>2, <2>1, <2>2 DEF Starts, OvertakenInv, Active
<1>3. ASSUME NEW s \in Workers, NEW r \in Requests, Ends(s, r) PROVE OvertakenInv'
  <2>1. /\ done'[r] = done[r] + 1 /\ \A q \in Requests \ {r} : done'[q] = done[q]
        /\ working[s].request = r /\ Active(s) /\ working[s].totalRead \in Nat
    BY <1>0, <1>3 DEF Ends, WorkRecords
  <2>2. Cardinality(Counted') = Cardinality(Counted) + IF r \in Receipts THEN 1 ELSE 0
    <3>1. s \in At(r) /\ At(r) \in SUBSET Workers
      BY <2>1 DEF At
    <3>2. Cardinality(At(r)) \in Nat /\ Cardinality(At(r)) >= 1
      <4>1. Cardinality(At(r) \ {s}) \in Nat /\ Cardinality(At(r)) \in Nat
        BY <3>1, Counting
      <4>2. Cardinality(At(r) \ {s}) = Cardinality(At(r)) - 1
        BY <3>1, Counting
      <4> QED
        BY <4>1, <4>2
    <3>3. done[r] < MaxCommits + Cardinality(Workers)
      BY <1>0, <3>2, FS_CardinalityType, LedgerAssumption DEF CountInv, WithinBound
    <3> QED
      BY <1>3, <3>3, CountedStep DEF Ends, LedgerInv
  <2>3. Cardinality(Counted) \in Nat
    BY CountedFinite
  <2>4. /\ r \in Documents \ overtaken' => done[r] = 0
        /\ r \in Receipts \ overtaken' => working[s].totalRead = total
    BY <1>3, <2>1 DEF Ends, Overtaken, OvertakenInv
  <2>5. ASSUME NEW q \in Documents \ overtaken' PROVE done'[q] <= 1
    BY <1>0, <1>3, <2>1, <2>4, <2>5 DEF Ends, OvertakenInv, BookedOnceUnlessOvertaken
  <2>6. ASSUME Receipts \cap overtaken' = {} PROVE TotalIsReceipts'
    <3>1. total = Cardinality(Counted)
      BY <1>3, <2>6 DEF Ends, OvertakenInv, BookedOnceUnlessOvertaken, TotalIsReceipts
    <3>2. r \in Receipts => working[s].totalRead = total
      BY <2>4, <2>6
    <3>3. total' = IF r \in Receipts THEN working[s].totalRead + 1 ELSE total
      BY <1>3 DEF Ends
    <3> QED
      BY <1>0, <2>2, <2>3, <3>1, <3>2, <3>3 DEF TotalIsReceipts
  <2>7. ASSUME NEW t \in Workers, Active(t)'
        PROVE  /\ working'[t].request \in Documents \ unread'[t] => done'[working'[t].request] = 0
               /\ unread'[t] \cap Receipts = {} => working'[t].totalRead = total'
    <3>1. t # s /\ working'[t] = working[t] /\ Active(t) /\ unread'[t] = unread[t] \cup {r}
      BY <1>3, <2>7 DEF Ends, Active
    <3> QED
      BY <1>0, <1>3, <2>1, <3>1 DEF Ends, OvertakenInv
  <2> QED
    BY <2>5, <2>6, <2>7 DEF OvertakenInv, BookedOnceUnlessOvertaken
<1> QED
  BY <1>1, <1>2, <1>3, WhatHappens

\* inventory_adjustment_service.py:239-243, vendor_return_service.py:205-209 and
\* goods_receipt_service.py:116-117, with any number of overlapping requests: one
\* that commits over a version it had not read is all that posts a document again
\* or loses an addition to the total the match reads.
THEOREM OvertakingAloneRepeats ==
  ASSUME IsFiniteSet(Workers), IsFiniteSet(Receipts)
  PROVE  LedgerSpec => []BookedOnceUnlessOvertaken
<1>1. LedgerInit => LedgerInv /\ CountInv /\ OvertakenInv
  <2> SUFFICES ASSUME LedgerInit PROVE OvertakenInv
    BY LedgerInitInv, CountInit
  <2>1. TotalIsReceipts /\ \A s \in Workers : ~Active(s)
    BY CountInit
  <2>2. \A r \in Documents : done[r] = 0
    BY LedgerAssumption DEF LedgerInit
  <2> QED
    BY <2>1, <2>2 DEF OvertakenInv, BookedOnceUnlessOvertaken
<1>2. LedgerInv /\ CountInv /\ OvertakenInv /\ [LedgerNext]_ledgerVars
        => LedgerInv' /\ CountInv' /\ OvertakenInv'
  BY LedgerStep, CountStep, OvertakenStep
<1>3. OvertakenInv => BookedOnceUnlessOvertaken
  BY DEF OvertakenInv
<1> QED
  BY <1>1, <1>2, <1>3, PTL DEF LedgerSpec

-----------------------------------------------------------------------------
(* Mail.                                                                   *)

MailRows == [status : {"none", "pending", "sent", "failed"},
             attempts : 0..MaxAttempts, due : BOOLEAN]

Batches == UNION {[S -> 0..(MaxAttempts - 1)] : S \in SUBSET Messages}

\* What is pending has attempts left, and a dispatch takes nothing that was never
\* queued.
MailInv ==
  /\ smtp \in BOOLEAN /\ mishaps \in 0..MaxMishaps
  /\ row \in [Messages -> MailRows]
  /\ accepted \in [Messages -> Nat]
  /\ batch \in [Dispatchers -> Batches] /\ tried \in [Dispatchers -> SUBSET Messages]
  /\ \A d \in Dispatchers : tried[d] \subseteq DOMAIN batch[d]
  /\ \A m \in Messages : row[m].status = "pending" => row[m].attempts < MaxAttempts
  /\ \A d \in Dispatchers : \A m \in DOMAIN batch[d] : row[m].status # "none"

\* The dispatches that have handed a message over and not committed, and those
\* that are still going to.
TriedBy(m) == {d \in Dispatchers : m \in tried[d]}
YetBy(m) == {d \in Dispatchers : m \in DOMAIN batch[d] \ tried[d]}

\* Until a message is marked sent, what the server took of it is in the hands of
\* dispatches that have not committed, or was lost with one; then no dispatch
\* loads it any more.
HandedOver(m) ==
  /\ m \in Unbuildable => accepted[m] = 0
  /\ row[m].status # "sent" => accepted[m] <= mishaps + Cardinality(TriedBy(m))
  /\ row[m].status = "sent" => accepted[m] + Cardinality(YetBy(m)) <= mishaps + Cardinality(Dispatchers)

\* A dispatch that has not started has taken nothing.
LEMMA EmptyBatch == NoBatch \in Batches /\ DOMAIN NoBatch = {}
<1>1. NoBatch \in [{} -> 0..(MaxAttempts - 1)]
  BY DEF NoBatch
<1> QED
  BY <1>1 DEF Batches, NoBatch

\* A dispatch works on messages that had attempts left when it loaded them.
LEMMA BatchType ==
  ASSUME MailInv, NEW d \in Dispatchers
  PROVE  /\ DOMAIN batch[d] \subseteq Messages /\ tried[d] \subseteq DOMAIN batch[d]
         /\ \A m \in DOMAIN batch[d] : batch[d][m] \in 0..(MaxAttempts - 1)
BY DEF MailInv, Batches

\* Before anything is queued the rows and dispatches are of their kind.
LEMMA MailInitInv == MailInit => MailInv
BY EmptyBatch, MailAssumption DEF MailInit, MailInv, MailRows

\* What a dispatch leaves of a row.
LEMMA WrittenType ==
  ASSUME NEW old \in MailRows, NEW n \in 1..MaxAttempts, NEW m,
         old.status = "pending" => old.attempts < MaxAttempts, old.status # "none"
  PROVE  /\ Written(m, n, old) \in MailRows /\ Written(m, n, old).status # "none"
         /\ Written(m, n, old).status = "pending" => Written(m, n, old).attempts < MaxAttempts
         /\ m \notin Unbuildable => Written(m, n, old).status = "sent"
BY MailAssumption DEF Written, GivenUp, MailRows

\* Rows that are queued, come due or are put back are still of their kind.
LEMMA RowsMove ==
  ASSUME MailInv, UNCHANGED <<smtp, accepted, batch, tried>>, mishaps' \in 0..MaxMishaps,
         row' \in [Messages -> MailRows],
         \A m \in Messages : /\ row[m].status # "none" => row'[m].status # "none"
                             /\ row'[m].status = "pending" => row'[m].attempts < MaxAttempts
  PROVE  MailInv'
BY BatchType DEF MailInv

\* Every step of the mailer keeps rows and dispatches of their kind.
LEMMA MailStep == MailInv /\ [MailNext]_mailVars => MailInv'
<1> SUFFICES ASSUME MailInv, [MailNext]_mailVars PROVE MailInv'
  OBVIOUS
<1> USE MailAssumption
<1>0. \A d \in Dispatchers : batch[d] \in Batches /\ tried[d] \in SUBSET Messages
  BY DEF MailInv
<1>1. ASSUME NEW ms \in SUBSET Messages, Queue(ms) PROVE MailInv'
  <2> DEFINE fresh == [status |-> "pending", attempts |-> 0, due |-> TRUE]
  <2>1. fresh \in MailRows /\ fresh.status = "pending" /\ fresh.attempts < MaxAttempts
    BY DEF MailRows
  <2>2. /\ row' = [m \in Messages |-> IF m \in ms THEN fresh ELSE row[m]]
        /\ UNCHANGED <<smtp, accepted, batch, tried, mishaps>>
    BY <1>1 DEF Queue
  <2> HIDE DEF fresh
  <2> QED
    BY <2>1, <2>2, RowsMove DEF MailInv
<1>2. ASSUME NEW d \in Dispatchers, StartDispatch(d) PROVE MailInv'
  <2> DEFINE b == [m \in Oldest(Due) |-> row[m].attempts]
  <2>1. Oldest(Due) \subseteq Messages /\ \A m \in Oldest(Due) : row[m].status = "pending"
    BY DEF Oldest, Due
  <2>2. \A m \in Oldest(Due) : row[m].attempts \in 0..(MaxAttempts - 1)
    <3> SUFFICES ASSUME NEW m \in Oldest(Due) PROVE row[m].attempts \in 0..(MaxAttempts - 1)
      OBVIOUS
    <3>1. row[m].attempts \in 0..MaxAttempts /\ row[m].attempts < MaxAttempts
      BY <2>1 DEF MailInv, MailRows
    <3> QED
      BY <3>1
  <2>3. b \in Batches /\ DOMAIN b = Oldest(Due)
    <3>1. b \in [Oldest(Due) -> 0..(MaxAttempts - 1)]
      BY <2>2
    <3> QED
      BY <2>1, <3>1 DEF Batches
  <2>4. batch' = [batch EXCEPT ![d] = b] /\ batch[d] = NoBatch /\ UNCHANGED <<smtp, row, accepted, tried, mishaps>>
    BY <1>2 DEF StartDispatch
  <2>5. tried[d] = {}
    BY <2>4, EmptyBatch DEF MailInv
  <2> HIDE DEF b
  <2> QED
    BY <2>1, <2>3, <2>4, <2>5 DEF MailInv
<1>3. ASSUME NEW d \in Dispatchers, NEW m \in Messages, Attempt(d, m) PROVE MailInv'
  <2>1. accepted' \in [Messages -> Nat]
    BY <1>3 DEF Attempt, MailInv
  <2>2. tried' = [tried EXCEPT ![d] = tried[d] \cup {m}] /\ m \in DOMAIN batch[d]
        /\ UNCHANGED <<smtp, row, batch, mishaps>>
    BY <1>3 DEF Attempt
  <2> QED
    BY <2>1, <2>2 DEF MailInv
<1>4. ASSUME NEW d \in Dispatchers, EndDispatch(d) PROVE MailInv'
  <2>1. ASSUME NEW m \in tried[d]
        PROVE  /\ m \in Messages /\ batch[d][m] + 1 \in 1..MaxAttempts
               /\ row[m] \in MailRows /\ row[m].status # "none"
               /\ row[m].status = "pending" => row[m].attempts < MaxAttempts
    BY BatchType DEF MailInv
  <2>2. /\ row' = [m \in Messages |->
                     IF m \in tried[d] THEN Written(m, batch[d][m] + 1, row[m]) ELSE row[m]]
        /\ batch' = [batch EXCEPT ![d] = NoBatch] /\ tried' = [tried EXCEPT ![d] = {}]
        /\ UNCHANGED <<smtp, accepted, mishaps>>
    BY <1>4 DEF EndDispatch
  <2>3. ASSUME NEW m \in Messages
        PROVE  /\ row'[m] \in MailRows
               /\ row[m].status # "none" => row'[m].status # "none"
               /\ row'[m].status = "pending" => row'[m].attempts < MaxAttempts
    <3>1. CASE m \in tried[d]
      BY <2>1, <2>2, <3>1, WrittenType
    <3>2. CASE m \notin tried[d]
      BY <2>2, <3>2 DEF MailInv
    <3> QED
      BY <3>1, <3>2
  <2>4. row' \in [Messages -> MailRows]
    BY <2>2, <2>3
  <2>5. batch' \in [Dispatchers -> Batches] /\ tried' \in [Dispatchers -> SUBSET Messages]
    BY <2>2, EmptyBatch DEF MailInv
  <2>6. ASSUME NEW e \in Dispatchers
        PROVE  /\ tried'[e] \subseteq DOMAIN batch'[e]
               /\ \A m \in DOMAIN batch'[e] : m \in Messages /\ row'[m].status # "none"
    BY <2>2, <2>3, EmptyBatch, BatchType DEF MailInv
  <2> QED
    BY <2>2, <2>3, <2>4, <2>5, <2>6 DEF MailInv
<1>5. ASSUME NEW d \in Dispatchers, DispatchDies(d) PROVE MailInv'
  BY <1>5, EmptyBatch DEF DispatchDies, MailInv
<1>6. ASSUME NEW m \in Messages, BackoffEnds(m) PROVE MailInv'
  <2> DEFINE x == [row[m] EXCEPT !.due = TRUE]
  <2>1. x \in MailRows /\ x.status = row[m].status /\ x.attempts = row[m].attempts
    BY DEF MailInv, MailRows
  <2>2. row' = [row EXCEPT ![m] = x] /\ UNCHANGED <<smtp, accepted, batch, tried, mishaps>>
    BY <1>6 DEF BackoffEnds
  <2> HIDE DEF x
  <2> QED
    BY <2>1, <2>2, RowsMove DEF MailInv
<1>7. CASE RetryFailed
  <2> DEFINE fresh == [status |-> "pending", attempts |-> 0, due |-> TRUE]
  <2>1. fresh \in MailRows /\ fresh.status = "pending" /\ fresh.attempts < MaxAttempts
    BY DEF MailRows
  <2>2. /\ row' = [m \in Messages |-> IF m \in Failed THEN fresh ELSE row[m]]
        /\ UNCHANGED <<smtp, accepted, batch, tried>>
    BY <1>7 DEF RetryFailed
  <2>3. mishaps' \in 0..MaxMishaps
    BY <1>7 DEF RetryFailed, MailInv
  <2> HIDE DEF fresh
  <2> QED
    BY <2>1, <2>2, <2>3, RowsMove DEF MailInv
<1>8. CASE SwitchSmtp \/ UNCHANGED mailVars
  BY <1>8 DEF SwitchSmtp, mailVars, MailInv
<1> QED
  BY <1>1, <1>2, <1>3, <1>4, <1>5, <1>6, <1>7, <1>8 DEF MailNext

\* Rows and dispatches keep values of their kind, however many dispatches overlap.
THEOREM MailTypeCorrect == MailSpec => []MailTypeOK
<1>1. MailInv => MailTypeOK
  <2> SUFFICES ASSUME MailInv PROVE MailTypeOK
    OBVIOUS
  <2>1. \A d \in Dispatchers : /\ batch[d] \in [DOMAIN batch[d] -> 0..MaxAttempts]
                               /\ tried[d] \subseteq DOMAIN batch[d] \cap Messages
    <3> SUFFICES ASSUME NEW d \in Dispatchers
                 PROVE /\ batch[d] \in [DOMAIN batch[d] -> 0..MaxAttempts]
                       /\ tried[d] \subseteq DOMAIN batch[d] \cap Messages
      OBVIOUS
    <3>1. PICK S \in SUBSET Messages : batch[d] \in [S -> 0..(MaxAttempts - 1)]
      BY DEF MailInv, Batches
    <3> QED
      BY <3>1, BatchType, MailAssumption
  <2> QED
    BY <2>1 DEF MailInv, MailTypeOK, MailRows
<1> QED
  BY <1>1, MailInitInv, MailStep, PTL DEF MailSpec

\* Before any dispatch nothing is handed over.
LEMMA HandedOverInit == ASSUME IsFiniteSet(Dispatchers) PROVE MailInit => \A m \in Messages : HandedOver(m)
BY Counting DEF MailInit, HandedOver, TriedBy

\* A step that commits no message keeps count of it: what is handed over is in one
\* more pair of hands, and what dies with a dispatch is one mishap more.
LEMMA HandedOverStays ==
  ASSUME IsFiniteSet(Dispatchers), MailInv, NEW m \in Messages, HandedOver(m),
         mishaps' \in Nat, accepted'[m] \in Nat, m \in Unbuildable => accepted'[m] = accepted[m],
         row'[m].status = "sent" <=> row[m].status = "sent",
         row[m].status # "sent" =>
           accepted'[m] + Cardinality(TriedBy(m)) + mishaps
             <= accepted[m] + Cardinality(TriedBy(m)') + mishaps',
         row[m].status = "sent" =>
           accepted'[m] + Cardinality(YetBy(m)') + mishaps
             <= accepted[m] + Cardinality(YetBy(m)) + mishaps'
  PROVE  HandedOver(m)'
<1>1. mishaps \in Nat /\ accepted[m] \in Nat /\ Cardinality(Dispatchers) \in Nat
  BY MailAssumption, FS_CardinalityType DEF MailInv
<1>2. /\ TriedBy(m) \in SUBSET Dispatchers /\ YetBy(m) \in SUBSET Dispatchers
      /\ TriedBy(m)' \in SUBSET Dispatchers /\ YetBy(m)' \in SUBSET Dispatchers
  BY DEF TriedBy, YetBy
<1>3. /\ Cardinality(TriedBy(m)) \in Nat /\ Cardinality(YetBy(m)) \in Nat
      /\ Cardinality(TriedBy(m)') \in Nat /\ Cardinality(YetBy(m)') \in Nat
  BY <1>2, Counting
<1> QED
  BY <1>1, <1>3 DEF HandedOver

\* Every step keeps the count: a dispatch that begins takes nothing that is marked
\* sent, and one that commits marks sent what it handed over.
LEMMA HandedOverStep ==
  ASSUME IsFiniteSet(Dispatchers), MailInv, [MailNext]_mailVars, NEW m \in Messages, HandedOver(m)
  PROVE  HandedOver(m)'
<1>0. /\ MailInv' /\ mishaps \in Nat /\ mishaps' \in Nat /\ accepted'[m] \in Nat /\ accepted[m] \in Nat
      /\ Cardinality(Dispatchers) \in Nat
  <2>1. MailInv'
    BY MailStep
  <2> QED
    BY <2>1, MailAssumption, FS_CardinalityType DEF MailInv
<1>00. /\ TriedBy(m) \in SUBSET Dispatchers /\ YetBy(m) \in SUBSET Dispatchers
       /\ Cardinality(TriedBy(m)) \in Nat /\ Cardinality(YetBy(m)) \in Nat
       /\ TriedBy(m) \cap YetBy(m) = {}
  <2>1. /\ TriedBy(m) \in SUBSET Dispatchers /\ YetBy(m) \in SUBSET Dispatchers
        /\ TriedBy(m) \cap YetBy(m) = {}
    BY DEF TriedBy, YetBy
  <2> QED
    BY <2>1, Counting
<1>1. ASSUME UNCHANGED <<accepted, batch, tried, mishaps>>, row'[m].status = "sent" <=> row[m].status = "sent"
      PROVE  HandedOver(m)'
  BY <1>0, <1>1 DEF HandedOver, TriedBy, YetBy
<1>2. CASE \E ms \in SUBSET Messages : Queue(ms)
  BY <1>1, <1>2 DEF Queue
<1>3. ASSUME NEW d \in Dispatchers, StartDispatch(d) PROVE HandedOver(m)'
  <2>1. UNCHANGED <<row, accepted, tried, mishaps>> /\ TriedBy(m)' = TriedBy(m)
    BY <1>3 DEF StartDispatch, TriedBy
  <2>2. row[m].status = "sent" => YetBy(m)' = YetBy(m)
    <3>1. batch' = [batch EXCEPT ![d] = [k \in Oldest(Due) |-> row[k].attempts]] /\ DOMAIN batch[d] = {}
      BY <1>3, EmptyBatch DEF StartDispatch
    <3>2. row[m].status = "sent" => m \notin Oldest(Due)
      BY DEF Oldest, Due
    <3> QED
      BY <2>1, <3>1, <3>2 DEF YetBy, MailInv
  <2> QED
    BY <2>1, <2>2 DEF HandedOver
<1>4. ASSUME NEW d \in Dispatchers, NEW k \in Messages, Attempt(d, k) PROVE HandedOver(m)'
  <2>1. /\ UNCHANGED <<row, batch, mishaps>> /\ tried' = [tried EXCEPT ![d] = tried[d] \cup {k}]
        /\ k \in DOMAIN batch[d] \ tried[d]
    BY <1>4 DEF Attempt
  <2>2. CASE k # m
    <3>1. accepted'[m] = accepted[m]
      BY <1>4, <2>2 DEF Attempt, MailInv
    <3>2. TriedBy(m)' = TriedBy(m) /\ YetBy(m)' = YetBy(m)
      BY <2>1, <2>2 DEF TriedBy, YetBy, MailInv
    <3> QED
      BY <2>1, <3>1, <3>2 DEF HandedOver
  <2>3. CASE k = m
    <3>1. /\ accepted'[m] <= accepted[m] + 1
          /\ m \in Unbuildable => accepted'[m] = accepted[m]
      BY <1>0, <1>4, <2>3 DEF Attempt, MailInv
    <3>2. /\ d \notin TriedBy(m) /\ TriedBy(m)' = TriedBy(m) \cup {d}
          /\ d \in YetBy(m) /\ YetBy(m)' = YetBy(m) \ {d}
      BY <2>1, <2>3 DEF TriedBy, YetBy, MailInv
    <3>3. /\ Cardinality(TriedBy(m)') = Cardinality(TriedBy(m)) + 1
          /\ Cardinality(YetBy(m)') = Cardinality(YetBy(m)) - 1
      <4>1. /\ Cardinality(TriedBy(m) \cup {d}) = Cardinality(TriedBy(m)) + 1
            /\ Cardinality(YetBy(m) \ {d}) = Cardinality(YetBy(m)) - 1
        BY <1>00, <3>2, Counting
      <4> QED
        BY <3>2, <4>1
    <3> QED
      BY <1>0, <1>00, <2>1, <3>1, <3>3, HandedOverStays
  <2> QED
    BY <2>2, <2>3
<1>5. ASSUME NEW d \in Dispatchers, EndDispatch(d) PROVE HandedOver(m)'
  <2>1. /\ tried[d] = DOMAIN batch[d] /\ UNCHANGED <<smtp, accepted, mishaps>>
        /\ batch' = [batch EXCEPT ![d] = NoBatch] /\ tried' = [tried EXCEPT ![d] = {}]
        /\ row'[m] = IF m \in tried[d] THEN Written(m, batch[d][m] + 1, row[m]) ELSE row[m]
    BY <1>5 DEF EndDispatch
  <2>2. YetBy(m)' = YetBy(m)
    BY <2>1, EmptyBatch DEF YetBy, MailInv
  <2>3. CASE m \notin tried[d]
    <3>1. TriedBy(m)' = TriedBy(m)
      BY <2>1, <2>3 DEF TriedBy, MailInv
    <3> QED
      BY <2>1, <2>2, <2>3, <3>1 DEF HandedOver
  <2>4. CASE m \in tried[d] /\ m \notin Unbuildable
    <3>1. row'[m].status = "sent"
      BY <2>1, <2>4 DEF Written, GivenUp
    <3>2. Cardinality(TriedBy(m)) + Cardinality(YetBy(m)) <= Cardinality(Dispatchers)
      BY <1>00, Counting
    <3> QED
      BY <1>0, <1>00, <2>1, <2>2, <2>4, <3>1, <3>2 DEF HandedOver
  <2>5. CASE m \in tried[d] /\ m \in Unbuildable
    <3>1. /\ accepted'[m] = 0 /\ Cardinality(TriedBy(m)') \in Nat
          /\ Cardinality(YetBy(m)) <= Cardinality(Dispatchers)
      <4>1. TriedBy(m)' \in SUBSET Dispatchers
        BY DEF TriedBy
      <4> QED
        BY <1>00, <2>1, <2>5, <4>1, Counting DEF HandedOver
    <3> QED
      BY <1>0, <1>00, <2>1, <2>2, <3>1 DEF HandedOver
  <2> QED
    BY <2>3, <2>4, <2>5
<1>6. ASSUME NEW d \in Dispatchers, DispatchDies(d) PROVE HandedOver(m)'
  <2>1. /\ UNCHANGED <<smtp, row, accepted>> /\ mishaps' = mishaps + 1
        /\ batch' = [batch EXCEPT ![d] = NoBatch] /\ tried' = [tried EXCEPT ![d] = {}]
    BY <1>6 DEF DispatchDies
  <2>2. TriedBy(m)' = TriedBy(m) \ {d} /\ YetBy(m)' \subseteq YetBy(m)
    BY <2>1, EmptyBatch DEF TriedBy, YetBy, MailInv
  <2>3. /\ Cardinality(TriedBy(m)') \in {Cardinality(TriedBy(m)), Cardinality(TriedBy(m)) - 1}
        /\ Cardinality(YetBy(m)') <= Cardinality(YetBy(m)) /\ Cardinality(YetBy(m)') \in Nat
    <3>1. d \notin TriedBy(m) => TriedBy(m) \ {d} = TriedBy(m)
      OBVIOUS
    <3>2. YetBy(m)' \in SUBSET Dispatchers
      BY <1>00, <2>2
    <3> QED
      BY <1>00, <2>2, <3>1, <3>2, Counting
  <2> QED
    BY <1>0, <1>00, <2>1, <2>3, HandedOverStays
<1>7. CASE \E k \in Messages : BackoffEnds(k)
  BY <1>1, <1>7 DEF BackoffEnds, MailInv, MailRows
<1>8. CASE RetryFailed
  <2>1. /\ UNCHANGED <<accepted, batch, tried>> /\ mishaps' = mishaps + 1
        /\ row'[m].status = "sent" <=> row[m].status = "sent"
    BY <1>8 DEF RetryFailed, Failed
  <2>2. TriedBy(m)' = TriedBy(m) /\ YetBy(m)' = YetBy(m)
    BY <2>1 DEF TriedBy, YetBy
  <2> QED
    BY <1>0, <1>00, <2>1, <2>2, HandedOverStays
<1>9. CASE SwitchSmtp \/ UNCHANGED mailVars
  BY <1>1, <1>9 DEF SwitchSmtp, mailVars
<1> QED
  BY <1>2, <1>3, <1>4, <1>5, <1>6, <1>7, <1>8, <1>9 DEF MailNext

\* schedulers.yml:69-71 expects that a dispatch by hand beside the scheduled one
\* sends nothing twice: the server takes a message at most once for every dispatch
\* that can overlap, and once more for every dispatch that died or requeueing.
THEOREM SentPerDispatchAtMost ==
  ASSUME IsFiniteSet(Dispatchers)
  PROVE  MailSpec => []AcceptedPerDispatch
<1> DEFINE Inv == MailInv /\ \A m \in Messages : HandedOver(m)
<1>1. MailInit => Inv
  BY MailInitInv, HandedOverInit
<1>2. Inv /\ [MailNext]_mailVars => Inv'
  BY MailStep, HandedOverStep
<1>3. Inv => AcceptedPerDispatch
  <2> SUFFICES ASSUME MailInv, NEW m \in Messages, HandedOver(m)
               PROVE  accepted[m] <= Cardinality(Dispatchers) + mishaps
    BY DEF AcceptedPerDispatch
  <2>1. TriedBy(m) \in SUBSET Dispatchers /\ YetBy(m) \in SUBSET Dispatchers
    BY DEF TriedBy, YetBy
  <2>2. /\ Cardinality(TriedBy(m)) \in Nat /\ Cardinality(TriedBy(m)) <= Cardinality(Dispatchers)
        /\ Cardinality(YetBy(m)) \in Nat /\ Cardinality(Dispatchers) \in Nat
    BY <2>1, Counting, FS_CardinalityType
  <2>3. mishaps \in Nat /\ accepted[m] \in Nat
    BY MailAssumption DEF MailInv
  <2> QED
    BY <2>2, <2>3 DEF HandedOver
<1> HIDE DEF Inv
<1> QED
  BY <1>1, <1>2, <1>3, PTL DEF MailSpec

-----------------------------------------------------------------------------
(* The audit chain, while one session at a time writes about the object.   *)

\* The digest of an entry: what compute_entry_hash makes of its fields.
Hashed(h, at, says) == Append(h, <<at, says>>)

\* When the last entry hashed into a digest was stamped.
Time(hash) == hash[Len(hash)][1]

\* The application stamps and links like this; no alteration changes it.
WellKept(rows) ==
  /\ \A e, f \in rows : e.at = f.at => e = f
  /\ \A e \in rows : e.digest = Hashed(e.prev, e.at, "recorded")
  /\ \A e \in rows : e.prev # <<>> => Time(e.prev) < e.at
  /\ \A e, f \in rows : e.at < f.at => f.prev # <<>> /\ e.at <= Time(f.prev)

Earlier(rows, e) == {f \in rows : f.at < e.at}

\* Nothing altered, and each entry linked to the one before it.
Faithful(rows) == \A e \in rows : e.says = "recorded" /\ e.prev = Tip(Earlier(rows, e))

\* An entry is altered, or is linked to one that is not there.
Orphan(e, rows) == e.prev # <<>> /\ \A f \in rows : f.at # Time(e.prev)
Shown(rows) == \E e \in rows : e.says # "recorded" \/ Orphan(e, rows)

\* What the one session that writes keeps true.
ChainInv(w) ==
  /\ ChainTypeOK
  /\ WellKept(Visible(w))
  /\ \A e \in Visible(w) : e.at <= clock
  /\ stamped[w] # 0 => \A e \in Visible(w) : e.at < stamped[w]
  /\ stamped[w] <= clock
  /\ \A e \in trail, f \in written[w] : e.at < f.at
  /\ meddled => Shown(trail)
  /\ ~meddled => Faithful(Visible(w))

\* Times differ, links are to earlier entries, and each entry is linked to one
\* no earlier than any before it: all that stays true of fewer entries.
LEMMA FewerWellKept ==
  ASSUME NEW rows, WellKept(rows), NEW some \in SUBSET rows
  PROVE  WellKept(some)
BY DEF WellKept

\* The latest of some entries is one of them, and none is later.
LEMMA LatestIs ==
  ASSUME NEW rows \in SUBSET Entries, rows # {}
  PROVE  Latest(rows) \in rows /\ \A f \in rows : f.at <= Latest(rows).at
<1> DEFINE T == {e.at : e \in rows}
<1>1. T \subseteq 1..MaxStamps /\ T # {}
  BY DEF Entries
<1>2. IsFiniteSet(T) /\ T \subseteq Int
  <2>1. IsFiniteSet(1..MaxStamps) /\ 1..MaxStamps \subseteq Int
    BY ChainAssumption, FS_Interval
  <2> HIDE DEF T
  <2> QED
    BY <1>1, <2>1, FS_Subset
<1>3. PICK t \in T : \A s \in T : s <= t
  <2> HIDE DEF T
  <2> QED
    BY <1>1, <1>2, GreatestOf
<1>4. \E e \in rows : \A f \in rows : f.at <= e.at
  BY <1>3
<1> QED
  BY <1>4 DEF Latest

\* A digest is a hash, not the empty one; its time and its last word are those
\* of the entry hashed last.
LEMMA DigestIs ==
  ASSUME NEW h \in Hashes, NEW a \in 1..MaxStamps, NEW x \in Says
  PROVE  /\ Hashed(h, a, x) \in Hashes
         /\ Hashed(h, a, x) # <<>>
         /\ Time(Hashed(h, a, x)) = a
         /\ \A y \in Says : Hashed(h, a, x) = Hashed(h, a, y) => x = y
<1>1. ASSUME NEW y \in Says
      PROVE  /\ Hashed(h, a, y) \in Hashes
             /\ Hashed(h, a, y) # <<>>
             /\ Len(Hashed(h, a, y)) = Len(h) + 1
             /\ Hashed(h, a, y)[Len(h) + 1] = <<a, y>>
  <2> DEFINE S == (1..MaxStamps) \X Says
             elt == <<a, y>>
  <2>1. elt \in S /\ h \in Seq(S)
    BY DEF Hashes
  <2>2. /\ Append(h, elt) \in Seq(S) /\ Append(h, elt) # <<>>
        /\ Len(Append(h, elt)) = Len(h) + 1 /\ Append(h, elt)[Len(h) + 1] = elt
    <3> HIDE DEF S, elt
    <3> QED
      BY <2>1, AppendProperties
  <2> QED
    BY <2>2 DEF Hashed, Hashes
<1>2. Time(Hashed(h, a, x)) = a
  <2>1. Time(Hashed(h, a, x)) = <<a, x>>[1]
    BY <1>1 DEF Time
  <2> QED
    BY <2>1
<1>3. ASSUME NEW y \in Says, Hashed(h, a, x) = Hashed(h, a, y) PROVE x = y
  <2>1. <<a, x>> = <<a, y>>
    BY <1>1, <1>3
  <2> QED
    BY <2>1
<1> QED
  BY <1>1, <1>2, <1>3

\* What an entry after these is linked to: the time of the latest.
LEMMA TipIs ==
  ASSUME NEW rows \in SUBSET Entries, WellKept(rows), rows # {}
  PROVE  /\ Tip(rows) \in Hashes /\ Tip(rows) # <<>>
         /\ Time(Tip(rows)) = Latest(rows).at
         /\ \A f \in rows : f.at <= Time(Tip(rows))
<1> DEFINE l == Latest(rows)
<1>1. l \in rows /\ \A f \in rows : f.at <= l.at
  BY LatestIs
<1>2. l.prev \in Hashes /\ l.at \in 1..MaxStamps /\ "recorded" \in Says
  BY <1>1 DEF Entries, Says
<1>3. Tip(rows) = Hashed(l.prev, l.at, "recorded")
  BY <1>1 DEF Tip, WellKept
<1> HIDE DEF l
<1>4. Tip(rows) \in Hashes /\ Tip(rows) # <<>> /\ Time(Tip(rows)) = l.at
  BY <1>2, <1>3, DigestIs
<1> QED
  BY <1>1, <1>4 DEF l

\* Verification of entries the application wrote reports what was done to them,
\* and nothing else.
LEMMA VerdictFromRows ==
  ASSUME trail \in SUBSET Entries, WellKept(trail)
  PROVE  (Shown(trail) => ~Verified) /\ (Faithful(trail) => Verified)
<1>1. ASSUME NEW e \in trail, e.says # "recorded", Verified PROVE FALSE
  <2>1. e.digest = Hashed(e.prev, e.at, e.says)
    BY <1>1 DEF Verified, LinkHolds, Digest, Hashed
  <2>2. e.digest = Hashed(e.prev, e.at, "recorded")
    BY DEF WellKept
  <2>3. e.prev \in Hashes /\ e.at \in 1..MaxStamps /\ e.says \in Says /\ "recorded" \in Says
    BY DEF Entries, Says
  <2> QED
    BY <1>1, <2>1, <2>2, <2>3, DigestIs
<1>2. ASSUME NEW e \in trail, Orphan(e, trail), Verified PROVE FALSE
  <2> DEFINE before == {f \in trail : f.at < e.at}
  <2>1. e.prev = Tip(before)
    BY <1>2 DEF Verified, LinkHolds
  <2>2. before # {}
    BY <1>2, <2>1 DEF Orphan, Tip
  <2>3. before \in SUBSET Entries /\ WellKept(before)
    BY FewerWellKept
  <2>4. Latest(before) \in before /\ Time(Tip(before)) = Latest(before).at
    <3> HIDE DEF before
    <3> QED
      BY <2>2, <2>3, LatestIs, TipIs
  <2> QED
    BY <1>2, <2>1, <2>4 DEF Orphan
<1>3. ASSUME Faithful(trail), NEW e \in trail
      PROVE  LinkHolds(e, Tip({f \in trail : f.at < e.at}))
  <2>1. e.says = "recorded" /\ e.prev = Tip({f \in trail : f.at < e.at})
    BY <1>3 DEF Faithful, Earlier
  <2>2. e.digest = Hashed(e.prev, e.at, "recorded")
    BY DEF WellKept
  <2> QED
    BY <2>1, <2>2 DEF LinkHolds, Digest, Hashed
<1> QED
  BY <1>1, <1>2, <1>3 DEF Shown, Verified

\* An appended entry is stamped later than all that the session sees, and
\* linked to the latest of them: what it writes is kept as well as what it saw.
LEMMA LinkStep ==
  ASSUME NEW w, Writers = {w}, ChainInv(w), Link(w)
  PROVE  ChainInv(w)'
<1> DEFINE old == Visible(w)
           prev == Tip(old)
           now == stamped[w]
           new == [at |-> now, says |-> "recorded", prev |-> prev,
                   digest |-> Hashed(prev, now, "recorded")]
<1>1. ChainTypeOK /\ now # 0
  BY DEF ChainInv, Link
<1>2. now \in 1..MaxStamps /\ old \in SUBSET Entries /\ "recorded" \in Says
  BY <1>1, ChainAssumption DEF ChainTypeOK, Visible, Says
<1>3. now \in Int /\ \A e \in old : e.at < now /\ e.at \in Int
  <2>1. now \in Int /\ \A e \in Entries : e.at \in Int
    BY <1>2, ChainAssumption DEF Entries
  <2>2. \A e \in old : e.at < now
    BY <1>1 DEF ChainInv
  <2> HIDE DEF old, now
  <2> QED
    BY <1>2, <2>1, <2>2
<1>4. /\ prev \in Hashes
      /\ prev # <<>> => Time(prev) < now
      /\ old # {} => prev # <<>> /\ \A e \in old : e.at <= Time(prev)
  <2>1. CASE old = {}
    <3>1. prev = <<>>
      BY <2>1 DEF Tip
    <3>2. <<>> \in Hashes
      BY EmptySeq DEF Hashes
    <3> QED
      BY <2>1, <3>1, <3>2
  <2>2. CASE old # {}
    <3>1. WellKept(old)
      BY DEF ChainInv
    <3> HIDE DEF old, now
    <3>2. Latest(old) \in old
      BY <1>2, <2>2, LatestIs
    <3>3. /\ prev \in Hashes /\ prev # <<>> /\ Time(prev) = Latest(old).at
          /\ \A f \in old : f.at <= Time(prev)
      BY <1>2, <2>2, <3>1, TipIs
    <3> QED
      BY <1>3, <3>2, <3>3
  <2> QED
    BY <2>1, <2>2
<1>5. /\ new \in Entries /\ new.at = now /\ new.says = "recorded" /\ new.prev = prev
      /\ new.digest = Hashed(prev, now, "recorded")
  <2>1. Hashed(prev, now, "recorded") \in Hashes
    <3> HIDE DEF prev, now
    <3> QED
      BY <1>2, <1>4, DigestIs
  <2> HIDE DEF prev, now
  <2> QED
    BY <1>2, <1>4, <2>1 DEF Entries
<1>6. /\ written' = [written EXCEPT ![w] = @ \cup {new}]
      /\ stamped' = [stamped EXCEPT ![w] = 0]
      /\ UNCHANGED <<clock, trail, meddled>>
  BY DEF Link, Digest, Hashed
<1>7. /\ written'[w] = written[w] \cup {new} /\ stamped'[w] = 0
      /\ Visible(w)' = old \cup {new} /\ clock' = clock
  BY <1>1, <1>6 DEF ChainTypeOK, Visible
<1>8. now <= clock
  BY DEF ChainInv
<1>9. ChainTypeOK'
  <2>1. stamped' \in [Writers -> 0..MaxStamps]
    <3>1. stamped \in [Writers -> 0..MaxStamps] /\ stamped' = [stamped EXCEPT ![w] = 0]
      BY <1>1, <1>6 DEF ChainTypeOK
    <3>2. 0 \in 0..MaxStamps
      BY ChainAssumption
    <3> QED
      BY ONLY <3>1, <3>2
  <2>2. written[w] \cup {new} \in SUBSET Entries
    BY <1>1, <1>5 DEF ChainTypeOK
  <2>3. written' \in [Writers -> SUBSET Entries]
    <3> HIDE DEF new
    <3> QED
      BY <1>1, <1>6, <2>2 DEF ChainTypeOK
  <2> QED
    BY <1>1, <1>6, <2>1, <2>3 DEF ChainTypeOK
<1>10. trail \subseteq old /\ WellKept(old)
  BY DEF Visible, ChainInv
<1> HIDE DEF new, prev, now
<1>11. WellKept(old \cup {new})
  <2> HIDE DEF old
  <2>1. \A e, f \in old \cup {new} : e.at = f.at => e = f
    <3>1. \A e \in old : e.at # new.at
      BY <1>3, <1>5
    <3> QED
      BY <1>10, <3>1 DEF WellKept
  <2>2. \A e \in old \cup {new} : /\ e.digest = Hashed(e.prev, e.at, "recorded")
                                  /\ e.prev # <<>> => Time(e.prev) < e.at
    BY <1>4, <1>5, <1>10 DEF WellKept
  <2>3. ASSUME NEW e \in old \cup {new}, NEW f \in old \cup {new}, e.at < f.at
        PROVE  f.prev # <<>> /\ e.at <= Time(f.prev)
    <3>1. CASE e \in old /\ f \in old
      BY <1>10, <2>3, <3>1 DEF WellKept
    <3>2. CASE e \in old /\ f = new
      BY <1>4, <1>5, <3>2
    <3>3. CASE e = new
      <4>1. f.at \in Int /\ f.at <= new.at /\ new.at \in Int
        BY <1>3, <1>5
      <4> QED
        BY <2>3, <3>3, <4>1
    <3> QED
      BY <3>1, <3>2, <3>3
  <2> QED
    BY <2>1, <2>2, <2>3 DEF WellKept
<1>12. Faithful(old) => Faithful(old \cup {new})
  <2>0. (\A e \in old : ~(new.at < e.at)) /\ ~(new.at < new.at) /\ \A e \in old : e.at < new.at
    BY <1>3, <1>5
  <2>1. \A e \in old : Earlier(old \cup {new}, e) = Earlier(old, e)
    BY <2>0 DEF Earlier
  <2>2. Earlier(old \cup {new}, new) = old
    BY <2>0 DEF Earlier
  <2>3. prev = Tip(old)
    BY DEF prev
  <2> HIDE DEF old
  <2> QED
    BY <1>5, <2>1, <2>2, <2>3 DEF Faithful
<1>13. \A e \in trail, f \in written[w] \cup {new} : e.at < f.at
  BY <1>3, <1>5, <1>10 DEF ChainInv
<1>14. \A e \in old \cup {new} : e.at <= clock
  BY <1>5, <1>8 DEF ChainInv
<1>15. 0 <= clock
  BY <1>1 DEF ChainTypeOK
<1> QED
  BY <1>6, <1>7, <1>9, <1>11, <1>12, <1>13, <1>14, <1>15 DEF ChainInv

\* A commit adds entries later than any that are there: none of them is one
\* that an orphan missed.
LEMMA CommitEntriesStep ==
  ASSUME NEW w, Writers = {w}, ChainInv(w), CommitEntries(w)
  PROVE  ChainInv(w)'
<1>1. /\ trail' = trail \cup written[w] /\ written'[w] = {}
      /\ UNCHANGED <<clock, stamped, meddled>> /\ stamped[w] = 0
      /\ Visible(w)' = Visible(w) /\ ChainTypeOK
  BY DEF CommitEntries, Visible, ChainInv, ChainTypeOK
<1>2. WellKept(Visible(w)) /\ Visible(w) = trail \cup written[w]
  BY DEF ChainInv, Visible
<1>3. ChainTypeOK'
  <2>1. written' = [written EXCEPT ![w] = {}]
    BY DEF CommitEntries
  <2>2. \A e, f \in trail' : e.at = f.at => e = f
    BY <1>1, <1>2 DEF WellKept
  <2> QED
    BY <1>1, <2>1, <2>2 DEF ChainTypeOK
<1>4. Shown(trail) => Shown(trail')
  <2>1. ASSUME NEW e \in trail, Orphan(e, trail) PROVE Orphan(e, trail')
    <3>1. e.prev # <<>> /\ Time(e.prev) < e.at
      BY <1>2, <2>1 DEF Orphan, WellKept
    <3>2. ASSUME NEW f \in written[w], f.at = Time(e.prev) PROVE FALSE
      <4>1. e.at < f.at
        BY DEF ChainInv
      <4>2. e.at \in Int /\ f.at \in Int
        BY <1>1 DEF ChainTypeOK, Entries
      <4> QED
        BY <3>1, <3>2, <4>1, <4>2
    <3> QED
      BY <1>1, <2>1, <3>2 DEF Orphan
  <2> QED
    BY <1>1, <2>1 DEF Shown
<1> QED
  BY <1>1, <1>3, <1>4 DEF ChainInv

\* What is rolled back is later than what stays, so no committed entry is
\* linked to it.
LEMMA RollbackEntriesStep ==
  ASSUME NEW w, Writers = {w}, ChainInv(w), RollbackEntries(w)
  PROVE  ChainInv(w)'
<1>1. /\ written' = [written EXCEPT ![w] = {}] /\ written'[w] = {}
      /\ stamped' = [stamped EXCEPT ![w] = 0] /\ stamped'[w] = 0
      /\ UNCHANGED <<clock, trail, meddled>>
      /\ Visible(w)' = trail /\ ChainTypeOK
  BY DEF RollbackEntries, Visible, ChainInv, ChainTypeOK
<1>2. WellKept(Visible(w)) /\ Visible(w) = trail \cup written[w]
  BY DEF ChainInv, Visible
<1>3. WellKept(trail)
  BY <1>2 DEF WellKept
<1>4. ChainTypeOK'
  BY <1>1, ChainAssumption DEF ChainTypeOK
<1>5. Faithful(Visible(w)) => Faithful(trail)
  <2>1. ASSUME NEW e \in trail, NEW f \in written[w] PROVE ~(f.at < e.at)
    <3>1. e.at < f.at
      BY DEF ChainInv
    <3>2. e.at \in Int /\ f.at \in Int
      BY <1>1 DEF ChainTypeOK, Entries
    <3> QED
      BY <3>1, <3>2
  <2>2. \A e \in trail : Earlier(Visible(w), e) = Earlier(trail, e)
    BY <1>2, <2>1 DEF Earlier
  <2> QED
    BY <1>2, <2>2 DEF Faithful
<1>6. 0 <= clock
  BY <1>1 DEF ChainTypeOK
<1> QED
  BY <1>1, <1>2, <1>3, <1>4, <1>5, <1>6 DEF ChainInv

\* An altered entry is one that shows.
LEMMA AlterStep ==
  ASSUME NEW w, Writers = {w}, ChainInv(w), NEW e \in trail, Alter(e)
  PROVE  ChainInv(w)'
<1> DEFINE r == [e EXCEPT !.says = "altered"]
<1>1. ChainTypeOK /\ e \in Entries
  BY DEF ChainInv, ChainTypeOK
<1>2. /\ r \in Entries /\ r.at = e.at /\ r.prev = e.prev /\ r.digest = e.digest
      /\ r.says = "altered"
  BY <1>1 DEF Entries, Says
<1> HIDE DEF r
<1>3. trail' = (trail \ {e}) \cup {r} /\ meddled' /\ UNCHANGED <<clock, written, stamped>>
  BY DEF Alter, r
<1>4. \A f \in Visible(w)' : \E g \in Visible(w) :
        g.at = f.at /\ g.prev = f.prev /\ g.digest = f.digest
  BY <1>2, <1>3 DEF Visible
<1>5. \A f \in trail' : \E g \in trail : g.at = f.at
  BY <1>2, <1>3
<1>6. WellKept(Visible(w)) /\ e \in Visible(w)
  BY DEF ChainInv, Visible
<1>7. \A f, g \in Visible(w)' : f.at = g.at => f = g
  <2>1. \A f \in Visible(w) : f.at = e.at => f = e
    BY <1>6 DEF WellKept
  <2>2. e \notin written[w]
    <3>1. e.at \in Int /\ (e \in written[w] => e.at < e.at)
      BY <1>1 DEF ChainInv, Entries
    <3> QED
      BY <3>1
  <2>3. \A f \in Visible(w)' : f = r \/ (f \in Visible(w) /\ f # e)
    BY <1>3, <2>2 DEF Visible
  <2> QED
    BY <1>2, <1>6, <2>1, <2>3 DEF WellKept
<1>8. WellKept(Visible(w)')
  <2> DEFINE V == Visible(w)
             W == Visible(w)'
  <2>1. \A f \in W : \E g \in V : g.at = f.at /\ g.prev = f.prev /\ g.digest = f.digest
    BY <1>4
  <2>2. WellKept(V) /\ \A f, g \in W : f.at = g.at => f = g
    BY <1>6, <1>7
  <2> HIDE DEF V, W
  <2>3. \A f \in W : /\ f.digest = Hashed(f.prev, f.at, "recorded")
                     /\ f.prev # <<>> => Time(f.prev) < f.at
    BY <2>1, <2>2 DEF WellKept
  <2>4. ASSUME NEW f \in W, NEW g \in W, f.at < g.at
        PROVE  g.prev # <<>> /\ f.at <= Time(g.prev)
    <3>1. PICK a \in V : a.at = f.at /\ a.prev = f.prev
      BY <2>1
    <3>2. PICK b \in V : b.at = g.at /\ b.prev = g.prev
      BY <2>1
    <3> QED
      BY <2>2, <2>4, <3>1, <3>2 DEF WellKept
  <2>5. WellKept(W)
    BY <2>2, <2>3, <2>4 DEF WellKept
  <2> QED
    BY <2>5 DEF W
<1>9. ChainTypeOK'
  <2>1. \A f, g \in trail' : f.at = g.at => f = g
    BY <1>7 DEF Visible
  <2> QED
    BY <1>1, <1>2, <1>3, <2>1 DEF ChainTypeOK
<1>10. Shown(trail')
  <2>1. r \in trail' /\ r.says # "recorded"
    BY <1>2, <1>3
  <2> QED
    BY <2>1 DEF Shown
<1>11. /\ \A f \in Visible(w)' : f.at <= clock
       /\ stamped[w] # 0 => \A f \in Visible(w)' : f.at < stamped[w]
       /\ \A f \in trail', g \in written[w] : f.at < g.at
  BY <1>4, <1>5 DEF ChainInv
<1> QED
  BY <1>3, <1>8, <1>9, <1>10, <1>11 DEF ChainInv

\* The entry after one that is removed was linked to it, or to another that was
\* removed before: it has lost what it is linked to.
LEMMA ExpungeStep ==
  ASSUME NEW w, Writers = {w}, ChainInv(w), NEW e \in trail, Expunge(e)
  PROVE  ChainInv(w)'
<1>1. /\ trail' = trail \ {e} /\ meddled' /\ UNCHANGED <<clock, written, stamped>>
      /\ e # Latest(trail) /\ ChainTypeOK /\ trail \in SUBSET Entries
  BY DEF Expunge, ChainInv, ChainTypeOK
<1>2. WellKept(Visible(w)) /\ trail \subseteq Visible(w) /\ Visible(w)' \subseteq Visible(w)
  BY <1>1 DEF ChainInv, Visible
<1>3. WellKept(Visible(w)') /\ WellKept(trail)
  BY <1>2, FewerWellKept
<1>4. ChainTypeOK'
  BY <1>1 DEF ChainTypeOK
<1> DEFINE after == {f \in trail : e.at < f.at}
           T == {0 - f.at : f \in after}
<1>5. after # {}
  <2>1. Latest(trail) \in trail /\ e.at <= Latest(trail).at
    BY <1>1, LatestIs
  <2>2. e.at # Latest(trail).at
    BY <1>1, <1>3, <2>1 DEF WellKept
  <2>3. e.at \in Int /\ Latest(trail).at \in Int
    BY <1>1, <2>1 DEF Entries
  <2> QED
    BY <2>1, <2>2, <2>3
<1>6. PICK f \in after : \A g \in after : f.at <= g.at
  <2>1. after \subseteq trail /\ \A g \in after : g.at \in 1..MaxStamps
    BY <1>1 DEF Entries
  <2>2. T # {} /\ T \subseteq (0 - MaxStamps) .. (0 - 1) /\ T \subseteq Int
    <3> HIDE DEF after
    <3> QED
      BY <1>5, <2>1, ChainAssumption
  <2>3. IsFiniteSet(T)
    <3>1. IsFiniteSet((0 - MaxStamps) .. (0 - 1))
      <4>1. 0 - MaxStamps \in Int /\ 0 - 1 \in Int
        BY ChainAssumption
      <4> QED
        BY <4>1, FS_Interval
    <3> HIDE DEF T
    <3> QED
      BY <2>2, <3>1, FS_Subset
  <2>4. PICK t \in T : \A s \in T : s <= t
    <3> HIDE DEF T
    <3> QED
      BY <2>2, <2>3, GreatestOf
  <2> HIDE DEF after
  <2>5. PICK f \in after : t = 0 - f.at
    OBVIOUS
  <2>6. \A g \in after : 0 - g.at <= 0 - f.at
    BY <2>4, <2>5
  <2> QED
    BY <2>1, <2>5, <2>6
<1>7. f \in trail /\ e.at < f.at /\ f.prev # <<>> /\ e.at <= Time(f.prev) /\ Time(f.prev) < f.at
  BY <1>3 DEF WellKept
<1>8. Orphan(f, trail')
  <2> SUFFICES ASSUME NEW g \in trail, g # e, g.at = Time(f.prev) PROVE FALSE
    BY <1>1, <1>7 DEF Orphan
  <2>1. g.at # e.at
    BY <1>3 DEF WellKept
  <2>2. e.at \in Int /\ f.at \in Int /\ g.at \in Int
    BY <1>1, <1>7 DEF Entries
  <2>3. e.at < g.at
    BY <1>7, <2>1, <2>2
  <2>4. f.at <= g.at
    BY <1>6, <2>3
  <2> QED
    BY <1>7, <2>2, <2>4
<1>9. Shown(trail')
  <2>1. f \in trail'
    <3>1. e.at \in Int
      BY <1>1 DEF Entries
    <3> QED
      BY <1>1, <1>7, <3>1
  <2> QED
    BY <1>8, <2>1 DEF Shown
<1> QED
  BY <1>1, <1>2, <1>3, <1>4, <1>9 DEF ChainInv

\* A trail nobody has written to is as the session that writes keeps it.
LEMMA ChainInitInv ==
  ASSUME NEW w, Writers = {w}, ChainInit
  PROVE  ChainInv(w)
<1>1. written \in [Writers -> SUBSET Entries] /\ stamped \in [Writers -> 0..MaxStamps]
  <2>1. {} \in SUBSET Entries /\ 0 \in 0..MaxStamps
    BY ChainAssumption
  <2>2. written = [s \in Writers |-> {}] /\ stamped = [s \in Writers |-> 0]
    BY DEF ChainInit
  <2> QED
    BY <2>1, <2>2
<1>2. clock \in 0..MaxStamps /\ trail = {}
  BY ChainAssumption DEF ChainInit
<1>0. meddled = FALSE /\ meddled \in BOOLEAN
  BY DEF ChainInit
<1>3. ChainTypeOK
  BY <1>0, <1>1, <1>2 DEF ChainTypeOK
<1> QED
  BY <1>3 DEF ChainInit, ChainInv, Visible, WellKept, Faithful

\* Every step keeps what the session that writes keeps true.
LEMMA ChainStep ==
  ASSUME NEW w, Writers = {w}, ChainInv(w), [ChainNext]_chainVars
  PROVE  ChainInv(w)'
<1>1. CASE UNCHANGED chainVars
  BY <1>1 DEF chainVars, ChainInv, ChainTypeOK, Visible
<1>2. CASE Stamp(w)
  <2>1. /\ clock' = clock + 1 /\ stamped'[w] = clock + 1
        /\ stamped' = [stamped EXCEPT ![w] = clock + 1] /\ clock < MaxStamps
        /\ UNCHANGED <<trail, written, meddled>> /\ Visible(w)' = Visible(w) /\ ChainTypeOK
    BY <1>2 DEF Stamp, Visible, ChainInv, ChainTypeOK
  <2>2. ChainTypeOK' /\ clock \in Int
    BY <2>1, ChainAssumption DEF ChainTypeOK
  <2>3. \A e \in Visible(w) : e.at \in Int /\ e.at <= clock
    BY <2>1 DEF ChainInv, ChainTypeOK, Visible, Entries
  <2> QED
    BY <2>1, <2>2, <2>3 DEF ChainInv
<1> QED
  BY <1>1, <1>2, LinkStep, CommitEntriesStep, RollbackEntriesStep, AlterStep, ExpungeStep
     DEF ChainNext

\* audit_integrity.py:11-18: while one session at a time writes about an object,
\* its trail fails to verify exactly when an entry was altered, or one that
\* others follow was removed, outside the application - whatever was appended,
\* committed or rolled back before and after.
THEOREM VerdictsAreRight ==
  ASSUME NEW w, Writers = {w}
  PROVE  ChainSpec => []VerdictIsRight
<1>1. ChainInit => ChainInv(w)
  BY ChainInitInv
<1>2. ChainInv(w) /\ [ChainNext]_chainVars => ChainInv(w)'
  BY ChainStep
<1>3. ChainInv(w) => VerdictIsRight
  <2> SUFFICES ASSUME ChainInv(w) PROVE VerdictIsRight
    OBVIOUS
  <2>1. trail \in SUBSET Entries /\ trail \subseteq Visible(w) /\ WellKept(Visible(w))
    BY DEF ChainInv, ChainTypeOK, Visible
  <2>2. WellKept(trail)
    BY <2>1, FewerWellKept
  <2>3. ~meddled => Faithful(trail)
    <3>1. ASSUME NEW e \in trail, NEW f \in written[w] PROVE ~(f.at < e.at)
      <4>1. e.at < f.at
        BY DEF ChainInv
      <4>2. e.at \in Int /\ f.at \in Int
        BY DEF ChainInv, ChainTypeOK, Entries
      <4> QED
        BY <4>1, <4>2
    <3>2. \A e \in trail : Earlier(Visible(w), e) = Earlier(trail, e)
      BY <3>1 DEF Earlier, Visible
    <3> QED
      BY <2>1, <3>2 DEF Faithful, ChainInv
  <2>4. (Shown(trail) => ~Verified) /\ (Faithful(trail) => Verified)
    BY <2>1, <2>2, VerdictFromRows
  <2> QED
    BY <2>3, <2>4 DEF ChainInv, VerdictIsRight
<1> QED
  BY <1>1, <1>2, <1>3, PTL DEF ChainSpec

\* Entries hold values of their kind, and no two share a time.
THEOREM ChainTypeCorrect ==
  ASSUME NEW w, Writers = {w}
  PROVE  ChainSpec => []ChainTypeOK
<1>1. ChainInit => ChainInv(w)
  BY ChainInitInv
<1>2. ChainInv(w) /\ [ChainNext]_chainVars => ChainInv(w)'
  BY ChainStep
<1>3. ChainInv(w) => ChainTypeOK
  BY DEF ChainInv
<1> QED
  BY <1>1, <1>2, <1>3, PTL DEF ChainSpec

=============================================================================
