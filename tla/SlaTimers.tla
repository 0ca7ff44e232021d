------------------------------ MODULE SlaTimers -----------------------------
(***************************************************************************)
(* The clocks of the workflows (sla_service.py): while a record waits in a *)
(* state with a deadline, one reminder goes to whoever can act, and one    *)
(* escalation to a higher role when the deadline has passed.  A sweep      *)
(* loads every waiting record, then asks the audit trail, record by        *)
(* record, whether it has spoken since the record entered its state.       *)
(***************************************************************************)
EXTENDS Naturals, FiniteSets

CONSTANTS Watched, Sweeps,
          MaxEntries,   \* bound: the times a record enters the state
          MaxDeaths    \* bound: the sweeps that die

ASSUME SlaAssumption == MaxEntries \in Nat /\ MaxDeaths \in Nat

VARIABLES entry,      \* how often each record has entered the waiting state
          waiting,    \* is it there now
          age,        \* how long: fresh, past the reminder, past the deadline
          alarms,     \* committed escalations: entry of the record when written
          reminded,   \* committed reminders not older than the interval
          sweep,      \* the kind and the loaded entries of each sweep, its writes
          deaths

slaVars == <<entry, waiting, age, alarms, reminded, sweep, deaths>>

Ages == {"fresh", "late", "overdue"}

NoSweep == [kind |-> "none", todo |-> {}, loaded |-> [r \in Watched |-> 0],
            wrote |-> [r \in Watched |-> 0]]

SlaInit ==
  /\ entry = [r \in Watched |-> 0]
  /\ waiting = [r \in Watched |-> FALSE]
  /\ age = [r \in Watched |-> "fresh"]
  /\ alarms = [r \in Watched |-> [e \in 1..MaxEntries |-> 0]]
  /\ reminded = [r \in Watched |-> FALSE]
  /\ sweep = [s \in Sweeps |-> NoSweep]
  /\ deaths = 0

\* transition_state restarts the timer.
EnterState(r) ==
  /\ ~waiting[r] /\ entry[r] < MaxEntries
  /\ waiting' = [waiting EXCEPT ![r] = TRUE]
  /\ entry' = [entry EXCEPT ![r] = @ + 1]
  /\ age' = [age EXCEPT ![r] = "fresh"]
  /\ reminded' = [reminded EXCEPT ![r] = FALSE]
  /\ UNCHANGED <<alarms, sweep, deaths>>

LeaveState(r) ==
  /\ waiting[r]
  /\ waiting' = [waiting EXCEPT ![r] = FALSE]
  /\ UNCHANGED <<entry, age, alarms, reminded, sweep, deaths>>

\* sla_status: the deadline is worked out when asked, from the time of entry.
TimePasses(r) ==
  /\ waiting[r] /\ age[r] # "overdue"
  /\ age' = [age EXCEPT ![r] = IF @ = "fresh" THEN "late" ELSE "overdue"]
  /\ UNCHANGED <<entry, waiting, alarms, reminded, sweep, deaths>>

\* The reminder interval ends before the deadline does.
IntervalPasses(r) ==
  /\ reminded[r]
  /\ reminded' = [reminded EXCEPT ![r] = FALSE]
  /\ UNCHANGED <<entry, waiting, age, alarms, sweep, deaths>>

Waiting == {r \in Watched : waiting[r]}

StartSweep(s, kind) ==
  /\ sweep[s] = NoSweep
  /\ Waiting # {}
  /\ sweep' = [sweep EXCEPT ![s] = [NoSweep EXCEPT !.kind = kind, !.todo = Waiting,
                 !.loaded = [r \in Watched |-> IF waiting[r] THEN entry[r] ELSE 0]]]
  /\ UNCHANGED <<entry, waiting, age, alarms, reminded, deaths>>

\* A record that has left and entered again since it was loaded is judged by
\* the time of the entry that was loaded.
AgeOf(r, loaded) == IF entry[r] > loaded THEN "overdue" ELSE age[r]

\* Mutant: a record that was ever escalated is left alone.
EscalatedEver(r, loaded) == \E e \in 1..MaxEntries : alarms[r][e] > 0

\* An sla_escalated entry whose time is not before the entry into the state.
AlreadyEscalated(r, loaded) == \E e \in 1..MaxEntries : e >= loaded /\ alarms[r][e] > 0

\* Mutant: the audit trail is not asked.
EscalateAgain(s, r) ==
  AgeOf(r, sweep[s].loaded[r]) = "overdue"

Escalates(s, r) ==
  /\ AgeOf(r, sweep[s].loaded[r]) = "overdue"
  /\ ~AlreadyEscalated(r, sweep[s].loaded[r])

Reminds(s, r) ==
  /\ AgeOf(r, sweep[s].loaded[r]) = "late"
  /\ ~reminded[r]

Consider(s, r) ==
  /\ r \in sweep[s].todo
  /\ LET speaks == IF sweep[s].kind = "escalate" THEN Escalates(s, r) ELSE Reminds(s, r)
     IN sweep' = [sweep EXCEPT ![s].todo = @ \ {r},
                               ![s].wrote[r] = IF speaks THEN entry[r] ELSE 0]
  /\ UNCHANGED <<entry, waiting, age, alarms, reminded, deaths>>

\* The audit entries and the queued messages are committed together.
EndSweep(s) ==
  /\ sweep[s] # NoSweep /\ sweep[s].todo = {}
  /\ alarms' = [r \in Watched |-> [e \in 1..MaxEntries |->
       IF sweep[s].kind = "escalate" /\ sweep[s].wrote[r] = e
         THEN alarms[r][e] + 1 ELSE alarms[r][e]]]
  /\ reminded' = [r \in Watched |->
       reminded[r] \/ (sweep[s].kind = "remind" /\ sweep[s].wrote[r] = entry[r]
                       /\ entry[r] > 0)]
  /\ sweep' = [sweep EXCEPT ![s] = NoSweep]
  /\ UNCHANGED <<entry, waiting, age, deaths>>

SweepDies(s) ==
  /\ deaths < MaxDeaths
  /\ sweep[s] # NoSweep
  /\ sweep' = [sweep EXCEPT ![s] = NoSweep]
  /\ deaths' = deaths + 1
  /\ UNCHANGED <<entry, waiting, age, alarms, reminded>>

SlaNext ==
  \/ \E r \in Watched : EnterState(r) \/ LeaveState(r) \/ TimePasses(r) \/ IntervalPasses(r)
  \/ \E s \in Sweeps : \/ \E kind \in {"remind", "escalate"} : StartSweep(s, kind)
                       \/ \E r \in Watched : Consider(s, r)
                       \/ EndSweep(s) \/ SweepDies(s)

SlaSpec == SlaInit /\ [][SlaNext]_slaVars

\* docker-compose.yml:112: run_workflow_timers reminds and then escalates, every
\* hour.
SlaFairness ==
  \A s \in Sweeps :
    /\ SF_slaVars(StartSweep(s, "escalate"))
    /\ WF_slaVars(EndSweep(s))
    /\ \A r \in Watched : WF_slaVars(Consider(s, r))

FairSlaSpec == SlaSpec /\ SlaFairness

-----------------------------------------------------------------------------
(* Properties.                                                             *)

\* Records and sweeps hold values of their kind.
SlaTypeOK ==
  /\ entry \in [Watched -> 0..MaxEntries]
  /\ waiting \in [Watched -> BOOLEAN] /\ age \in [Watched -> Ages]
  /\ alarms \in [Watched -> [1..MaxEntries -> Nat]]
  /\ reminded \in [Watched -> BOOLEAN]
  /\ sweep \in [Sweeps -> [kind : {"none", "remind", "escalate"}, todo : SUBSET Watched,
                           loaded : [Watched -> 0..MaxEntries],
                           wrote : [Watched -> 0..MaxEntries]]]

\* sla_service.py:131, One escalation per state entry: while sweeps do not
\* overlap, none of them escalates an entry that was escalated before, though
\* records come and go while it runs.
OneAlarm == \A r \in Watched, e \in 1..MaxEntries : alarms[r][e] <= 1

\* What overlapping sweeps can repeat: each may escalate an entry that none of
\* them found escalated, but none that asks afterwards does.
AlarmPerSweep ==
  \A r \in Watched, e \in 1..MaxEntries : alarms[r][e] <= Cardinality(Sweeps)

\* sla_service.py:170-172, an alarm at breach: a record that stays past its
\* deadline is escalated while it is there, the second time it is late as well.
EveryBreachAlarms ==
  \A r \in Watched, e \in 1..MaxEntries :
    (waiting[r] /\ age[r] = "overdue" /\ entry[r] = e)
      ~> (alarms[r][e] > 0 \/ ~waiting[r] \/ entry[r] # e)

=============================================================================
