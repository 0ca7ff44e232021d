------------------------------ MODULE Postings ------------------------------
(***************************************************************************)
(* Telling the tenant's accounting system that money moved                 *)
(* (integration_posting_service.py, integration_service.py and the         *)
(* QuickBooks connector).  Releasing a payment or paying a claim queues a  *)
(* journal post in its own transaction.  A drain takes what is due, looks  *)
(* in the books for an entry with the record's number, posts one if there  *)
(* is none, and commits once, at its end.                                  *)
(*                                                                         *)
(* The accounting system is modelled from the connector: a request may be  *)
(* served and its answer lost, refused, or rejected for its token.         *)
(***************************************************************************)
EXTENDS Naturals, FiniteSets

CONSTANTS Records,       \* payment runs and expense claims, in order of release
          Drains,
          MaxTries,   \* five in the program
          MaxFaults     \* bound: answers lost, tokens rejected, drains ended, ...

ASSUME PostingsAssumption ==
  Records \subseteq Nat /\ MaxTries \in Nat \ {0} /\ MaxFaults \in Nat

VARIABLES conn,      \* the connection: its status, its posting accounts
          moved,     \* the records whose money has moved
          post,      \* committed integration_journal_posts rows
          entries,   \* journal entries in the books, per record
          drain, faults

postVars == <<conn, moved, post, entries, drain, faults>>

NoDrain == [loaded |-> [p \in {} |-> 0], wrote |-> [p \in {} |-> "again"],
         absent |-> FALSE, dead |-> FALSE]

PostingsInit ==
  /\ conn = [status |-> "not_connected", ready |-> FALSE]
  /\ moved = {}
  /\ post = [p \in Records |-> [status |-> "none", attempts |-> 0, due |-> FALSE]]
  /\ entries = [p \in Records |-> 0]
  /\ drain = [d \in Drains |-> NoDrain]
  /\ faults = 0

Mishap == faults < MaxFaults /\ faults' = faults + 1

-----------------------------------------------------------------------------
(* The connection.                                                         *)

CompleteConnect ==
  /\ conn.status # "connected"
  /\ conn' = [conn EXCEPT !.status = "connected"]
  /\ UNCHANGED <<moved, post, entries, drain, faults>>

SetDefaultAccounts ==
  /\ conn.status # "not_connected"
  /\ ~conn.ready
  /\ conn' = [conn EXCEPT !.ready = TRUE]
  /\ UNCHANGED <<moved, post, entries, drain, faults>>

Disconnect ==
  /\ conn.status # "not_connected"
  /\ Mishap
  /\ conn' = [conn EXCEPT !.status = "not_connected"]
  /\ UNCHANGED <<moved, post, entries, drain>>

-----------------------------------------------------------------------------
\* Releasing or paying goes through whether or not it can be posted.
Enqueue(p) ==
  /\ p \notin moved
  /\ moved' = moved \cup {p}
  /\ post' = IF conn = [status |-> "connected", ready |-> TRUE]
               THEN [post EXCEPT ![p] = [status |-> "pending", attempts |-> 0, due |-> TRUE]]
               ELSE post
  /\ UNCHANGED <<conn, entries, drain, faults>>

\* Mutant: only posts that were never tried are due.
DueUntried == {p \in Records : post[p].status = "pending" /\ post[p].attempts = 0}

DuePosts == {p \in Records : post[p].status = "pending" /\ post[p].due}

\* A drain that finds no connection skips every post and leaves no trace.
StartDrain(d) ==
  /\ drain[d] = NoDrain
  /\ DuePosts # {}
  /\ conn.status = "connected"
  /\ drain' = [drain EXCEPT ![d].loaded = [p \in DuePosts |-> post[p].attempts]]
  /\ UNCHANGED <<conn, moved, post, entries, faults>>

\* The record the drain works on: it takes the oldest first.
Trying(d, p) ==
  /\ ~drain[d].dead
  /\ p \in DOMAIN drain[d].loaded \ DOMAIN drain[d].wrote
  /\ \A q \in DOMAIN drain[d].loaded \ DOMAIN drain[d].wrote : p <= q

Outcome(d, p, what) ==
  drain' = [drain EXCEPT ![d] =
    [drain[d] EXCEPT !.wrote = [q \in DOMAIN @ \cup {p} |-> IF q = p THEN what ELSE @[q]],
                     !.absent = FALSE, !.dead = what \in {"auth", "expired"}]]

\* Disconnected since the post was queued: it waits.
Skip(d, p) ==
  /\ Trying(d, p) /\ ~drain[d].absent
  /\ conn.status # "connected"
  /\ Outcome(d, p, "skipped")
  /\ UNCHANGED <<conn, moved, post, entries, faults>>

\* _attempt reads the connection anew, for the session keeps no reference to the
\* one of the attempt before; then the token is refreshed if it is due, and
\* _find_by_doc_number asks the books.
LookUp(d, p) ==
  /\ Trying(d, p) /\ ~drain[d].absent
  /\ conn.status = "connected"
  /\ IF entries[p] > 0 THEN Outcome(d, p, "posted")
                       ELSE drain' = [drain EXCEPT ![d].absent = TRUE]
  /\ UNCHANGED <<conn, moved, post, entries, faults>>

\* Mutant: the entry is posted without looking for one.
CreateUnseen(d, p) ==
  /\ Trying(d, p)
  /\ entries' = [entries EXCEPT ![p] = @ + 1]
  /\ \/ Outcome(d, p, "posted") /\ UNCHANGED faults
     \/ Outcome(d, p, "again") /\ Mishap
  /\ UNCHANGED <<conn, moved, post>>

\* The entry is made; its answer may be lost on the way back.
Create(d, p) ==
  /\ Trying(d, p) /\ drain[d].absent
  /\ entries' = [entries EXCEPT ![p] = @ + 1]
  /\ \/ Outcome(d, p, "posted") /\ UNCHANGED faults
     \/ Outcome(d, p, "again") /\ Mishap
  /\ UNCHANGED <<conn, moved, post>>

\* Either call finds the provider unreachable, or rejects the token; or the
\* refresh before both is refused, and no attempt is counted.
Refused(d, p) ==
  /\ Trying(d, p)
  /\ Mishap
  /\ \/ \E what \in {"again", "auth"} :
          (drain[d].absent \/ conn.status = "connected") /\ Outcome(d, p, what)
     \/ ~drain[d].absent /\ conn.status = "connected" /\ Outcome(d, p, "expired")
  /\ UNCHANGED <<conn, moved, post, entries>>

\* What the commit leaves of a row: a failed attempt writes no status.
PostWritten(n, what, old) ==
  CASE what = "posted" -> [status |-> "posted", attempts |-> n, due |-> FALSE]
    [] what = "again"  -> [status |-> IF n >= MaxTries THEN "failed" ELSE old.status,
                           attempts |-> n, due |-> FALSE]
    [] what = "auth"   -> [old EXCEPT !.attempts = n]
    [] what \in {"expired", "skipped"} -> old

CommitDrain(d) ==
  /\ post' = [p \in Records |->
                IF p \in DOMAIN drain[d].wrote
                  THEN PostWritten(drain[d].loaded[p] + 1, drain[d].wrote[p], post[p])
                  ELSE post[p]]
  /\ conn' = IF drain[d].dead THEN [conn EXCEPT !.status = "expired"] ELSE conn

EndDrain(d) ==
  /\ drain[d] # NoDrain
  /\ drain[d].dead \/ DOMAIN drain[d].wrote = DOMAIN drain[d].loaded
  /\ CommitDrain(d)
  /\ drain' = [drain EXCEPT ![d] = NoDrain]
  /\ UNCHANGED <<moved, entries, faults>>

\* Refreshing a token commits what the drain has done so far.
RefreshTokens(d) ==
  /\ ~drain[d].absent /\ ~drain[d].dead
  /\ DOMAIN drain[d].wrote \notin {{}, DOMAIN drain[d].loaded}
  /\ conn.status = "connected"
  /\ CommitDrain(d)
  /\ drain' = [drain EXCEPT ![d] =
       [drain[d] EXCEPT !.loaded = [p \in DOMAIN @ \ DOMAIN drain[d].wrote |-> post[p].attempts],
                        !.wrote = NoDrain.wrote]]
  /\ UNCHANGED <<moved, entries, faults>>

\* The process dies, or a refresh finds the provider unreachable, which the
\* drain does not catch: what it has not committed is undone.
DrainDies(d) ==
  /\ drain[d] # NoDrain
  /\ Mishap
  /\ drain' = [drain EXCEPT ![d] = NoDrain]
  /\ UNCHANGED <<conn, moved, post, entries>>

PostBackoffEnds(p) ==
  /\ post[p].status = "pending" /\ ~post[p].due
  /\ post' = [post EXCEPT ![p].due = TRUE]
  /\ UNCHANGED <<conn, moved, entries, drain, faults>>

\* A person puts a given-up post back; its attempts are kept.
Retry(p) ==
  /\ post[p].status = "failed"
  /\ Mishap
  /\ post' = [post EXCEPT ![p] = [post[p] EXCEPT !.status = "pending", !.due = TRUE]]
  /\ UNCHANGED <<conn, moved, entries, drain>>

PostingsNext ==
  \/ CompleteConnect \/ SetDefaultAccounts \/ Disconnect
  \/ \E p \in Records : Enqueue(p) \/ PostBackoffEnds(p) \/ Retry(p)
  \/ \E d \in Drains : \/ StartDrain(d) \/ EndDrain(d) \/ RefreshTokens(d) \/ DrainDies(d)
                       \/ \E p \in Records : \/ Skip(d, p) \/ LookUp(d, p)
                                             \/ Create(d, p) \/ Refused(d, p)

PostingsSpec == PostingsInit /\ [][PostingsNext]_postVars

\* docker-compose.yml:124 drains every five minutes, every call has a timeout,
\* clocks move on.
PostingsFairness ==
  /\ \A d \in Drains :
       /\ WF_postVars(StartDrain(d)) /\ WF_postVars(EndDrain(d))
       /\ \A p \in Records : WF_postVars(Skip(d, p) \/ LookUp(d, p) \/ Create(d, p))
  /\ \A p \in Records : WF_postVars(PostBackoffEnds(p))

FairPostingsSpec == PostingsSpec /\ PostingsFairness

-----------------------------------------------------------------------------
(* Properties.                                                             *)

Outcomes == {"posted", "again", "auth", "expired", "skipped"}

DrainRecords == [loaded : UNION {[S -> Nat] : S \in SUBSET Records},
                 wrote : UNION {[S -> Outcomes] : S \in SUBSET Records},
                 absent : BOOLEAN, dead : BOOLEAN]

\* Rows and drains hold values of their kind, and a drain works on what it
\* loaded.
PostingsTypeOK ==
  /\ conn \in [status : {"not_connected", "connected", "expired"}, ready : BOOLEAN]
  /\ moved \subseteq Records
  /\ post \in [Records -> [status : {"none", "pending", "posted", "failed"},
                           attempts : Nat, due : BOOLEAN]]
  /\ entries \in [Records -> Nat]
  /\ drain \in [Drains -> DrainRecords]
  /\ \A d \in Drains : DOMAIN drain[d].wrote \subseteq DOMAIN drain[d].loaded

Told == {p \in Records : post[p].status = "posted"}

Books == INSTANCE Bookkeeping WITH told <- Told

\* DECISION_REGISTER.md:578, at least once on the queue and once in the books:
\* through lost answers, restarts, rejected tokens and retries, a drain enters a
\* record once, and never reports one that is not entered.
EnteredOnce == Books!BookkeepingSpec

\* integration_posting_service.py:1-14: a post is told or given up, unless the
\* connection it needs is gone.
EveryPostSettles ==
  \A p \in Records :
    post[p].status = "pending"
      ~> (post[p].status \in {"posted", "failed"} \/ conn.status # "connected")

\* schedulers.yml:69-71: each job is safe to run concurrently with itself, a
\* posted entry is not posted twice.
NotPostedTwice == \A p \in Records : entries[p] <= 1

\* What overlapping drains can repeat: each may enter a record that none of them
\* found in the books, but none that looks afterwards does, and what is reported
\* is entered.
EnteredPerDrain ==
  \A p \in Records : /\ entries[p] <= Cardinality(Drains)
                     /\ post[p].status = "posted" => entries[p] > 0

=============================================================================
