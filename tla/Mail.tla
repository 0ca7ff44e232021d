-------------------------------- MODULE Mail --------------------------------
(***************************************************************************)
(* The notification outbox (notification_service.py and                    *)
(* notification_dispatcher.py).  A request queues one message per          *)
(* recipient in its own transaction; a dispatch takes what is due, oldest  *)
(* first, hands each message to the mail server and commits once, at its   *)
(* end.  The scheduled job dispatches, and so does anybody who presses the *)
(* button, at the same time.                                               *)
(***************************************************************************)
EXTENDS Naturals, FiniteSets

CONSTANTS Messages,      \* numbered in the order they are queued
          Unbuildable,   \* no message can be built: a line break in the subject
          Dispatchers,
          MaxAttempts,   \* five in the program
          Limit,         \* the messages one dispatch takes
          MaxMishaps     \* bound: servers lost, requeueings

ASSUME MailAssumption ==
  /\ Messages \subseteq Nat /\ IsFiniteSet(Messages) /\ Unbuildable \subseteq Messages
  /\ MaxAttempts \in Nat \ {0} /\ Limit \in Nat \ {0} /\ MaxMishaps \in Nat

VARIABLES smtp,       \* SMTP_ENABLED
          row,        \* committed notification_outbox rows
          accepted,   \* how often the mail server took each message
          batch,      \* the attempts each dispatch loaded, per message it took
          tried,      \* the messages of its batch it has tried
          mishaps

mailVars == <<smtp, row, accepted, batch, tried, mishaps>>

NoBatch == [m \in {} |-> 0]

MailInit ==
  /\ smtp \in BOOLEAN
  /\ row = [m \in Messages |-> [status |-> "none", attempts |-> 0, due |-> FALSE]]
  /\ accepted = [m \in Messages |-> 0]
  /\ batch = [d \in Dispatchers |-> NoBatch]
  /\ tried = [d \in Dispatchers |-> {}]
  /\ mishaps = 0

\* The recipients of one notification, with the action that notifies them.
Queue(ms) ==
  /\ \A m \in ms : row[m].status = "none"
  /\ row' = [m \in Messages |->
               IF m \in ms THEN [status |-> "pending", attempts |-> 0, due |-> TRUE]
                           ELSE row[m]]
  /\ UNCHANGED <<smtp, accepted, batch, tried, mishaps>>

Due == {m \in Messages : row[m].status = "pending" /\ row[m].due}
Oldest(ms) == {m \in ms : Cardinality({k \in ms : k < m}) < Limit}

\* Without a mail server the rows are held and no attempt is spent.
StartDispatch(d) ==
  /\ smtp
  /\ batch[d] = NoBatch
  /\ Due # {}
  /\ batch' = [batch EXCEPT ![d] = [m \in Oldest(Due) |-> row[m].attempts]]
  /\ UNCHANGED <<smtp, row, accepted, tried, mishaps>>

\* A row that is flushed is locked until its dispatch commits.
RowLocked(d, m) == \E e \in Dispatchers \ {d} : m \in tried[e]

\* _deliver swallows what the mail server raises: the attempt counts as a
\* success whether or not the server took the message.
Attempt(d, m) ==
  /\ m \in DOMAIN batch[d] \ tried[d]
  /\ \A k \in DOMAIN batch[d] \ tried[d] : m <= k
  /\ ~RowLocked(d, m)
  /\ tried' = [tried EXCEPT ![d] = @ \cup {m}]
  /\ \/ m \notin Unbuildable /\ accepted' = [accepted EXCEPT ![m] = @ + 1]
     \/ UNCHANGED accepted
  /\ UNCHANGED <<smtp, row, batch, mishaps>>

\* The error is recorded; after MaxAttempts of them the message is given up.
GivenUp(m, n) == m \in Unbuildable /\ n >= MaxAttempts

\* Mutant: a delivered message is not marked sent.
WrittenUnsent(m, n, old) ==
  [status |-> IF GivenUp(m, n) THEN "failed" ELSE old.status, attempts |-> n, due |-> FALSE]

\* What the commit leaves of a row: a failed attempt writes no status.
Written(m, n, old) ==
  [status |-> IF GivenUp(m, n) THEN "failed"
              ELSE IF m \in Unbuildable THEN old.status ELSE "sent",
   attempts |-> n, due |-> FALSE]

EndDispatch(d) ==
  /\ batch[d] # NoBatch
  /\ tried[d] = DOMAIN batch[d]
  /\ row' = [m \in Messages |->
               IF m \in tried[d] THEN Written(m, batch[d][m] + 1, row[m]) ELSE row[m]]
  /\ batch' = [batch EXCEPT ![d] = NoBatch]
  /\ tried' = [tried EXCEPT ![d] = {}]
  /\ UNCHANGED <<smtp, accepted, mishaps>>

\* The process dies before its commit; what the mail server took stays taken.
DispatchDies(d) ==
  /\ mishaps < MaxMishaps
  /\ batch[d] # NoBatch
  /\ batch' = [batch EXCEPT ![d] = NoBatch]
  /\ tried' = [tried EXCEPT ![d] = {}]
  /\ mishaps' = mishaps + 1
  /\ UNCHANGED <<smtp, row, accepted>>

\* Mutant: the backoff of a message is forgotten, and never ends.
BackoffForgotten(m) ==
  /\ row[m].status = "pending" /\ ~row[m].due /\ row[m].attempts = 0
  /\ row' = [row EXCEPT ![m].due = TRUE]
  /\ UNCHANGED <<smtp, accepted, batch, tried, mishaps>>

BackoffEnds(m) ==
  /\ row[m].status = "pending" /\ ~row[m].due
  /\ row' = [row EXCEPT ![m].due = TRUE]
  /\ UNCHANGED <<smtp, accepted, batch, tried, mishaps>>

Failed == {m \in Messages : row[m].status = "failed"}

RetryFailed ==
  /\ mishaps < MaxMishaps
  /\ Failed # {}
  /\ row' = [m \in Messages |->
               IF m \in Failed THEN [status |-> "pending", attempts |-> 0, due |-> TRUE]
                               ELSE row[m]]
  /\ mishaps' = mishaps + 1
  /\ UNCHANGED <<smtp, accepted, batch, tried>>

\* A deployment turns the mailer on.
SwitchSmtp ==
  /\ ~smtp /\ smtp' = TRUE
  /\ UNCHANGED <<row, accepted, batch, tried, mishaps>>

MailNext ==
  \/ \E ms \in SUBSET Messages \ {{}} : Queue(ms)
  \/ \E d \in Dispatchers : \/ StartDispatch(d) \/ EndDispatch(d) \/ DispatchDies(d)
                            \/ \E m \in Messages : Attempt(d, m)
  \/ \E m \in Messages : BackoffEnds(m)
  \/ RetryFailed \/ SwitchSmtp

MailSpec == MailInit /\ [][MailNext]_mailVars

\* docker-compose.yml:100 dispatches every minute, and clocks move on; a dispatch
\* that started goes on, since each server call has a timeout.
MailFairness ==
  /\ \A d \in Dispatchers :
       /\ WF_mailVars(StartDispatch(d)) /\ WF_mailVars(EndDispatch(d))
       /\ \A m \in Messages : WF_mailVars(Attempt(d, m))
  /\ \A m \in Messages : WF_mailVars(BackoffEnds(m))

FairMailSpec == MailSpec /\ MailFairness

-----------------------------------------------------------------------------
(* Properties.                                                             *)

\* Rows and dispatches hold values of their kind.
MailTypeOK ==
  /\ smtp \in BOOLEAN /\ mishaps \in 0..MaxMishaps
  /\ row \in [Messages -> [status : {"none", "pending", "sent", "failed"},
                           attempts : 0..MaxAttempts, due : BOOLEAN]]
  /\ accepted \in [Messages -> Nat]
  /\ \A d \in Dispatchers : batch[d] \in [DOMAIN batch[d] -> 0..MaxAttempts]
  /\ \A d \in Dispatchers : tried[d] \subseteq DOMAIN batch[d] \cap Messages

\* notification_dispatcher.py:11-13: a message is given up rather than retried
\* forever, and a bad address does not starve the queue: once there is a mail
\* server, what is queued ends sent or failed.
EveryMessageSettles ==
  \A m \in Messages :
    (smtp /\ row[m].status = "pending") ~> row[m].status \in {"sent", "failed"}

\* notification_dispatcher.py:13, Nothing is silently dropped: what is marked
\* sent has reached the mail server.
NothingDropped == \A m \in Messages : row[m].status = "sent" => accepted[m] > 0

\* schedulers.yml:69-71: each job is safe to run concurrently with itself, a
\* sent message is not picked up twice.
NotSentTwice == \A m \in Messages : accepted[m] <= 1

\* What overlapping dispatches and restarts can repeat: nobody gets a message more
\* often than there are dispatches at a time, and mishaps.
AcceptedPerDispatch ==
  \A m \in Messages : accepted[m] <= Cardinality(Dispatchers) + mishaps

=============================================================================
