----------------------------- MODULE Bookkeeping ----------------------------
(***************************************************************************)
(* What the accounting outbox promises: money that moved is entered in the *)
(* client's books at most once, and nothing is reported entered that is    *)
(* not, or reported and then unreported.                                   *)
(***************************************************************************)
EXTENDS Naturals

CONSTANT Records

VARIABLES entries,   \* journal entries the books hold for each record
          told       \* records known to be in the books

BookkeepingInit ==
  /\ entries = [p \in Records |-> 0]
  /\ told = {}

Enter(p) ==
  /\ entries[p] = 0
  /\ entries' = [entries EXCEPT ![p] = 1]
  /\ UNCHANGED told

\* One commit may report several records.
Tell(ps) ==
  /\ ps # {} /\ \A p \in ps : entries[p] = 1
  /\ told' = told \cup ps
  /\ UNCHANGED entries

BookkeepingNext ==
  (\E p \in Records : Enter(p)) \/ (\E ps \in SUBSET Records : Tell(ps))

BookkeepingSpec == BookkeepingInit /\ [][BookkeepingNext]_<<entries, told>>

=============================================================================
