----------------------------- MODULE AuditChain -----------------------------
(***************************************************************************)
(* The hash chain of one object's audit trail (audit.py,                   *)
(* audit_integrity.py).  A request stamps an entry with the time, looks    *)
(* for the latest entry it can see, and links the new one to it; what it   *)
(* wrote is seen by others when it commits.  Verification walks the        *)
(* entries in the order of their times and recomputes every link.          *)
(*                                                                         *)
(* A digest is the sequence of what was hashed into it: SHA-256 taken to   *)
(* have no collisions.                                                     *)
(***************************************************************************)
EXTENDS Naturals, Sequences

CONSTANTS Writers,
          MaxStamps   \* bound: the entries ever stamped

ASSUME ChainAssumption == MaxStamps \in Nat

VARIABLES clock,      \* utc_now, fine enough that no two entries share a time
          trail,      \* committed audit_logs rows of the object
          written,    \* the rows each open transaction has flushed
          stamped,    \* the time of the entry a session is about to link, or 0
          meddled     \* rows were altered, or one that others follow removed,
                      \* outside the application

chainVars == <<clock, trail, written, stamped, meddled>>

Says == {"recorded", "altered"}
Hashes == Seq((1..MaxStamps) \X Says)
Entries == [at : 1..MaxStamps, says : Says, prev : Hashes, digest : Hashes]

ChainInit ==
  /\ clock = 0
  /\ trail = {} /\ meddled = FALSE
  /\ written = [s \in Writers |-> {}]
  /\ stamped = [s \in Writers |-> 0]

\* log_audit up to its flush.
Stamp(s) ==
  /\ stamped[s] = 0
  /\ clock < MaxStamps
  /\ clock' = clock + 1
  /\ stamped' = [stamped EXCEPT ![s] = clock']
  /\ UNCHANGED <<trail, written, meddled>>

Latest(rows) == CHOOSE e \in rows : \A f \in rows : f.at <= e.at

\* What the next entry after these is linked to.
Tip(rows) == IF rows = {} THEN <<>> ELSE Latest(rows).digest

\* compute_entry_hash: only the entry's own fields and the link are hashed.
Digest(e, prev) == Append(prev, <<e.at, e.says>>)

\* Mutant: the transaction's own entries are not seen.
VisibleCommitted(s) == trail

Visible(s) == trail \cup written[s]

\* append_to_chain.
Link(s) ==
  /\ stamped[s] # 0
  /\ LET prev == Tip(Visible(s))
         bare == [at |-> stamped[s], says |-> "recorded"]
     IN written' = [written EXCEPT ![s] = @ \cup
          {[at |-> bare.at, says |-> bare.says, prev |-> prev, digest |-> Digest(bare, prev)]}]
  /\ stamped' = [stamped EXCEPT ![s] = 0]
  /\ UNCHANGED <<clock, trail, meddled>>

CommitEntries(s) ==
  /\ written[s] # {} /\ stamped[s] = 0
  /\ trail' = trail \cup written[s]
  /\ written' = [written EXCEPT ![s] = {}]
  /\ UNCHANGED <<clock, stamped, meddled>>

RollbackEntries(s) ==
  /\ written[s] # {} \/ stamped[s] # 0
  /\ written' = [written EXCEPT ![s] = {}]
  /\ stamped' = [stamped EXCEPT ![s] = 0]
  /\ UNCHANGED <<clock, trail, meddled>>

\* Outside the application: a stored field is altered, its hashes are not.
Alter(e) ==
  /\ e \in trail /\ e.says = "recorded"
  /\ trail' = (trail \ {e}) \cup {[e EXCEPT !.says = "altered"]}
  /\ meddled' = TRUE
  /\ UNCHANGED <<clock, written, stamped>>

\* Outside the application: an entry that others follow is deleted.
Expunge(e) ==
  /\ e \in trail /\ e # Latest(trail)
  /\ trail' = trail \ {e}
  /\ meddled' = TRUE
  /\ UNCHANGED <<clock, written, stamped>>

ChainNext ==
  \/ \E s \in Writers : Stamp(s) \/ Link(s) \/ CommitEntries(s) \/ RollbackEntries(s)
  \/ \E e \in trail : Alter(e) \/ Expunge(e)

ChainSpec == ChainInit /\ [][ChainNext]_chainVars

-----------------------------------------------------------------------------
(* verify_object_chain.                                                    *)

\* Mutant: the links are compared, the contents are not hashed again.
LinkHoldsUnhashed(e, prev) == e.prev = prev

LinkHolds(e, prev) == e.prev = prev /\ e.digest = Digest(e, prev)

\* Every entry is compared with the one before it in the order of their times.
Verified == \A e \in trail : LinkHolds(e, Tip({f \in trail : f.at < e.at}))

-----------------------------------------------------------------------------
(* Properties.                                                             *)

\* Entries hold values of their kind, and no two share a time.
ChainTypeOK ==
  /\ clock \in 0..MaxStamps /\ meddled \in BOOLEAN
  /\ stamped \in [Writers -> 0..MaxStamps]
  /\ trail \subseteq Entries
  /\ written \in [Writers -> SUBSET Entries]
  /\ \A e, f \in trail : e.at = f.at => e = f

\* audit_integrity.py:11-13 and 126-131: a break is a sign of an entry altered,
\* or missing from between others, and of nothing else.  Whatever was appended
\* or rolled back since, an alteration is reported; and a trail that only the
\* application wrote verifies, while no two sessions write about the object at
\* a time.
VerdictIsRight == Verified <=> ~meddled

=============================================================================
