----------------------------- MODULE VendorBank -----------------------------
(***************************************************************************)
(* Changing a vendor's bank details under control                          *)
(* (app/services/vendor_bank_service.py): a request that snapshots the old *)
(* details, a second person's approval, a cooling period, and a separate   *)
(* act that writes the new details onto the vendor.                        *)
(*                                                                         *)
(* now orders the two commits the program timestamps and later compares:   *)
(* a change being applied and, in PaymentRuns, a run being released.       *)
(***************************************************************************)
EXTENDS VendorMaster

CONSTANTS MaxChanges,  \* bound: the change requests ever made
          Proposals    \* bound: the details they propose, NoValue where silent

ASSUME MaxChangesAssumption == MaxChanges \in Nat
ASSUME ProposalsAssumption == Proposals \subseteq BankDetails

VARIABLES change, now

Changes == 1..MaxChanges

ChangeStates == {"pending_approval", "approved", "effective", "rejected", "cancelled"}
OpenStates == {"pending_approval", "approved"}

ChangeRecord ==
  [state : ChangeStates, vendor : Vendors, new : BankDetails, old : BankDetails,
   requestedBy : Users, approvedBy : Users \cup {NoUser},
   appliedBy : Users \cup {NoUser}, cooled : BOOLEAN, appliedAt : Nat]

NoChange == [state |-> "absent"]   \* a request nobody has made yet

\* The requests made so far.
Requested == {c \in Changes : change[c].state # "absent"}

\* Mutant: an approved change that is cooling no longer counts as unresolved.
PendingOnlyUnapproved(v) ==
  {c \in Requested : change[c].vendor = v /\ change[c].state = "pending_approval"}

\* pending_for_vendor: the unresolved changes of a vendor.
PendingFor(v) ==
  {c \in Requested : change[c].vendor = v /\ change[c].state \in OpenStates}

\* The details a change leaves behind where it found details d.
Overwrite(d, proposed) ==
  [f \in Fields |-> IF proposed[f] = NoValue THEN d[f] ELSE proposed[f]]

BankInit ==
  /\ change = [c \in Changes |-> NoChange]
  /\ now = 0

\* Mutant: the snapshot is taken after the proposal was laid over it.
RequestChangeLateSnapshot(u, c, v, proposed) ==
  /\ May(u, "vendors.manage")
  /\ OnFile(v)
  /\ PendingFor(v) = {}
  /\ Overwrite(account[v], proposed) # account[v]
  /\ c \notin Requested /\ \A d \in 1..(c-1) : d \in Requested
  /\ change' = [change EXCEPT ![c] =
       [state |-> "pending_approval", vendor |-> v,
        new |-> proposed, old |-> Overwrite(account[v], proposed),
        requestedBy |-> u, approvedBy |-> NoUser, appliedBy |-> NoUser,
        cooled |-> FALSE, appliedAt |-> 0]]
  /\ UNCHANGED <<account, now>>

RequestChange(u, c, v, proposed) ==
  /\ May(u, "vendors.manage")
  /\ OnFile(v)
  /\ PendingFor(v) = {}                     \* also a partial unique index
  /\ Overwrite(account[v], proposed) # account[v]
  /\ c \notin Requested /\ \A d \in 1..(c-1) : d \in Requested
  /\ change' = [change EXCEPT ![c] =
       [state |-> "pending_approval", vendor |-> v,
        new |-> proposed, old |-> account[v],
        requestedBy |-> u, approvedBy |-> NoUser, appliedBy |-> NoUser,
        cooled |-> FALSE, appliedAt |-> 0]]
  /\ UNCHANGED <<account, now>>

\* Approval starts the clock and leaves the vendor alone.
ApproveChange(u, c) ==
  /\ May(u, "vendors.approve_bank_change")
  /\ change[c].state = "pending_approval"
  /\ ~ViolatesSelfBankChangeApproval(change[c].requestedBy, u)
  /\ OnFile(change[c].vendor)
  /\ change' = [change EXCEPT ![c].state = "approved", ![c].approvedBy = u]
  /\ UNCHANGED <<account, now>>

\* effective_at passes.
CoolingEnds(c) ==
  /\ change[c].state = "approved" /\ ~change[c].cooled
  /\ change' = [change EXCEPT ![c].cooled = TRUE]
  /\ UNCHANGED <<account, now>>

ApplyChange(u, c) ==
  LET v == change[c].vendor IN
  /\ May(u, "vendors.manage")
  /\ change[c].state = "approved" /\ change[c].cooled
  /\ OnFile(v)
  /\ account' = [account EXCEPT ![v] = Overwrite(@, change[c].new)]
  /\ change' = [change EXCEPT ![c].state = "effective", ![c].appliedBy = u,
                              ![c].appliedAt = now + 1]
  /\ now' = now + 1

RejectChange(u, c) ==
  /\ May(u, "vendors.approve_bank_change")
  /\ c \in Requested /\ change[c].state \in OpenStates
  /\ change' = [change EXCEPT ![c].state = "rejected"]
  /\ UNCHANGED <<account, now>>

CancelChange(u, c) ==
  /\ May(u, "vendors.manage")
  /\ c \in Requested /\ change[c].state \in OpenStates
  /\ change' = [change EXCEPT ![c].state = "cancelled"]
  /\ UNCHANGED <<account, now>>

BankStep ==
  \E c \in Changes :
    \/ CoolingEnds(c)
    \/ \E u \in Users :
         \/ \E v \in Vendors, p \in Proposals : RequestChange(u, c, v, p)
         \/ ApproveChange(u, c) \/ ApplyChange(u, c)
         \/ RejectChange(u, c)  \/ CancelChange(u, c)

-----------------------------------------------------------------------------
EffectiveChanges(v) ==
  {c \in Changes : change[c].state = "effective" /\ change[c].vendor = v}

LatestChanges(v) ==
  {c \in EffectiveChanges(v) :
     \A d \in EffectiveChanges(v) : change[d].appliedAt <= change[c].appliedAt}

BankTypeOK ==
  /\ venStatus \in [Vendors -> VendorStatus \cup {"absent", "withdrawn"}]
  /\ venCreator \in [Vendors -> Users \cup {NoUser}]
  /\ account \in [Vendors -> BankDetails]
  /\ change \in [Changes -> ChangeRecord \cup {NoChange}]
  /\ now \in Nat
  /\ lent \subseteq Users \X Users

\* The trail of a vendor's bank changes can be replayed: each applied change
\* found what the one before it left, and the vendor holds what the latest one
\* left.  The snapshot of the old details is taken when a change is requested
\* and the new ones are written when it is applied, days later, by another
\* request; the one-open-change rule is what keeps the snapshot true, of the
\* changes applied and of those still open.
Leaves(c) == Overwrite(change[c].old, change[c].new)

LaterThan(c) ==
  {d \in EffectiveChanges(change[c].vendor) : change[d].appliedAt > change[c].appliedAt}

Follows(c, d) ==
  d \in LaterThan(c) /\ \A e \in LaterThan(c) : change[d].appliedAt <= change[e].appliedAt

TrailReplays ==
  \A v \in Vendors :
    /\ \A c \in PendingFor(v) : change[c].old = account[v]
    /\ \A c \in LatestChanges(v) : account[v] = Leaves(c)
    /\ \A c, d \in EffectiveChanges(v) : Follows(c, d) => change[d].old = Leaves(c)

=============================================================================
