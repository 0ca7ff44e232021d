-------------------------- MODULE VendorBankProofs --------------------------
(***************************************************************************)
(* What every step on a vendor's record and bank details preserves, for    *)
(* any number of users, vendors, fields and change requests.               *)
(***************************************************************************)
EXTENDS VendorBank, TLAPS

\* A change request somebody made is a whole record.
LEMMA RequestedIsRecord ==
  ASSUME BankTypeOK, NEW c \in Changes, change[c].state # "absent"
  PROVE  change[c] \in ChangeRecord
BY DEF BankTypeOK, NoChange

\* Details laid over details are details.
LEMMA OverwriteType ==
  ASSUME NEW d \in BankDetails, NEW p \in BankDetails
  PROVE  Overwrite(d, p) \in BankDetails
BY DEF Overwrite, BankDetails

LEMMA BankInitType == VendorInit /\ BankInit /\ DelegationInit => BankTypeOK
BY DEF VendorInit, BankInit, DelegationInit, BankTypeOK, BankDetails

LEMMA VendorStepType ==
  ASSUME BankTypeOK, NEW u \in Users, NEW v \in Vendors, NEW L, UNCHANGED <<change, now, lent>>,
         \/ \E s \in Statuses : \/ \E d \in Accounts : CreateVendor(u, v, s, d)
                                \/ SetVendorStatus(u, v, s)
         \/ DeleteVendor(u, v, L)
  PROVE  BankTypeOK'
<1> USE AccountsAssumption, StatusesAssumption DEF BankTypeOK, VendorStatus
<1>1. CASE \E s \in Statuses, d \in Accounts : CreateVendor(u, v, s, d)
  BY <1>1 DEF CreateVendor
<1>2. CASE \E s \in Statuses : SetVendorStatus(u, v, s)
  BY <1>2 DEF SetVendorStatus, CanSetVendorStatus
<1>3. CASE DeleteVendor(u, v, L)
  BY <1>3 DEF DeleteVendor
<1> QED BY <1>1, <1>2, <1>3

LEMMA DelegationStepType ==
  ASSUME lent \subseteq Users \X Users, DelegationNext
  PROVE  lent' \subseteq Users \X Users
BY DelegationPairsAssumption
   DEF DelegationNext, GrantDelegation, RevokeDelegation, DelegationExpires

\* Requests are filed and decided as whole records, and the vendor's details
\* stay whole: only applying a change writes them, and never a NULL over a
\* value.
LEMMA BankStepType ==
  ASSUME BankTypeOK, BankStep, UNCHANGED <<venStatus, venCreator, lent>>
  PROVE  BankTypeOK'
<1>1. PICK c \in Changes : 
        \/ CoolingEnds(c)
        \/ \E u \in Users :
             \/ \E v \in Vendors, p \in Proposals : RequestChange(u, c, v, p)
             \/ ApproveChange(u, c) \/ ApplyChange(u, c)
             \/ RejectChange(u, c)  \/ CancelChange(u, c)
  BY DEF BankStep
<1> SUFFICES /\ account' \in [Vendors -> BankDetails]
             /\ change' \in [Changes -> ChangeRecord \cup {NoChange}]
             /\ now' \in Nat
  BY DEF BankTypeOK
<1>2. CASE CoolingEnds(c)
  <2>1. change[c] \in ChangeRecord
    BY <1>2, RequestedIsRecord DEF CoolingEnds
  <2>2. [change[c] EXCEPT !.cooled = TRUE] \in ChangeRecord
    BY <2>1 DEF ChangeRecord
  <2> QED BY <1>2, <2>2 DEF CoolingEnds, BankTypeOK
<1>3. ASSUME NEW u \in Users, NEW v \in Vendors, NEW p \in Proposals,
             RequestChange(u, c, v, p)
      PROVE  /\ change' \in [Changes -> ChangeRecord \cup {NoChange}]
             /\ UNCHANGED <<account, now>>
  BY <1>3, ProposalsAssumption
     DEF RequestChange, BankTypeOK, ChangeRecord, ChangeStates
<1>4. ASSUME NEW u \in Users, ApproveChange(u, c)
      PROVE  /\ change' \in [Changes -> ChangeRecord \cup {NoChange}]
             /\ UNCHANGED <<account, now>>
  <2>1. change[c] \in ChangeRecord
    BY <1>4, RequestedIsRecord DEF ApproveChange
  <2>2. [change[c] EXCEPT !.state = "approved", !.approvedBy = u] \in ChangeRecord
    BY <2>1 DEF ChangeRecord, ChangeStates
  <2> QED BY <1>4, <2>2 DEF ApproveChange, BankTypeOK
<1>5. ASSUME NEW u \in Users, ApplyChange(u, c)
      PROVE  /\ account' \in [Vendors -> BankDetails]
             /\ change' \in [Changes -> ChangeRecord \cup {NoChange}]
             /\ now' \in Nat
  <2>1. change[c] \in ChangeRecord
    BY <1>5, RequestedIsRecord DEF ApplyChange
  <2>2. now + 1 \in Nat
    BY DEF BankTypeOK
  <2>3. [change[c] EXCEPT !.state = "effective", !.appliedBy = u, !.appliedAt = now + 1]
          \in ChangeRecord
    BY <2>1, <2>2 DEF ChangeRecord, ChangeStates
  <2>4. Overwrite(account[change[c].vendor], change[c].new) \in BankDetails
    BY <2>1, OverwriteType DEF ChangeRecord, BankTypeOK
  <2>5. account' \in [Vendors -> BankDetails]
    BY <1>5, <2>4 DEF ApplyChange, BankTypeOK
  <2>6. change' \in [Changes -> ChangeRecord \cup {NoChange}]
    BY <1>5, <2>3 DEF ApplyChange, BankTypeOK
  <2> QED BY <1>5, <2>2, <2>5, <2>6 DEF ApplyChange
<1>6. ASSUME NEW u \in Users, RejectChange(u, c) \/ CancelChange(u, c)
      PROVE  /\ change' \in [Changes -> ChangeRecord \cup {NoChange}]
             /\ UNCHANGED <<account, now>>
  <2>1. change[c] \in ChangeRecord
    BY <1>6, RequestedIsRecord DEF RejectChange, CancelChange, Requested
  <2>2. \A s \in ChangeStates : [change[c] EXCEPT !.state = s] \in ChangeRecord
    BY <2>1 DEF ChangeRecord
  <2> QED BY <1>6, <2>2 DEF RejectChange, CancelChange, ChangeStates, BankTypeOK
<1> QED BY <1>1, <1>2, <1>3, <1>4, <1>5, <1>6 DEF BankTypeOK

-----------------------------------------------------------------------------
(* The trail.                                                              *)

\* Why the trail replays: at most one change of a vendor is open, so nothing
\* is applied between a request and its own application; changes are asked of
\* vendors on file, whose details only changes write; and time moves forward.
OneOpen == \A c, d \in Requested :
  /\ change[c].state \in OpenStates /\ change[d].state \in OpenStates
  /\ change[c].vendor = change[d].vendor
  => c = d

AskedOfKnownVendors == \A c \in Requested : venStatus[change[c].vendor] # "absent"

AppliedBefore == \A c \in Changes : change[c].state = "effective" => change[c].appliedAt <= now

TrailInv == OneOpen /\ AskedOfKnownVendors /\ AppliedBefore /\ TrailReplays

LEMMA TrailInit == VendorInit /\ BankInit => TrailInv
BY DEF VendorInit, BankInit, NoChange, TrailInv, OneOpen, AskedOfKnownVendors, AppliedBefore,
       TrailReplays, Requested, PendingFor, EffectiveChanges, LatestChanges

\* A step that applies nothing: no change becomes effective, what is open was
\* open before or finds the vendor's details as they are.
LEMMA TrailKept ==
  ASSUME TrailInv, BankTypeOK, now' \in Nat, now' >= now,
         \A c \in Changes : change[c].state = "effective" => change'[c] = change[c],
         \A c \in Changes : change'[c].state = "effective" => change'[c] = change[c],
         \A c \in Requested' : account'[change'[c].vendor] = account[change'[c].vendor],
         \A c \in Changes : change'[c].state \in OpenStates =>
           \/ /\ change[c].state \in OpenStates
              /\ change'[c].vendor = change[c].vendor /\ change'[c].old = change[c].old
           \/ change'[c].old = account[change'[c].vendor],
         OneOpen', AskedOfKnownVendors'
  PROVE  TrailInv'
<1>1. AppliedBefore'
  BY DEF TrailInv, AppliedBefore, BankTypeOK, ChangeRecord, NoChange
<1>2. \A v \in Vendors : EffectiveChanges(v)' = EffectiveChanges(v)
  BY DEF EffectiveChanges
<1>3. TrailReplays'
  <2> SUFFICES ASSUME NEW v \in Vendors
               PROVE  /\ \A c \in PendingFor(v)' : change'[c].old = account'[v]
                      /\ \A c \in LatestChanges(v)' : account'[v] = Leaves(c)'
                      /\ \A c, d \in EffectiveChanges(v)' :
                           Follows(c, d)' => change'[d].old = Leaves(c)'
    BY DEF TrailReplays
  <2>1. \A c \in EffectiveChanges(v) :
          /\ change'[c] = change[c] /\ change[c].vendor = v
          /\ Leaves(c)' = Leaves(c) /\ account'[v] = account[v]
    BY DEF EffectiveChanges, Leaves, Requested
  <2>2. LatestChanges(v)' = LatestChanges(v)
    BY <1>2, <2>1 DEF LatestChanges
  <2>3. \A c \in EffectiveChanges(v) : LaterThan(c)' = LaterThan(c)
    BY <1>2, <2>1 DEF LaterThan
  <2>4. \A c, d \in EffectiveChanges(v) : Follows(c, d)' => Follows(c, d)
    BY <1>2, <2>1, <2>3 DEF Follows, LaterThan
  <2>5. \A c \in LatestChanges(v)' : account'[v] = Leaves(c)'
    BY <2>1, <2>2 DEF TrailInv, TrailReplays, LatestChanges
  <2>6. \A c, d \in EffectiveChanges(v)' : Follows(c, d)' => change'[d].old = Leaves(c)'
    BY <1>2, <2>1, <2>4 DEF TrailInv, TrailReplays
  <2>7. \A c \in PendingFor(v)' : change'[c].old = account'[v]
    BY DEF TrailInv, TrailReplays, PendingFor, Requested, OpenStates
  <2> QED BY <2>5, <2>6, <2>7
<1> QED BY <1>1, <1>3 DEF TrailInv

\* Applying the one open change of a vendor: it found what was there when it
\* was requested, and it is now the latest.
LEMMA ApplyKeepsTrail ==
  ASSUME TrailInv, BankTypeOK, NEW u \in Users, NEW c \in Changes, ApplyChange(u, c),
         UNCHANGED venStatus
  PROVE  TrailInv'
<1> DEFINE w == change[c].vendor
<1>1. change[c] \in ChangeRecord /\ w \in Vendors
  BY RequestedIsRecord DEF ApplyChange, ChangeRecord
<1>2. now \in Nat /\ now' = now + 1
  BY DEF ApplyChange, BankTypeOK
<1>3. /\ change'[c].state = "effective" /\ change'[c].appliedAt = now + 1
      /\ change'[c].vendor = w
      /\ change'[c].old = change[c].old /\ change'[c].new = change[c].new
      /\ \A d \in Changes : d # c => change'[d] = change[d]
  BY <1>1 DEF ApplyChange, BankTypeOK, ChangeRecord
<1>4. change[c].state = "approved" /\ c \in Requested
  BY DEF ApplyChange, Requested
<1>5. /\ account'[w] = Overwrite(account[w], change[c].new)
      /\ \A v \in Vendors : v # w => account'[v] = account[v]
  BY <1>1 DEF ApplyChange, BankTypeOK
<1>6. c \in PendingFor(w) /\ change[c].old = account[w]
  BY <1>1, <1>4 DEF PendingFor, OpenStates, TrailInv, TrailReplays
<1>7. OneOpen'
  BY <1>3 DEF TrailInv, OneOpen, Requested, OpenStates
<1>8. AskedOfKnownVendors'
  BY <1>3, <1>4 DEF TrailInv, AskedOfKnownVendors, Requested
<1>9. AppliedBefore'
  BY <1>2, <1>3 DEF TrailInv, AppliedBefore, BankTypeOK, ChangeRecord, NoChange
<1>10. \A v \in Vendors :
         EffectiveChanges(v)' = IF v = w THEN EffectiveChanges(v) \cup {c} ELSE EffectiveChanges(v)
  BY <1>3, <1>4 DEF EffectiveChanges
<1>11. \A v \in Vendors : \A d \in EffectiveChanges(v) :
         /\ d # c /\ d \in Changes /\ change'[d] = change[d] /\ change[d].vendor = v
         /\ Leaves(d)' = Leaves(d)
         /\ change[d].appliedAt \in Nat /\ change[d].appliedAt <= now
  BY <1>3, <1>4 DEF EffectiveChanges, Leaves, TrailInv, AppliedBefore, BankTypeOK, ChangeRecord, NoChange
<1>12. \A v \in Vendors, d \in Changes : d \in PendingFor(v)' => d # c /\ d \in PendingFor(v) /\ v # w
  BY <1>3, <1>6 DEF PendingFor, Requested, OpenStates, TrailInv, OneOpen
<1>13. Leaves(c)' = account'[w]
  BY <1>3, <1>5, <1>6 DEF Leaves
<1>14. \A v \in Vendors, d, e \in Changes :
           d \in EffectiveChanges(v) /\ e \in EffectiveChanges(v) /\ Follows(d, e)' => Follows(d, e)
  <2> SUFFICES ASSUME NEW v \in Vendors, NEW d \in EffectiveChanges(v), NEW e \in EffectiveChanges(v),
                      Follows(d, e)'
               PROVE  Follows(d, e)
    BY DEF EffectiveChanges
  <2>1. \A f \in LaterThan(d) : f \in LaterThan(d)' /\ change'[f] = change[f]
    BY <1>10, <1>11 DEF LaterThan
  <2>2. e \in LaterThan(d)
    BY <1>11 DEF Follows, LaterThan
  <2> QED BY <1>11, <2>1, <2>2 DEF Follows
<1>15. TrailReplays'
  <2> SUFFICES ASSUME NEW v \in Vendors
               PROVE  /\ \A d \in PendingFor(v)' : change'[d].old = account'[v]
                      /\ \A d \in LatestChanges(v)' : account'[v] = Leaves(d)'
                      /\ \A d, e \in EffectiveChanges(v)' :
                           Follows(d, e)' => change'[e].old = Leaves(d)'
    BY DEF TrailReplays
  <2>1. \A d \in PendingFor(v)' : change'[d].old = account'[v]
    BY <1>3, <1>5, <1>12 DEF TrailInv, TrailReplays, PendingFor, Requested
  <2>2. CASE v # w
    <3>1. \A d \in LatestChanges(v)' : d \in LatestChanges(v) /\ Leaves(d)' = Leaves(d)
      BY <2>2, <1>10, <1>11 DEF LatestChanges
    <3>2. \A d, e \in EffectiveChanges(v)' : Follows(d, e)' => change'[e].old = Leaves(d)'
      BY <2>2, <1>10, <1>11, <1>14 DEF TrailInv, TrailReplays, EffectiveChanges
    <3> QED BY <2>1, <2>2, <3>1, <3>2, <1>5 DEF TrailInv, TrailReplays
  <2>3. CASE v = w
    <3>1. \A d \in LatestChanges(v)' : d = c
      BY <2>3, <1>2, <1>3, <1>10, <1>11 DEF LatestChanges
    <3>2. \A d \in EffectiveChanges(v)' : Follows(d, c)' => change'[c].old = Leaves(d)'
      <4> SUFFICES ASSUME NEW d \in EffectiveChanges(v)', Follows(d, c)'
                   PROVE  change'[c].old = Leaves(d)'
        OBVIOUS
      <4>1. d # c /\ d \in EffectiveChanges(v)
        BY <2>3, <1>2, <1>3, <1>10 DEF Follows, LaterThan
      <4>2. \A e \in EffectiveChanges(v) : ~(change[e].appliedAt > change[d].appliedAt)
        <5> SUFFICES ASSUME NEW e \in EffectiveChanges(v), change[e].appliedAt > change[d].appliedAt
                     PROVE  FALSE
          OBVIOUS
        <5>1. e \in LaterThan(d)'
          BY <4>1, <2>3, <1>10, <1>11 DEF LaterThan
        <5>2. change'[c].appliedAt <= change'[e].appliedAt
          BY <5>1 DEF Follows
        <5> QED BY <5>2, <1>2, <1>3, <1>11, <2>3
      <4>3. d \in LatestChanges(v)
        BY <4>1, <4>2, <1>11 DEF LatestChanges
      <4> QED BY <4>1, <4>3, <2>3, <1>3, <1>6, <1>11 DEF TrailInv, TrailReplays
    <3>3. \A d \in Changes : ~Follows(c, d)'
      <4> SUFFICES ASSUME NEW d \in Changes, Follows(c, d)' PROVE FALSE
        OBVIOUS
      <4>1. d \in EffectiveChanges(v)' /\ change'[d].appliedAt > change'[c].appliedAt
        BY <2>3, <1>3 DEF Follows, LaterThan
      <4> QED BY <4>1, <2>3, <1>2, <1>3, <1>10, <1>11
    <3>4. \A d, e \in EffectiveChanges(v)' : Follows(d, e)' => change'[e].old = Leaves(d)'
      BY <3>2, <3>3, <2>3, <1>10, <1>11, <1>14 DEF TrailInv, TrailReplays, EffectiveChanges
    <3> QED BY <2>1, <2>3, <3>1, <3>4, <1>13
  <2> QED BY <2>2, <2>3
<1> QED BY <1>7, <1>8, <1>9, <1>15 DEF TrailInv

LEMMA TrailBankStep ==
  ASSUME TrailInv, BankTypeOK, BankStep, UNCHANGED venStatus
  PROVE  TrailInv'
<1>1. PICK c \in Changes :
        \/ CoolingEnds(c)
        \/ \E u \in Users :
             \/ \E v \in Vendors, p \in Proposals : RequestChange(u, c, v, p)
             \/ ApproveChange(u, c) \/ ApplyChange(u, c)
             \/ RejectChange(u, c)  \/ CancelChange(u, c)
  BY DEF BankStep
<1>2. ASSUME NEW u \in Users, NEW v \in Vendors, NEW p \in Proposals, RequestChange(u, c, v, p)
      PROVE  TrailInv'
  <2>1. /\ change'[c].state = "pending_approval" /\ change'[c].vendor = v
        /\ change'[c].old = account[v]
        /\ \A d \in Changes : d # c => change'[d] = change[d]
        /\ change[c].state = "absent"
    BY <1>2 DEF RequestChange, BankTypeOK, Requested
  <2>2. OneOpen'
    BY <1>2, <2>1 DEF RequestChange, PendingFor, TrailInv, OneOpen, Requested
  <2>3. AskedOfKnownVendors'
    BY <1>2, <2>1 DEF RequestChange, OnFile, VendorStatus, TrailInv, AskedOfKnownVendors, Requested
  <2> QED BY <1>2, <2>1, <2>2, <2>3, TrailKept DEF RequestChange, BankTypeOK
<1>3. ASSUME CoolingEnds(c) \/ \E u \in Users : ApproveChange(u, c) \/ RejectChange(u, c) \/ CancelChange(u, c)
      PROVE  TrailInv'
  <2>1. /\ change'[c].state \in {"approved", "rejected", "cancelled"}
        /\ change[c].state \in OpenStates
        /\ change'[c].vendor = change[c].vendor /\ change'[c].old = change[c].old
        /\ \A d \in Changes : d # c => change'[d] = change[d]
        /\ UNCHANGED <<account, now>>
    <3>1. change[c] \in ChangeRecord
      BY <1>3, RequestedIsRecord
         DEF CoolingEnds, ApproveChange, RejectChange, CancelChange, Requested
    <3> QED BY <1>3, <3>1
        DEF CoolingEnds, ApproveChange, RejectChange, CancelChange, BankTypeOK, OpenStates, ChangeRecord
  <2>2. OneOpen' /\ AskedOfKnownVendors'
    BY <2>1 DEF TrailInv, OneOpen, AskedOfKnownVendors, Requested, OpenStates
  <2> QED BY <2>1, <2>2, TrailKept DEF BankTypeOK, OpenStates
<1> QED BY <1>1, <1>2, <1>3, ApplyKeepsTrail

\* Steps that leave the change requests alone.
LEMMA TrailFrame ==
  ASSUME TrailInv, BankTypeOK, UNCHANGED change, now' \in Nat, now' >= now,
         \A v \in Vendors : venStatus[v] # "absent" => /\ venStatus'[v] # "absent"
                                                       /\ account'[v] = account[v]
  PROVE  TrailInv'
<1>1. \A c \in Requested : change[c].vendor \in Vendors
  BY RequestedIsRecord DEF Requested, ChangeRecord
<1>2. OneOpen' /\ AskedOfKnownVendors'
  BY <1>1 DEF TrailInv, OneOpen, AskedOfKnownVendors, Requested
<1>3. \A c \in Requested' : account'[change'[c].vendor] = account[change'[c].vendor]
  BY <1>1 DEF TrailInv, AskedOfKnownVendors, Requested
<1> QED BY <1>2, <1>3, TrailKept

LEMMA VendorStepOnFile ==
  ASSUME BankTypeOK, NEW u \in Users, NEW w \in Vendors, NEW L,
         \/ \E s \in Statuses : \/ \E d \in Accounts : CreateVendor(u, w, s, d)
                                \/ SetVendorStatus(u, w, s)
         \/ DeleteVendor(u, w, L)
  PROVE  \A v \in Vendors : venStatus[v] # "absent" => /\ venStatus'[v] # "absent"
                                                       /\ account'[v] = account[v]
BY StatusesAssumption DEF BankTypeOK, CreateVendor, SetVendorStatus, CanSetVendorStatus, DeleteVendor

=============================================================================
