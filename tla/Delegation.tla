----------------------------- MODULE Delegation -----------------------------
(***************************************************************************)
(* Delegation of authority (app/services/delegation.py): a user lends the  *)
(* authority of the own role to another for a bounded window.              *)
(*                                                                         *)
(* lent is the set of <<from, to>> pairs whose window is open now and that *)
(* nobody revoked; a row whose window has not opened, or has closed, lends *)
(* nothing.  The overlap rule keeps at most one live row per pair.         *)
(***************************************************************************)
EXTENDS Governance

CONSTANT DelegationPairs   \* bound: the pairs that delegations are made for
VARIABLE lent

ASSUME DelegationPairsAssumption ==
  DelegationPairs \subseteq {p \in Users \X Users : p[1] # p[2]}

DelegationInit == lent = {}

\* create(): your own authority, or another's if you manage users.
GrantDelegation(u, p) ==
  /\ u = p[1] \/ May(u, "users.manage")
  /\ p \notin lent
  /\ lent' = lent \cup {p}

\* revoke(), by the delegator or a user manager.
RevokeDelegation(u, p) ==
  /\ u = p[1] \/ May(u, "users.manage")
  /\ p \in lent
  /\ lent' = lent \ {p}

\* ends_at passes.
DelegationExpires(p) ==
  /\ p \in lent
  /\ lent' = lent \ {p}

DelegationNext ==
  \E p \in DelegationPairs :
    \/ \E u \in Users : GrantDelegation(u, p) \/ RevokeDelegation(u, p)
    \/ DelegationExpires(p)

-----------------------------------------------------------------------------
\* The own role and every role borrowed.  What is borrowed is the delegator's
\* own role, so authority is never lent on.
EffectiveRoles(u) == {RoleOf[u]} \cup {RoleOf[p[1]] : p \in {q \in lent : q[2] = u}}

ResolvePermission(u, perm) == \E r \in EffectiveRoles(u) : HasPermission(r, perm)

ResolveAuthority(u, required) ==
  \E r \in EffectiveRoles(u) : r \in {"admin", required}

=============================================================================
