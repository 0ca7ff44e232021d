------------------------------ MODULE OrgScope ------------------------------
(***************************************************************************)
(* Org units and what a user scoped to some of them may see                *)
(* (org_unit_service.py).  A unit grants itself and everything beneath it, *)
(* worked out on each request; a user without a unit sees the tenant.      *)
(***************************************************************************)
CONSTANTS Units, NoUnit,
          Viewers       \* the users who are given scopes

ASSUME OrgScopeAssumption == NoUnit \notin Units

VARIABLES parent,       \* of each unit that was created; units are never moved
          scopes        \* the units each user is assigned to

orgVars == <<parent, scopes>>

Existing == DOMAIN parent

OrgScopeInit ==
  /\ parent = [u \in {} |-> NoUnit]
  /\ scopes = [w \in Viewers |-> {}]

\* By an administrator; the parent is there already.
CreateUnit(u, p) ==
  /\ u \notin Existing
  /\ p \in Existing \cup {NoUnit}
  /\ parent' = [x \in Existing \cup {u} |-> IF x = u THEN p ELSE parent[x]]
  /\ UNCHANGED scopes

\* Assigning what is assigned does nothing.
Assign(w, u) ==
  /\ u \in Existing
  /\ scopes' = [scopes EXCEPT ![w] = @ \cup {u}]
  /\ UNCHANGED parent

Revoke(w, u) ==
  /\ u \in scopes[w]
  /\ scopes' = [scopes EXCEPT ![w] = @ \ {u}]
  /\ UNCHANGED parent

OrgScopeNext ==
  \/ \E u \in Units, p \in Units \cup {NoUnit} : CreateUnit(u, p)
  \/ \E w \in Viewers, u \in Units : Assign(w, u) \/ Revoke(w, u)

OrgScopeSpec == OrgScopeInit /\ [][OrgScopeNext]_orgVars

-----------------------------------------------------------------------------

Children(u) == {c \in Existing : parent[c] = u}

\* Mutant: the units right beneath the assigned ones.
OneLevel(roots) == roots \cup UNION {Children(u) : u \in roots}

\* Where a walk over the units is.  The stack is a set: the order in which units
\* are popped, and how often one was pushed, do not show in what is seen.
Places == [stack : SUBSET Existing, seen : SUBSET Existing]

\* One turn of the loop, with the unit that was popped.
Visit(at, current) ==
  IF current \in at.seen THEN [at EXCEPT !.stack = @ \ {current}]
  ELSE [stack |-> (at.stack \ {current}) \cup Children(current),
        seen  |-> at.seen \cup {current}]

\* _with_descendants.
WithDescendants(roots) ==
  LET Walk[at \in Places] ==
        IF at.stack = {} THEN at.seen ELSE Walk[Visit(at, CHOOSE x \in at.stack : TRUE)]
  IN  Walk[[stack |-> roots, seen |-> {}]]

Unrestricted(w) == scopes[w] = {}

\* effective_scope, and the filter of database.py: records of no unit are
\* everybody's.
Sees(w, unit) == Unrestricted(w) \/ unit = NoUnit \/ unit \in WithDescendants(scopes[w])

-----------------------------------------------------------------------------
(* Properties.                                                             *)

\* a is u, or above it: whatever set holds u, and with a unit its parent, holds a.
AtOrAbove(a, u) ==
  \A S \in SUBSET Existing :
    (u \in S /\ \A x \in S : parent[x] \in S \cup {NoUnit}) => a \in S

\* org_unit_service.py:6-15: what is seen is what has an assigned unit at or
\* above it, a unit created after the assignment included.
SeesWhatIsBeneath ==
  \A w \in Viewers, u \in Existing :
    Sees(w, u) <=> Unrestricted(w) \/ \E a \in scopes[w] : AtOrAbove(a, u)

=============================================================================
