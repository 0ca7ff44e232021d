------------------------------- MODULE Accounts -------------------------------
(***************************************************************************)
(* Who holds which role (app/api/users.py).  A change of role is decided   *)
(* on what the request read of its caller, of the account it changes and   *)
(* of the other administrators, and written after that: requests overlap.  *)
(***************************************************************************)
EXTENDS Governance, Integers

CONSTANTS GivenRoles,   \* bound: the roles that requests hand out
          Requests,     \* bound: the requests in flight at once
          MaxBump       \* bound: the token versions of an account

ASSUME AccountsAssumption == GivenRoles \subseteq Roles /\ MaxBump \in Nat

VARIABLES held,          \* the role of each account, or "none"
          tokenVersion,
          roleRequest    \* what each request in flight has read

accountVars == <<held, tokenVersion, roleRequest>>

NoRoleRequest == [step |-> "idle"]

AccountsInit(founders) ==
  /\ held = [u \in Users |-> IF u \in founders THEN "admin" ELSE "none"]
  /\ tokenVersion = [u \in Users |-> 0]
  /\ roleRequest = [s \in Requests |-> NoRoleRequest]

Admins == {u \in Users : held[u] = "admin"}

ManagesUsers(u) == held[u] # "none" /\ HasPermission(held[u], "users.manage")

CreateUser(u, v, role) ==
  /\ ManagesUsers(u)
  /\ held[v] = "none"
  /\ held' = [held EXCEPT ![v] = role]
  /\ UNCHANGED <<tokenVersion, roleRequest>>

\* get_current_user reads the role live, once.
AuthoriseRequest(s, u) ==
  /\ roleRequest[s] = NoRoleRequest
  /\ ManagesUsers(u)
  /\ roleRequest' = [roleRequest EXCEPT ![s] = [step |-> "authorised", by |-> u]]
  /\ UNCHANGED <<held, tokenVersion>>

\* Mutant: the last administrator may go.
CheckAnyRoleChange(s, v, role) ==
  LET r == roleRequest[s] IN
  /\ r.step = "authorised" /\ r.by # v
  /\ held[v] \notin {"none", role} /\ tokenVersion[v] < MaxBump
  /\ roleRequest' = [roleRequest EXCEPT ![s] =
       [step |-> "checked", by |-> r.by, of |-> v, from |-> held[v], to |-> role,
        read |-> tokenVersion[v], others |-> Admins \ {v}]]
  /\ UNCHANGED <<held, tokenVersion>>

\* The account is another's and would change, and an administrator leaves
\* another behind.
CheckRoleChange(s, v, role) ==
  LET r == roleRequest[s] IN
  /\ r.step = "authorised" /\ r.by # v
  /\ held[v] \notin {"none", role} /\ tokenVersion[v] < MaxBump
  /\ held[v] = "admin" => Admins \ {v} # {}
  /\ roleRequest' = [roleRequest EXCEPT ![s] =
       [step |-> "checked", by |-> r.by, of |-> v, from |-> held[v], to |-> role,
        read |-> tokenVersion[v], others |-> Admins \ {v}]]
  /\ UNCHANGED <<held, tokenVersion>>

\* The tokens of the account end with its role.
CommitRoleChange(s) ==
  LET r == roleRequest[s] IN
  /\ r.step = "checked"
  /\ held' = [held EXCEPT ![r.of] = r.to]
  /\ tokenVersion' = [tokenVersion EXCEPT ![r.of] = r.read + 1]
  /\ roleRequest' = [roleRequest EXCEPT ![s] = NoRoleRequest]

\* Refused, at any point.
DropRoleChange(s) ==
  /\ roleRequest[s] # NoRoleRequest
  /\ roleRequest' = [roleRequest EXCEPT ![s] = NoRoleRequest]
  /\ UNCHANGED <<held, tokenVersion>>

AccountsNext ==
  \/ \E u, v \in Users, role \in GivenRoles : CreateUser(u, v, role)
  \/ \E s \in Requests :
       \/ \E u \in Users : AuthoriseRequest(s, u)
       \/ \E v \in Users, role \in GivenRoles : CheckRoleChange(s, v, role)
       \/ CommitRoleChange(s) \/ DropRoleChange(s)

AccountsSpec ==
  (\E founders \in SUBSET Users : AccountsInit(founders)) /\ [][AccountsNext]_accountVars

-----------------------------------------------------------------------------
(* Properties.                                                             *)

LetIn == [step : {"authorised"}, by : Users]
Decided == [step : {"checked"}, by : Users, of : Users, from : Roles, to : GivenRoles,
            read : 0 .. MaxBump - 1, others : SUBSET Users]

\* Accounts and requests hold values of their kind.
AccountsTypeOK ==
  /\ held \in [Users -> Roles \cup {"none"}]
  /\ tokenVersion \in [Users -> 0 .. MaxBump]
  /\ roleRequest \in [Requests -> {NoRoleRequest} \cup LetIn \cup Decided]

\* A request that has been decided and would demote an administrator.
Demotes(s) ==
  /\ roleRequest[s].step = "checked"
  /\ held[roleRequest[s].of] = "admin" /\ roleRequest[s].to # "admin"

\* There was no administrator when the request looked.
LookedAtNone(s) == roleRequest[s].from # "admin" /\ roleRequest[s].others = {}

\* users.py:129-135: the tenant does not end up with nobody who can administer
\* it.  A request takes the last administrator only if it overlaps: one that it
\* counted on was demoted since, or there was none and the account became one.
LastAdminOnlyByRace ==
  \A s \in Requests :
    Demotes(s) /\ Admins = {roleRequest[s].of} =>
      LookedAtNone(s) \/ \E u \in roleRequest[s].others : held[u] # "admin"

=============================================================================
