---------------------------- MODULE Configuration ---------------------------
(***************************************************************************)
(* What a tenant may configure, and its history (config_versioning.py):    *)
(* approval policies (policy_service.py), and the singletons - the         *)
(* workflow, the Autopilot settings and the match tolerance - each one     *)
(* value.  Every change of a policy alerts the watchlist                   *)
(* (watchlist_service.py).                                                 *)
(*                                                                         *)
(* A change of a policy runs in a session: it loads the policy, later it   *)
(* writes the columns it changes, and a snapshot of the policy as loaded   *)
(* and changed, under the next version of those committed by then.         *)
(***************************************************************************)
EXTENDS Governance, Sequences, FiniteSets

CONSTANTS Policies, Rules,
          Singletons,         \* those of the three that are looked at
          Shapes,             \* what a singleton may be set to
          Sessions,
          MaxVersions         \* bound: versions of one object

ASSUME ConfigurationAssumption ==
  /\ MaxVersions \in Nat
  /\ Singletons \subseteq {"workflow", "autopilot", "match_tolerance"}
  /\ Policies \cap Singletons = {}

VARIABLES policy,      \* rule, is_active and deleted_at of each policy
          value,       \* of each singleton
          history,     \* the versions of each object: action and snapshot
          alerts,      \* policy, version, actor and reviewer
          session,
          overtaken,   \* history: policies whose last change was loaded before another
          refused      \* history: policies a restore of which failed

configVars == <<policy, value, history, alerts, session, overtaken, refused>>

NoPolicy == [state |-> "none"]
Idle == [of |-> "idle"]

\* initialize_defaults has run: the policies it seeds are not among these, the
\* workflow has no version, the others are at their built-in defaults.
ConfigurationInit ==
  /\ policy = [p \in Policies |-> NoPolicy]
  /\ value = [k \in Singletons |-> "default"]
  /\ history = [o \in Policies \cup Singletons |-> <<>>]
  /\ alerts = {}
  /\ session = [s \in Sessions |-> Idle]
  /\ overtaken = {} /\ refused = {}

Entry(action, snapshot) == [action |-> action, snapshot |-> snapshot]

\* record_version.
Recorded(o, action, snapshot) ==
  /\ Len(history[o]) < MaxVersions
  /\ history' = [history EXCEPT ![o] = Append(@, Entry(action, snapshot))]

Alert(p, u) ==
  alerts' = alerts \cup {[of |-> p, version |-> Len(history[p]) + 1, actor |-> u,
                          reviewer |-> NoUser]}

CreatePolicy(u, p, rule) ==
  /\ May(u, "policies.manage")
  /\ policy[p] = NoPolicy
  /\ LET new == [state |-> "live", rule |-> rule, active |-> TRUE]
     IN  policy' = [policy EXCEPT ![p] = new] /\ Recorded(p, "created", new)
  /\ Alert(p, u)
  /\ UNCHANGED <<value, session, overtaken, refused>>

\* The soft-delete filter hides a withdrawn policy.
Loads(s, u, p, change) ==
  /\ May(u, "policies.manage")
  /\ session[s] = Idle
  /\ policy[p].state = "live"
  /\ session' = [session EXCEPT ![s] = [of |-> p, by |-> u, loaded |-> policy[p], set |-> change]]
  /\ UNCHANGED <<policy, value, history, alerts, overtaken, refused>>

LoadForUpdate(s, u, p) ==
  \/ \E rule \in Rules : Loads(s, u, p, [rule |-> rule])
  \/ \E active \in BOOLEAN : Loads(s, u, p, [active |-> active])

LoadForDelete(s, u, p) == Loads(s, u, p, [state |-> "withdrawn"])

\* The record r with the fields of c put over it.
Over(r, c) == [f \in DOMAIN r |-> IF f \in DOMAIN c THEN c[f] ELSE r[f]]

Ends(s) == session' = [session EXCEPT ![s] = Idle]

\* Whether the policy is still what session s loaded.
Overtakes(s) ==
  overtaken' = IF session[s].loaded = policy[session[s].of] THEN overtaken \ {session[s].of}
                                                            ELSE overtaken \cup {session[s].of}

\* Mutant: the snapshot is taken before the change.
CommitOldSnapshot(s) ==
  /\ session[s] # Idle
  /\ LET t == session[s]
     IN  /\ policy' = [policy EXCEPT ![t.of] = Over(@, t.set)]
         /\ Recorded(t.of, IF "state" \in DOMAIN t.set THEN "deleted" ELSE "updated", t.loaded)
         /\ Alert(t.of, t.by)
  /\ Overtakes(s) /\ Ends(s)
  /\ UNCHANGED <<value, refused>>

\* Mutant: an update alerts nobody.
CommitUnannounced(s) ==
  /\ session[s] # Idle
  /\ LET t == session[s]
     IN  /\ policy' = [policy EXCEPT ![t.of] = Over(@, t.set)]
         /\ Recorded(t.of, IF "state" \in DOMAIN t.set THEN "deleted" ELSE "updated",
                     Over(t.loaded, t.set))
  /\ Overtakes(s) /\ Ends(s)
  /\ UNCHANGED <<value, alerts, refused>>

\* The last snapshot of a deleted policy is of what it was.
CommitPolicy(s) ==
  /\ session[s] # Idle
  /\ LET t == session[s]
     IN  /\ policy' = [policy EXCEPT ![t.of] = Over(@, t.set)]
         /\ Recorded(t.of, IF "state" \in DOMAIN t.set THEN "deleted" ELSE "updated",
                     Over(t.loaded, t.set))
         /\ Alert(t.of, t.by)
  /\ Overtakes(s) /\ Ends(s)
  /\ UNCHANGED <<value, refused>>

\* The version is taken by another session, or the request dies.
AbortPolicy(s) ==
  /\ session[s] # Idle
  /\ Ends(s)
  /\ UNCHANGED <<policy, value, history, alerts, overtaken, refused>>

ManagesSingleton(u, k) ==
  May(u, IF k = "workflow" THEN "workflow.manage" ELSE "policies.manage")

\* update_transitions and update_sla, set_config, set.
UpdateSingleton(u, k, shape) ==
  /\ ManagesSingleton(u, k)
  /\ value' = [value EXCEPT ![k] = shape]
  /\ Recorded(k, "updated", shape)
  /\ UNCHANGED <<policy, alerts, session, overtaken, refused>>

\* Alerts nobody.  A withdrawn policy is not found, and the row that recreates
\* it meets the one that is still there.
RestorePolicy(u, p, n) ==
  /\ May(u, "policies.manage")
  /\ n \in DOMAIN history[p]
  /\ IF policy[p].state = "live"
       THEN LET old == [history[p][n].snapshot EXCEPT !.state = "live"]
            IN  /\ policy' = [policy EXCEPT ![p] = old]
                /\ Recorded(p, "restored", old)
                /\ overtaken' = overtaken \ {p}
                /\ UNCHANGED refused
       ELSE /\ refused' = refused \cup {p}
            /\ UNCHANGED <<policy, history, overtaken>>
  /\ UNCHANGED <<value, alerts, session>>

\* The match tolerance is of no type that restore knows.
RestoreSingleton(u, k, n) ==
  /\ ManagesSingleton(u, k)
  /\ n \in DOMAIN history[k] /\ k # "match_tolerance"
  /\ LET old == history[k][n].snapshot
     IN  value' = [value EXCEPT ![k] = old] /\ Recorded(k, "restored", old)
  /\ UNCHANGED <<policy, alerts, session, overtaken, refused>>

Watches(u) == RoleOf[u] \in {"admin", "cfo", "auditor"}

Acknowledge(u, a) ==
  /\ Watches(u)
  /\ a.reviewer = NoUser /\ a.actor # u
  /\ alerts' = (alerts \ {a}) \cup {[a EXCEPT !.reviewer = u]}
  /\ UNCHANGED <<policy, value, history, session, overtaken, refused>>

ConfigurationNext ==
  \/ \E u \in Users, p \in Policies :
       \/ \E rule \in Rules : CreatePolicy(u, p, rule)
       \/ \E s \in Sessions : LoadForUpdate(s, u, p) \/ LoadForDelete(s, u, p)
       \/ \E n \in 1 .. MaxVersions : RestorePolicy(u, p, n)
  \/ \E s \in Sessions : CommitPolicy(s) \/ AbortPolicy(s)
  \/ \E u \in Users, k \in Singletons :
       \/ \E shape \in Shapes : UpdateSingleton(u, k, shape)
       \/ \E n \in 1 .. MaxVersions : RestoreSingleton(u, k, n)
  \/ \E u \in Users, a \in alerts : Acknowledge(u, a)

ConfigurationSpec == ConfigurationInit /\ [][ConfigurationNext]_configVars

-----------------------------------------------------------------------------
(* Properties.                                                             *)

PolicyRecords == [state : {"live", "withdrawn"}, rule : Rules, active : BOOLEAN]
PolicyActions == {"created", "updated", "deleted", "restored"}
Edits == [rule : Rules] \cup [active : BOOLEAN] \cup [state : {"withdrawn"}]
OpenSessions == [of : Policies, by : Users, loaded : PolicyRecords, set : Edits]
AlertRecords == [of : Policies, version : 1 .. MaxVersions, actor : Users,
                 reviewer : Users \cup {NoUser}]

VersionsOK ==
  /\ \A p \in Policies : history[p] \in Seq([action : PolicyActions, snapshot : PolicyRecords])
  /\ \A k \in Singletons :
       history[k] \in Seq([action : {"updated", "restored"}, snapshot : Shapes])

\* Policies, settings, versions, alerts and sessions hold values of their kind.
ConfigurationTypeOK ==
  /\ policy \in [Policies -> PolicyRecords \cup {NoPolicy}]
  /\ value \in [Singletons -> Shapes \cup {"default"}]
  /\ DOMAIN history = Policies \cup Singletons /\ VersionsOK
  /\ alerts \subseteq AlertRecords
  /\ session \in [Sessions -> OpenSessions \cup {Idle}]
  /\ overtaken \subseteq Policies /\ refused \subseteq Policies

LastOf(o) == history[o][Len(history[o])]

\* config_versioning.py:3-8: the last version of an object is what the object
\* is, whatever was updated, restored or deleted in between, unless the policy
\* was changed after the last change of it had been loaded.
LiveIsLatest ==
  /\ \A p \in Policies \ overtaken : policy[p] # NoPolicy =>
       [LastOf(p).snapshot EXCEPT !.state = policy[p].state] = policy[p]
  /\ \A k \in Singletons : history[k] # <<>> => LastOf(k).snapshot = value[k]

\* watchlist_service.py:3-5 and 156-163: each creation, update and deletion of a
\* policy alerts once, and whoever made it does not review it.
ChangesReviewedByAnother ==
  /\ \A p \in Policies, n \in 1 .. MaxVersions :
       (n \in DOMAIN history[p] /\ history[p][n].action # "restored") =>
         Cardinality({a \in alerts : a.of = p /\ a.version = n}) = 1
  /\ \A a \in alerts : a.reviewer # a.actor

\* watchlist_service.py:1: tell the oversight role when the rules move.
EveryRuleChangeAlerts ==
  \A p \in Policies, n \in 1 .. MaxVersions :
    n \in DOMAIN history[p] => \E a \in alerts : a.of = p /\ a.version = n

\* config_versioning.py:197: the policy was deleted; recreate it under its
\* original id.
DeletedRestorable == refused = {}

=============================================================================
