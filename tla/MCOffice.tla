------------------------------ MODULE MCOffice ------------------------------
(***************************************************************************)
(* The people and the settings: small instances of nine components that   *)
(* meet in nothing but the staff, in one state space.  A behaviour belongs *)
(* to one of them from its first state on, and the others stay as they     *)
(* are.                                                                    *)
(***************************************************************************)
EXTENDS OfficeInbox, SignIn, Configuration, OrgScope, ControlMatrices, Accounts, TLC

CONSTANTS mia, cy, ada, nobody,         \* a manager, a CFO, an administrator
          ea, eb, noe, c1, c2, h1,
          laptop, phone, paper, p1, s1, s2,
          unitA, unitB, unitC, unitD, nou

VARIABLE part

Office == {mia, cy, ada}
OfficeRoles == (mia :> "manager" @@ cy :> "cfo" @@ ada :> "admin")

\* eb is ea's manager.
Line == (ea :> eb @@ eb :> noe)

\* The people who decide are employees, as PeopleNext leads to it.
Hired == [e \in Employees |-> [status |-> "active", pay |-> 0,
                               login |-> IF e = ea THEN ada ELSE cy]]

\* Rules at one and at four units of money and a half, of two priorities.
RuleSpace ==
  [operator : {"greater_than", "greater_equal", "less_than", "less_equal", "equal"},
   amount_threshold : {2, 9}, priority : {0, 1}, required_role : {"cfo"}]

CfoStandsIn == {<<cy, mia>>}

Starts == {"people", "payroll", "claims", "hiring", "sign-in", "settings", "units",
           "matrices", "accounts"}

OfficeInit ==
  /\ part \in Starts
  /\ staff = IF part \in {"payroll", "claims", "hiring"} THEN Hired
                                                         ELSE [e \in Employees |-> NoPerson]
  /\ change = [c \in Changes |-> NoChange] /\ moved = [c \in Changes |-> 0]
  /\ claim = [c \in Claimed |-> NoClaim] /\ receipts = {}
  /\ hire = [h \in Hires |-> NoHire] /\ access = [e \in Employees |-> [f \in Flows |-> "none"]]
  /\ SignInInit /\ ConfigurationInit /\ OrgScopeInit
  /\ MatricesInit /\ AccountsInit({ada, cy})

Stays(own, state) == IF own THEN TRUE ELSE UNCHANGED state

\* The state of every part but this one stays as it is.
Only(name) ==
  /\ part = name /\ UNCHANGED part
  /\ Stays(name \in {"people", "payroll", "claims", "hiring"}, staff)
  /\ Stays(name = "payroll", <<change, moved>>)
  /\ Stays(name = "claims", <<claim, receipts>>)
  /\ Stays(name = "hiring", <<hire, access>>)
  /\ Stays(name = "sign-in", signVars)
  /\ Stays(name = "settings", configVars)
  /\ Stays(name = "units", orgVars)
  /\ Stays(name = "matrices", matrixVars)
  /\ Stays(name = "accounts", accountVars)

OfficeNext ==
  \/ Only("people") /\ PeopleNext
  \/ Only("payroll") /\ PayrollNext
  \/ Only("claims") /\ ClaimsNext
  \/ Only("hiring") /\ HiringNext
  \/ Only("sign-in") /\ SignInNext
  \/ Only("settings") /\ ConfigurationNext
  \/ Only("units") /\ OrgScopeNext
  \/ Only("matrices") /\ MatricesNext
  \/ Only("accounts") /\ AccountsNext

OfficeSpec ==
  OfficeInit /\ [][OfficeNext]_<<part, payVars, claimVars, hireVars, signVars, configVars,
                                 orgVars, matrixVars, accountVars>>

=============================================================================
