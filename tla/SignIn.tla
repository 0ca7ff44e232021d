------------------------------- MODULE SignIn -------------------------------
(***************************************************************************)
(* One account: its sessions (api/auth.py) and its second factor           *)
(* (mfa_service.py, core/mfa.py).  A session is a token that carries the   *)
(* token_version it was issued under; a code of the authenticator is a     *)
(* secret and a time step.  A request that ends sessions reads the version *)
(* and later writes what it read plus one; the others are taken at once.   *)
(***************************************************************************)
EXTENDS Integers, FiniteSets

CONSTANTS Devices, RecoveryCodes,
          MAX_FAILED_ATTEMPTS,               \* five in the program
          MaxVersion, MaxSecrets, MaxClock,  \* bounds: endings, secrets, time steps
          MaxOpen                            \* bound: ending requests in flight

VALID_WINDOW == 1

ASSUME SignInAssumption ==
  /\ MAX_FAILED_ATTEMPTS \in Nat
  /\ MaxVersion \in Nat /\ MaxSecrets \in Nat /\ MaxClock \in Nat /\ MaxOpen \in Nat
  /\ IsFiniteSet(Devices) /\ RecoveryCodes \cap Nat = {}

VARIABLES version,    \* token_version
          token,      \* what each device holds: nothing, a challenge, or a version
          ended,      \* history: the devices whose token predates the last ending
          request,    \* the version read by each ending request in flight, or -1
          second,     \* mfa_enabled, the secret, mfa_last_timestep, the failures
          recovery,   \* the recovery codes not used
          clock,
          accepted    \* history: how often each code of each secret was accepted

signVars == <<version, token, ended, request, second, recovery, clock, accepted>>

None == -1
Challenge == -2
NoRequest == [read |-> -1, keeps |-> FALSE]

Off(failed) == [on |-> FALSE, secret |-> 0, last |-> None, failed |-> failed]

Codes == (0 .. MaxClock + VALID_WINDOW) \cup RecoveryCodes

SignInInit ==
  /\ version = 0 /\ clock = 0
  /\ token = [d \in Devices |-> None]
  /\ ended = {}
  /\ request = [d \in Devices |-> NoRequest]
  /\ second = Off(0)
  /\ recovery = {}
  /\ accepted = [s \in 1 .. MaxSecrets |-> [c \in Codes |-> 0]]

\* get_current_user.
Authorised(d) == token[d] = version

Holds(d, t) ==
  /\ token' = [token EXCEPT ![d] = t]
  /\ ended' = ended \ {d}

\* The password is right; a challenge is not a session.
Login(d) ==
  /\ request[d] = NoRequest
  /\ Holds(d, IF second.on THEN Challenge ELSE version)
  /\ UNCHANGED <<version, request, second, recovery, clock, accepted>>

\* The OAuth2 form, and refresh, mint a token under the present version.
TokenLogin(d) ==
  /\ request[d] = NoRequest
  /\ Holds(d, version)
  /\ UNCHANGED <<version, request, second, recovery, clock, accepted>>

\* Logout, and a password change, which hands its caller a new token.
BeginEnding(d, keeps) ==
  /\ Authorised(d) /\ request[d] = NoRequest
  /\ Cardinality({e \in Devices : request[e] # NoRequest}) < MaxOpen
  /\ version < MaxVersion
  /\ request' = [request EXCEPT ![d] = [read |-> version, keeps |-> keeps]]
  /\ UNCHANGED <<version, token, ended, second, recovery, clock, accepted>>

\* Mutant: the version is left as it was.
CommitEndingUnbumped(d) ==
  /\ request[d] # NoRequest
  /\ ended' = {e \in Devices : token[e] >= 0} \ (IF request[d].keeps THEN {d} ELSE {})
  /\ request' = [request EXCEPT ![d] = NoRequest]
  /\ UNCHANGED <<version, token, second, recovery, clock, accepted>>

CommitEnding(d) ==
  /\ request[d] # NoRequest
  /\ LET next == request[d].read + 1
     IN  /\ version' = next
         /\ token' = IF request[d].keeps THEN [token EXCEPT ![d] = next] ELSE token
  /\ ended' = {e \in Devices : token[e] >= 0} \ (IF request[d].keeps THEN {d} ELSE {})
  /\ request' = [request EXCEPT ![d] = NoRequest]
  /\ UNCHANGED <<second, recovery, clock, accepted>>

-----------------------------------------------------------------------------
(* The second factor.                                                      *)

sessions == <<version, token, ended, request>>

\* The authenticator and the server differ by a step at most.
Current == {step \in clock - VALID_WINDOW .. clock + VALID_WINDOW : step >= 0}

\* Mutant: the accepted time step is not compared with the last one.
VerifyAnyCode(code) == code \in Current

VerifyCode(code) == code \in Current /\ code > second.last

\* _accept_code_or_recovery: a code of the authenticator first.
Accepts(code) == IF code \in RecoveryCodes THEN code \in recovery ELSE VerifyCode(code)

Counted(code) ==
  accepted' = [accepted EXCEPT ![second.secret][code] = @ + 1]

\* What is stored of a code that is accepted, and leaves the factor on.
Spend(code) ==
  /\ second' = [second EXCEPT !.failed = 0,
                  !.last = IF code \in RecoveryCodes THEN @ ELSE code]
  /\ recovery' = recovery \ {code}
  /\ Counted(code)

Latest == Cardinality({s \in 1 .. MaxSecrets : \E c \in Codes : accepted[s][c] > 0})

\* A new secret each time; the abandoned ones are not told apart.
BeginEnrolment(d) ==
  /\ Authorised(d) /\ ~second.on
  /\ Latest < MaxSecrets
  /\ second' = [Off(0) EXCEPT !.secret = Latest + 1]
  /\ UNCHANGED <<sessions, recovery, clock, accepted>>

ConfirmEnrolment(d, code) ==
  /\ Authorised(d) /\ ~second.on /\ second.secret # 0
  /\ code \in Current
  /\ second' = [second EXCEPT !.on = TRUE, !.last = code, !.failed = 0]
  /\ recovery' = RecoveryCodes
  /\ Counted(code)
  /\ UNCHANGED <<sessions, clock>>

\* The challenge is answered, or a wrong code is counted.
Verify(d, code) ==
  /\ token[d] = Challenge /\ second.on
  /\ second.failed < MAX_FAILED_ATTEMPTS
  /\ Accepts(code)
  /\ Spend(code)
  /\ Holds(d, version)
  /\ UNCHANGED <<version, request, clock>>

WrongCode(d) ==
  /\ token[d] = Challenge /\ second.on
  /\ second.failed < MAX_FAILED_ATTEMPTS
  /\ second' = [second EXCEPT !.failed = @ + 1]
  /\ UNCHANGED <<sessions, recovery, clock, accepted>>

\* The old codes go, so those that are issued count as new.
RegenerateCodes(d, code) ==
  /\ Authorised(d) /\ second.on
  /\ Accepts(code)
  /\ second' = [second EXCEPT !.last = IF code \in RecoveryCodes THEN @ ELSE code]
  /\ recovery' = RecoveryCodes
  /\ accepted' = [accepted EXCEPT ![second.secret] =
       [c \in Codes |-> IF c \in RecoveryCodes THEN 0 ELSE @[c] + (IF c = code THEN 1 ELSE 0)]]
  /\ UNCHANGED <<sessions, clock>>

Disable(d, code) ==
  /\ Authorised(d) /\ second.on
  /\ Accepts(code)
  /\ second' = Off(0)
  /\ recovery' = {}
  /\ Counted(code)
  /\ UNCHANGED <<sessions, clock>>

\* reset_for_user, by somebody who manages users.
ResetFactor ==
  /\ second.secret # 0
  /\ second' = Off(0)
  /\ recovery' = {}
  /\ UNCHANGED <<sessions, clock, accepted>>

StepPasses ==
  /\ clock < MaxClock
  /\ clock' = clock + 1
  /\ UNCHANGED <<sessions, second, recovery, accepted>>

SignInNext ==
  \/ \E d \in Devices :
       \/ Login(d) \/ TokenLogin(d) \/ CommitEnding(d) \/ WrongCode(d) \/ BeginEnrolment(d)
       \/ \E keeps \in BOOLEAN : BeginEnding(d, keeps)
       \/ \E code \in Codes : \/ ConfirmEnrolment(d, code) \/ Verify(d, code)
                              \/ RegenerateCodes(d, code) \/ Disable(d, code)
  \/ ResetFactor \/ StepPasses

SignInSpec == SignInInit /\ [][SignInNext]_signVars

-----------------------------------------------------------------------------
(* Properties.                                                             *)

Factors == [on : BOOLEAN, secret : 0 .. MaxSecrets, last : None .. MaxClock + VALID_WINDOW,
            failed : 0 .. MAX_FAILED_ATTEMPTS]

\* The account holds values of its kind.
SignInTypeOK ==
  /\ version \in 0 .. MaxVersion /\ token \in [Devices -> Challenge .. MaxVersion]
  /\ ended \subseteq Devices /\ clock \in 0 .. MaxClock
  /\ request \in [Devices -> [read : -1 .. MaxVersion - 1, keeps : BOOLEAN]]
  /\ second \in Factors /\ (second.on => second.secret # 0)
  /\ recovery \subseteq RecoveryCodes
  /\ accepted \in [1 .. MaxSecrets -> [Codes -> Nat]]

\* core/mfa.py:14-16 and mfa_service.py: a code counts once, through disabling,
\* enrolling again, regenerating and resetting.
CodesCountOnce == \A s \in 1 .. MaxSecrets, c \in Codes : accepted[s][c] <= 1

\* api/auth.py:332-334: ending the sessions ends every one that was begun
\* before, while such requests do not overlap.
EarlierSessionsEnd == \A d \in ended : ~Authorised(d)

=============================================================================
