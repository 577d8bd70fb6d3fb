------------------------------ MODULE AuthSession ------------------------------
(***************************************************************************)
(* The desktop's cloud session (auth.rs), the commands of lib.rs that sign *)
(* in, sign out and choose the account mode, and cloud_profile's use of    *)
(* the access token.  The session is one entry of the Keychain; Supabase   *)
(* rotates its refresh token each time it is used.                         *)
(*                                                                         *)
(* A login and any number of profile requests run on background threads;   *)
(* the other commands run one at a time on the main thread.  Requests to   *)
(* the server, waits for the session lock and the two stores (Keychain,    *)
(* preferences) separate the steps.                                        *)
(***************************************************************************)
EXTENDS Naturals

CONSTANTS
  Callers,       \* background threads that ask for the access token
  MaxLogins,     \* bound: logins begun
  MaxRotations,  \* bound: rotations of a session's refresh token
  MaxSignOuts,   \* bound: sign-outs begun
  MaxCrashes     \* bound: crashes of the application

ASSUME AuthAssumption ==
  /\ MaxLogins \in Nat /\ MaxRotations \in Nat /\ MaxSignOuts \in Nat /\ MaxCrashes \in Nat
  /\ "nobody" \notin Callers

VARIABLES
  keychain,    \* the stored session and the version of its refresh token
  account,     \* StoredPreferences.account_mode
  generation,  \* SESSION_GENERATION
  lock,        \* who holds SESSION_LIFECYCLE_LOCK over more than one step
  login,       \* the login under way: LOGIN_IN_PROGRESS, its number and its snapshot
  selecting,   \* google_auth_start commands whose login is over and that set the mode
  call,        \* where each background call is
  main,        \* what the main thread is doing, and for which session
  server,      \* Supabase's sessions
  lost,        \* history: sessions a rotated token of which was lost
  doomed,      \* history: sessions and logins that a sign-out ended
  logins, signOuts, crashes  \* history, for the bounds

vars == <<keychain, account, generation, lock, login, selecting, call, main, server, lost, doomed,
          logins, signOuts, crashes>>
counters == <<logins, signOuts, crashes>>

Sessions == 1..MaxLogins     \* a session has the number of the login that made it
NoSession == [id |-> 0, version |-> 0]
NoLogin == [step |-> "none", id |-> 0, snapshot |-> 0]
Resting == [step |-> "idle", id |-> 0]

TypeOK ==
  /\ keychain \in [id : 0..MaxLogins, version : 0..MaxRotations]
  /\ account \in {"none", "local", "google"}
  /\ generation \in 0..MaxSignOuts
  /\ lock \in Callers \cup {"nobody"}
  /\ login \in [step : {"none", "browser", "exchanged", "cancelled"}, id : 0..MaxLogins,
                snapshot : 0..MaxSignOuts]
  /\ selecting \in 0..MaxLogins
  /\ call \in [Callers -> {"idle", "asking", "rotated", "refused"}]
  /\ main \in [step : {"idle", "signOut", "revoke", "setMode", "select"}, id : 0..MaxLogins]
  /\ server \in [Sessions -> [live : BOOLEAN, version : 0..MaxRotations]]
  /\ lost \subseteq Sessions /\ doomed \subseteq 0..MaxLogins
  /\ logins \in 0..MaxLogins /\ signOuts \in 0..MaxSignOuts /\ crashes \in 0..MaxCrashes

Init ==
  /\ keychain = NoSession /\ account = "none"
  /\ generation = 0 /\ lock = "nobody" /\ login = NoLogin /\ selecting = 0
  /\ call = [c \in Callers |-> "idle"] /\ main = Resting
  /\ server = [s \in Sessions |-> [live |-> FALSE, version |-> 0]]
  /\ lost = {} /\ doomed = {}
  /\ logins = 0 /\ signOuts = 0 /\ crashes = 0

-----------------------------------------------------------------------------
(* run: the login in the browser *)

\* One login at a time, which notes the generation it began in.
LoginBegins ==
  /\ login.step = "none"
  /\ logins < MaxLogins
  /\ logins' = logins + 1
  /\ login' = [step |-> "browser", id |-> logins + 1, snapshot |-> generation]
  /\ UNCHANGED <<keychain, account, generation, lock, selecting, call, main, server, lost, doomed,
                 signOuts, crashes>>

\* exchange_code: the server makes a session for the code of the callback.
CodeExchanged ==
  /\ login.step = "browser"
  /\ server' = [server EXCEPT ![login.id] = [live |-> TRUE, version |-> 0]]
  /\ login' = [login EXCEPT !.step = "exchanged"]
  /\ UNCHANGED <<keychain, account, generation, lock, selecting, call, main, lost, doomed,
                 counters>>

\* The browser does not open, the callback does not come in time or is refused, the
\* exchange fails or its answer is lost, or the Keychain refuses the session.
LoginFails ==
  /\ login.step \in {"browser", "exchanged"}
  /\ login' = NoLogin
  /\ UNCHANGED <<keychain, account, generation, lock, selecting, call, main, server, lost, doomed,
                 counters>>

\* Mutant of LoginStored: the generation is not looked at.
LoginStoredAnyway ==
  /\ login.step = "exchanged" /\ lock = "nobody"
  /\ keychain' = [id |-> login.id, version |-> 0]
  /\ login' = NoLogin
  /\ selecting' = selecting + 1
  /\ UNCHANGED <<account, generation, lock, call, main, server, lost, doomed, counters>>

\* Under the lock: the session is stored if no sign-out came since the login began.
LoginStored ==
  /\ login.step = "exchanged" /\ lock = "nobody"
  /\ login.snapshot = generation
  /\ keychain' = [id |-> login.id, version |-> 0]
  /\ login' = NoLogin
  /\ selecting' = selecting + 1
  /\ UNCHANGED <<account, generation, lock, call, main, server, lost, doomed, counters>>

LoginCancelled ==
  /\ login.step = "exchanged" /\ lock = "nobody"
  /\ login.snapshot # generation
  /\ login' = [login EXCEPT !.step = "cancelled"]
  /\ UNCHANGED <<keychain, account, generation, lock, selecting, call, main, server, lost, doomed,
                 counters>>

\* revoke_session, as far as the server hears of it.
Revoke(s) == server' \in {server, [server EXCEPT ![s].live = FALSE]}

LoginRevoked ==
  /\ login.step = "cancelled"
  /\ Revoke(login.id)
  /\ login' = NoLogin
  /\ UNCHANGED <<keychain, account, generation, lock, selecting, call, main, lost, doomed,
                 counters>>

\* google_auth_start, once run has returned; the preferences may refuse.
ModeFollowsLogin ==
  /\ selecting > 0
  /\ selecting' = selecting - 1
  /\ account' \in {account, "google"}
  /\ UNCHANGED <<keychain, generation, lock, login, call, main, server, lost, doomed, counters>>

-----------------------------------------------------------------------------
(* access_token, when the token has expired: the lock is held all the way *)

RefreshBegins(c) ==
  /\ call[c] = "idle" /\ lock = "nobody"
  /\ keychain # NoSession
  /\ lock' = c
  /\ call' = [call EXCEPT ![c] = "asking"]
  /\ UNCHANGED <<keychain, account, generation, login, selecting, main, server, lost, doomed,
                 counters>>

\* The server rotates the token if it is the session's current one, and refuses
\* another; something on the way may refuse it as well.
ServerAnswers(c) ==
  /\ call[c] = "asking"
  /\ \/ /\ server[keychain.id].live /\ server[keychain.id].version = keychain.version
        /\ keychain.version < MaxRotations
        /\ server' = [server EXCEPT ![keychain.id].version = @ + 1]
        /\ call' = [call EXCEPT ![c] = "rotated"]
     \/ call' = [call EXCEPT ![c] = "refused"] /\ UNCHANGED server
  /\ UNCHANGED <<keychain, account, generation, lock, login, selecting, main, lost, doomed,
                 counters>>

\* Mutant of Returns: the lock is kept.
ReturnsLocked(c) == call' = [call EXCEPT ![c] = "idle"] /\ UNCHANGED lock

\* The command is over and its guard of the lock is dropped.
Returns(c) == call' = [call EXCEPT ![c] = "idle"] /\ lock' = "nobody"

\* Mutant of TokenStored: the token that was sent is stored again.
TokenKept(c) ==
  /\ call[c] = "rotated"
  /\ Returns(c)
  /\ UNCHANGED <<keychain, account, generation, login, selecting, main, server, lost, doomed,
                 counters>>

TokenStored(c) ==
  /\ call[c] = "rotated"
  /\ keychain' = [keychain EXCEPT !.version = @ + 1]
  /\ Returns(c)
  /\ UNCHANGED <<account, generation, login, selecting, main, server, lost, doomed, counters>>

\* The answer or the write to the Keychain fails: the new token is lost.
TokenLost(c) ==
  /\ call[c] = "rotated"
  /\ lost' = lost \cup {keychain.id}
  /\ Returns(c)
  /\ UNCHANGED <<keychain, account, generation, login, selecting, main, server, doomed, counters>>

\* A transient failure before the server has seen the token: the session is kept.
RefreshFails(c) ==
  /\ call[c] = "asking"
  /\ Returns(c)
  /\ UNCHANGED <<keychain, account, generation, login, selecting, main, server, lost, doomed,
                 counters>>

\* A terminal refusal ends the session here, unless the Keychain keeps it.
SessionEnds(c) ==
  /\ call[c] = "refused"
  /\ keychain' \in {keychain, NoSession}
  /\ Returns(c)
  /\ UNCHANGED <<account, generation, login, selecting, main, server, lost, doomed, counters>>

-----------------------------------------------------------------------------
(* The main thread *)

Idle == main.step = "idle"
Turns(step, s) == main' = [step |-> step, id |-> s]

\* google_auth_sign_out and onboarding_reset, which differ in the mode they set.
SignOutBegins ==
  /\ Idle
  /\ signOuts < MaxSignOuts
  /\ signOuts' = signOuts + 1
  /\ Turns("signOut", 0)
  /\ UNCHANGED <<keychain, account, generation, lock, login, selecting, call, server, lost, doomed,
                 logins, crashes>>

\* Under the lock: running logins are invalidated and the session is deleted.
SignedOut ==
  /\ main.step = "signOut" /\ lock = "nobody"
  /\ generation' = generation + 1
  /\ keychain' = NoSession
  /\ doomed' = doomed \cup {keychain.id, login.id}
  /\ Turns(IF keychain = NoSession THEN "setMode" ELSE "revoke", keychain.id)
  /\ UNCHANGED <<account, lock, login, selecting, call, server, lost, counters>>

\* The Keychain does not delete it: an error, though the logins are invalidated.
SignOutFails ==
  /\ main.step = "signOut" /\ lock = "nobody"
  /\ keychain # NoSession
  /\ generation' = generation + 1
  /\ main' = Resting
  /\ UNCHANGED <<keychain, account, lock, login, selecting, call, server, lost, doomed, counters>>

RevokedRemotely ==
  /\ main.step = "revoke"
  /\ Revoke(main.id)
  /\ Turns("setMode", 0)
  /\ UNCHANGED <<keychain, account, generation, lock, login, selecting, call, lost, doomed,
                 counters>>

ModeFollowsSignOut ==
  /\ main.step = "setMode"
  /\ account' \in {account, "local", "none"}
  /\ main' = Resting
  /\ UNCHANGED <<keychain, generation, lock, login, selecting, call, server, lost, doomed,
                 counters>>

\* onboarding_set_account_mode and onboarding_complete: validate_account_mode looks
\* for a session, and then the mode is stored.
SelectGoogle ==
  /\ Idle /\ keychain # NoSession
  /\ Turns("select", 0)
  /\ UNCHANGED <<keychain, account, generation, lock, login, selecting, call, server, lost, doomed,
                 counters>>

GoogleSelected ==
  /\ main.step = "select"
  /\ account' \in {account, "google"}
  /\ main' = Resting
  /\ UNCHANGED <<keychain, generation, lock, login, selecting, call, server, lost, doomed,
                 counters>>

SelectLocal ==
  /\ Idle
  /\ account' = "local"
  /\ UNCHANGED <<keychain, generation, lock, login, selecting, call, main, server, lost, doomed,
                 counters>>

\* The Keychain, the preferences and the server keep what they have; a rotated
\* token that was not stored is lost.
Crash ==
  /\ crashes < MaxCrashes
  /\ crashes' = crashes + 1
  /\ generation' = 0 /\ lock' = "nobody" /\ login' = NoLogin /\ selecting' = 0
  /\ call' = [c \in Callers |-> "idle"] /\ main' = Resting
  /\ lost' = lost \cup {keychain.id : c \in {c \in Callers : call[c] = "rotated"}}
  /\ UNCHANGED <<keychain, account, server, doomed, logins, signOuts>>

-----------------------------------------------------------------------------

LoginStep == LoginFails \/ LoginStored \/ LoginCancelled \/ LoginRevoked \/ ModeFollowsLogin
CallStep(c) == TokenStored(c) \/ TokenLost(c) \/ RefreshFails(c) \/ SessionEnds(c)
MainStep ==
  SignedOut \/ SignOutFails \/ RevokedRemotely \/ ModeFollowsSignOut \/ GoogleSelected

Next ==
  \/ LoginBegins \/ CodeExchanged \/ LoginStep
  \/ \E c \in Callers : RefreshBegins(c) \/ ServerAnswers(c) \/ CallStep(c)
  \/ MainStep \/ SignOutBegins \/ SelectGoogle \/ SelectLocal
  \/ Crash

Spec == Init /\ [][Next]_vars

\* Threads are scheduled, requests time out after NETWORK_TIMEOUT and the browser
\* after CALLBACK_TIMEOUT; a thread that waits for the lock gets it in the end.
Fairness ==
  /\ WF_vars(LoginFails) /\ SF_vars(LoginStored \/ LoginCancelled) /\ WF_vars(LoginRevoked)
  /\ WF_vars(ModeFollowsLogin)
  /\ SF_vars(MainStep)
  /\ \A c \in Callers : WF_vars(CallStep(c))

FairSpec == Spec /\ Fairness

-----------------------------------------------------------------------------
(* Properties *)

\* The user's sign-out wins: a session it ended, or that a login begun before it was
\* to make, is never in the Keychain again, whatever was under way.
SignOutWins ==
  /\ TypeOK
  /\ keychain # NoSession => keychain.id \notin doomed

\* Two users of the session never spend the same refresh token: while no refresh is
\* under way, the token in the Keychain is the one the server takes next, unless the
\* answer with the new one was lost.
KeychainIsCurrent ==
  lock = "nobody" /\ keychain # NoSession /\ keychain.id \notin lost =>
    server[keychain.id].version = keychain.version

\* Every command comes to its end: nobody keeps the lock, and a login that was
\* abandoned in the browser makes room for the next.
CommandsReturn ==
  /\ main.step # "idle" ~> main.step = "idle"
  /\ login.step # "none" ~> login.step = "none"
  /\ \A c \in Callers : call[c] # "idle" ~> call[c] = "idle"

=============================================================================
