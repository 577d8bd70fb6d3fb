------------------------------ MODULE DesktopProofs ------------------------------
(***************************************************************************)
(* Proofs about AuthSession and PermissionFlow, as MCDesktop names them.   *)
(*                                                                         *)
(* Of the cloud session, for any number of callers, logins, rotations,     *)
(* sign-outs and crashes, AInv is the inductive invariant: with the types  *)
(* it says how the counters bound what they count, who may hold the lock,  *)
(* which logins a sign-out has ended, and how far the server's token can   *)
(* be ahead of the Keychain's.                                             *)
(*                                                                         *)
(* Of the permissions, for any number of commands, PInv adds to            *)
(* RequestsAreOnRecord what makes it inductive: the main thread makes no   *)
(* request, and a request that was recorded stays so until it is answered. *)
(***************************************************************************)
EXTENDS MCDesktop, TLAPS

-----------------------------------------------------------------------------
(* The cloud session *)


\* Sessions are numbered by the login that makes them, which is the latest one while it
\* is under way; a snapshot is never of a later generation.
Numbered ==
  /\ keychain.id = 0 => keychain = NoSession
  /\ keychain.id <= logins
  /\ doomed \subseteq 0..logins
  /\ login.step = "none" => login = NoLogin
  /\ login.step # "none" => login.id = logins /\ logins > 0 /\ keychain.id < logins
  /\ selecting + (IF login.step = "none" THEN 0 ELSE 1) <= logins
  /\ generation + (IF main.step = "signOut" THEN 1 ELSE 0) <= signOuts
  /\ login.snapshot <= generation
  /\ main.step = "revoke" => main.id \in Sessions

\* The lock is held by the one caller that is not idle, and there is a session then.
Locked ==
  /\ \A c \in Callers : call[c] # "idle" <=> lock = c
  /\ lock # "nobody" => keychain # NoSession
  /\ \A c \in Callers : call[c] = "rotated" => keychain.version < MaxRotations

\* A login that may still be stored was not ended by a sign-out.
Fates ==
  /\ keychain # NoSession => keychain.id \notin doomed
  /\ login.step \in {"browser", "exchanged"} /\ login.snapshot = generation =>
       login.id \notin doomed

Rotated == \E c \in Callers : call[c] = "rotated"

\* The server is ahead of the Keychain by the rotation that is under way.
Ahead ==
  /\ keychain # NoSession /\ keychain.id \notin lost =>
       server[keychain.id].version = keychain.version + (IF Rotated THEN 1 ELSE 0)
  /\ login.step = "exchanged" => server[login.id].version = 0

AInv == TypeOK /\ Numbered /\ Locked /\ Fates /\ Ahead

LEMMA InitAInv == Init => AInv
<1> SUFFICES ASSUME Init PROVE AInv
  OBVIOUS
<1>1. TypeOK
  BY AuthAssumption DEF Init, TypeOK, NoSession, NoLogin, Resting, Sessions
<1>2. Numbered /\ Locked /\ Fates /\ Ahead
  BY AuthAssumption
  DEF Init, Numbered, Locked, Fates, Ahead, Rotated, NoSession, NoLogin, Resting
<1>3. QED
  BY <1>1, <1>2 DEF AInv

\* What a revocation and a rotation do to the server's sessions.
Servers == [Sessions -> [live : BOOLEAN, version : 0..MaxRotations]]

LEMMA Ended ==
  ASSUME server \in Servers, NEW s \in Sessions
  PROVE  /\ [server EXCEPT ![s].live = FALSE] \in Servers
         /\ \A t \in Sessions : [server EXCEPT ![s].live = FALSE][t].version = server[t].version
BY DEF Servers

LEMMA RotatedOnce ==
  ASSUME server \in Servers, NEW s \in Sessions, server[s].version < MaxRotations
  PROVE  /\ [server EXCEPT ![s].version = @ + 1] \in Servers
         /\ [server EXCEPT ![s].version = @ + 1][s].version = server[s].version + 1
         /\ \A t \in Sessions \ {s} : [server EXCEPT ![s].version = @ + 1][t] = server[t]
BY AuthAssumption DEF Servers

\* The types, field by field.
Plain ==
  /\ keychain = [id |-> keychain.id, version |-> keychain.version]
  /\ keychain.id \in 0..MaxLogins /\ keychain.version \in 0..MaxRotations
  /\ login = [step |-> login.step, id |-> login.id, snapshot |-> login.snapshot]
  /\ login.id \in 0..MaxLogins /\ login.snapshot \in 0..MaxSignOuts
  /\ main = [step |-> main.step, id |-> main.id] /\ main.id \in 0..MaxLogins
  /\ selecting \in Nat /\ generation \in Nat /\ logins \in Nat /\ signOuts \in Nat

LEMMA Shapes == TypeOK => Plain
BY AuthAssumption DEF TypeOK, Plain

LEMMA StepAInv == AInv /\ Next => AInv'
<1> SUFFICES ASSUME AInv, Next PROVE AInv'
  OBVIOUS
<1> USE AuthAssumption DEF NoSession, NoLogin, Resting, Sessions, counters
<1>0. TypeOK /\ Numbered /\ Locked /\ Fates /\ Ahead /\ Plain
  BY Shapes DEF AInv
<1>1. ASSUME LoginBegins PROVE AInv'
  <2>1. TypeOK'
    <3>1. /\ logins' = logins + 1 /\ logins < MaxLogins
          /\ login' = [step |-> "browser", id |-> logins + 1, snapshot |-> generation]
          /\ UNCHANGED <<keychain, account, generation, lock, selecting, call, main, server, lost,
                         doomed, signOuts, crashes>>
      BY <1>1 DEF LoginBegins
    <3>2. logins + 1 \in 0..MaxLogins /\ generation \in 0..MaxSignOuts
      BY <1>0, <3>1 DEF TypeOK
    <3>3. login' \in [step : {"none", "browser", "exchanged", "cancelled"}, id : 0..MaxLogins,
                      snapshot : 0..MaxSignOuts]
      BY <3>1, <3>2
    <3>4. QED
      BY <1>0, <3>1, <3>2, <3>3 DEF TypeOK
  <2>2. Numbered'
    BY <1>0, <1>1 DEF Plain, Numbered, LoginBegins
  <2>3. Locked'
    BY <1>0, <1>1 DEF TypeOK, Locked, LoginBegins
  <2>4. Fates'
    BY <1>0, <1>1 DEF TypeOK, Numbered, Fates, LoginBegins
  <2>5. Ahead'
    BY <1>0, <1>1 DEF TypeOK, Numbered, Locked, Ahead, Rotated, LoginBegins
  <2>6. QED
    BY <2>1, <2>2, <2>3, <2>4, <2>5 DEF AInv
<1>2. ASSUME CodeExchanged PROVE AInv'
  <2>1. login.id \in Sessions
    BY <1>0, <1>2 DEF TypeOK, Numbered, CodeExchanged
  <2>2. server' \in Servers /\ server'[login.id].version = 0
         /\ \A s \in Sessions \ {login.id} : server'[s] = server[s]
    BY <1>0, <1>2, <2>1 DEF TypeOK, Servers, CodeExchanged
  <2>3. TypeOK'
    BY <1>0, <1>2, <2>1, <2>2 DEF TypeOK, Numbered, Locked, CodeExchanged, Servers
  <2>4. Numbered'
    BY <1>0, <1>2, <2>1, <2>2 DEF Plain, Numbered, CodeExchanged
  <2>5. Locked'
    BY <1>0, <1>2 DEF TypeOK, Locked, CodeExchanged
  <2>6. Fates'
    BY <1>0, <1>2 DEF TypeOK, Numbered, Locked, Fates, CodeExchanged
  <2>7. Ahead'
    <3>1. Rotated' <=> Rotated
      BY <1>2 DEF Rotated, CodeExchanged
    <3>2. keychain' = keychain /\ lost' = lost /\ login'.id = login.id /\ keychain.id # login.id
      BY <1>0, <1>2 DEF Plain, Numbered, CodeExchanged
    <3>3. keychain # NoSession => keychain.id \in Sessions
      BY <1>0 DEF Plain, Numbered
    <3>4. QED
      BY <1>0, <2>2, <3>1, <3>2, <3>3 DEF Ahead
  <2>8. QED
    BY <2>3, <2>4, <2>5, <2>6, <2>7 DEF AInv
<1>3. ASSUME LoginFails PROVE AInv'
  <2>1. TypeOK'
    BY <1>0, <1>3 DEF TypeOK, Numbered, LoginFails
  <2>2. Numbered'
    BY <1>0, <1>3 DEF Plain, Numbered, LoginFails
  <2>3. Locked'
    BY <1>0, <1>3 DEF TypeOK, Locked, LoginFails
  <2>4. Fates'
    BY <1>0, <1>3 DEF TypeOK, Numbered, Fates, LoginFails
  <2>5. Ahead'
    BY <1>0, <1>3 DEF TypeOK, Numbered, Locked, Ahead, Rotated, LoginFails
  <2>6. QED
    BY <2>1, <2>2, <2>3, <2>4, <2>5 DEF AInv
<1>4. ASSUME LoginStored PROVE AInv'
  <2>1. TypeOK'
    BY <1>0, <1>4 DEF TypeOK, Numbered, Locked, LoginStored
  <2>2. Numbered'
    BY <1>0, <1>4 DEF Plain, Numbered, LoginStored
  <2>3. Locked'
    BY <1>0, <1>4 DEF TypeOK, Locked, LoginStored
  <2>4. Fates'
    BY <1>0, <1>4 DEF TypeOK, Numbered, Locked, Fates, LoginStored
  <2>5. Ahead'
    BY <1>0, <1>4 DEF TypeOK, Numbered, Locked, Ahead, Rotated, LoginStored
  <2>6. QED
    BY <2>1, <2>2, <2>3, <2>4, <2>5 DEF AInv
<1>5. ASSUME LoginCancelled PROVE AInv'
  <2>1. TypeOK'
    BY <1>0, <1>5 DEF TypeOK, Numbered, LoginCancelled
  <2>2. Numbered'
    BY <1>0, <1>5 DEF Plain, Numbered, LoginCancelled
  <2>3. Locked'
    BY <1>0, <1>5 DEF TypeOK, Locked, LoginCancelled
  <2>4. Fates'
    BY <1>0, <1>5 DEF TypeOK, Numbered, Fates, LoginCancelled
  <2>5. Ahead'
    BY <1>0, <1>5 DEF TypeOK, Numbered, Locked, Ahead, Rotated, LoginCancelled
  <2>6. QED
    BY <2>1, <2>2, <2>3, <2>4, <2>5 DEF AInv
<1>6. ASSUME LoginRevoked PROVE AInv'
  <2>1. server \in Servers /\ login.id \in Sessions
    BY <1>0, <1>6 DEF TypeOK, Numbered, Servers, LoginRevoked
  <2>2. server' = server \/ server' = [server EXCEPT ![login.id].live = FALSE]
    BY <1>6 DEF LoginRevoked, Revoke
  <2>3. server' \in Servers /\ \A s \in Sessions : server'[s].version = server[s].version
    BY <2>1, <2>2, Ended
  <2>4. /\ keychain # NoSession => keychain.id \in Sessions
        /\ login.step = "exchanged" => login.id \in Sessions
    BY <1>0, <1>6 DEF TypeOK, Numbered, LoginRevoked
  <2>5. TypeOK'
    <3>1. login' = NoLogin /\ UNCHANGED <<keychain, account, generation, lock, selecting, call,
                                         main, lost, doomed, counters>>
      BY <1>6 DEF LoginRevoked
    <3>2. QED
      BY <1>0, <2>3, <3>1 DEF TypeOK, Servers
  <2>6. Numbered'
    BY <1>0, <1>6, <2>1, <2>2, <2>3, <2>4 DEF Plain, Numbered, LoginRevoked, Revoke
  <2>7. Locked'
    BY <1>0, <1>6 DEF TypeOK, Locked, LoginRevoked, Revoke
  <2>8. Fates'
    BY <1>0, <1>6 DEF TypeOK, Numbered, Locked, Fates, LoginRevoked, Revoke
  <2>9. Ahead'
    BY <1>0, <1>6, <2>1, <2>2, <2>3, <2>4
    DEF TypeOK, Numbered, Locked, Ahead, Rotated, LoginRevoked, Revoke
  <2>10. QED
    BY <2>5, <2>6, <2>7, <2>8, <2>9 DEF AInv
<1>7. ASSUME ModeFollowsLogin PROVE AInv'
  <2>1. TypeOK'
    <3>1. /\ selecting > 0 /\ selecting' = selecting - 1
          /\ account' \in {account, "google"}
          /\ UNCHANGED <<keychain, generation, lock, login, call, main, server, lost, doomed,
                         counters>>
      BY <1>7 DEF ModeFollowsLogin
    <3>2. selecting' \in 0..MaxLogins /\ account' \in {"none", "local", "google"}
      BY <1>0, <3>1 DEF TypeOK
    <3>3. QED
      BY <1>0, <3>1, <3>2 DEF TypeOK
  <2>2. Numbered'
    BY <1>0, <1>7 DEF Plain, Numbered, ModeFollowsLogin
  <2>3. Locked'
    BY <1>0, <1>7 DEF TypeOK, Locked, ModeFollowsLogin
  <2>4. Fates'
    BY <1>0, <1>7 DEF TypeOK, Numbered, Fates, ModeFollowsLogin
  <2>5. Ahead'
    BY <1>0, <1>7 DEF TypeOK, Numbered, Locked, Ahead, Rotated, ModeFollowsLogin
  <2>6. QED
    BY <2>1, <2>2, <2>3, <2>4, <2>5 DEF AInv
<1>8. ASSUME NEW c \in Callers, RefreshBegins(c) PROVE AInv'
  <2>1. TypeOK'
    BY <1>0, <1>8 DEF TypeOK, Numbered, RefreshBegins
  <2>2. Numbered'
    BY <1>0, <1>8 DEF Plain, Numbered, RefreshBegins
  <2>3. Locked'
    BY <1>0, <1>8 DEF TypeOK, Locked, RefreshBegins
  <2>4. Fates'
    BY <1>0, <1>8 DEF TypeOK, Numbered, Fates, RefreshBegins
  <2>5. Ahead'
    BY <1>0, <1>8 DEF TypeOK, Numbered, Locked, Ahead, Rotated, RefreshBegins
  <2>6. QED
    BY <2>1, <2>2, <2>3, <2>4, <2>5 DEF AInv
<1>9. ASSUME NEW c \in Callers, ServerAnswers(c) PROVE AInv'
  <2>1. server \in Servers /\ keychain.id \in Sessions /\ keychain # NoSession /\ lock = c
        /\ \A b \in Callers : call[b] # "idle" => b = c
    <3>1. call[c] = "asking" /\ server \in Servers
      BY <1>0, <1>9 DEF TypeOK, Servers, ServerAnswers
    <3>2. lock = c /\ keychain # NoSession /\ \A b \in Callers : call[b] # "idle" => b = c
      BY <1>0, <3>1 DEF Locked
    <3>3. QED
      BY <1>0, <3>1, <3>2 DEF Plain, Numbered
  <2>2. ASSUME server' = server, call' = [call EXCEPT ![c] = "refused"] PROVE AInv'
    <3>1. TypeOK'
      BY <1>0, <1>9, <2>2 DEF TypeOK, ServerAnswers
    <3>2. Numbered' /\ Locked' /\ Fates'
      BY <1>0, <1>9, <2>2 DEF TypeOK, Numbered, Locked, Fates, ServerAnswers
    <3>3. ~Rotated /\ ~Rotated'
      BY <1>0, <1>9, <2>1, <2>2 DEF TypeOK, ServerAnswers, Rotated
    <3>4. Ahead'
      BY <1>0, <1>9, <2>2, <3>3 DEF Ahead, ServerAnswers
    <3>5. QED
      BY <3>1, <3>2, <3>4 DEF AInv
  <2>3. ASSUME server[keychain.id].version = keychain.version, keychain.version < MaxRotations,
               server' = [server EXCEPT ![keychain.id].version = @ + 1],
               call' = [call EXCEPT ![c] = "rotated"]
        PROVE  AInv'
    <3>1. /\ server' \in Servers
          /\ server'[keychain.id].version = keychain.version + 1
          /\ \A s \in Sessions \ {keychain.id} : server'[s] = server[s]
      BY <2>1, <2>3, RotatedOnce
    <3>2. TypeOK'
      BY <1>0, <1>9, <2>3, <3>1 DEF TypeOK, Servers, ServerAnswers
    <3>3. Numbered' /\ Fates'
      BY <1>0, <1>9, <2>3 DEF TypeOK, Numbered, Fates, ServerAnswers
    <3>4. Locked'
      BY <1>0, <1>9, <2>1, <2>3 DEF TypeOK, Locked, ServerAnswers
    <3>5. Rotated' /\ keychain' = keychain /\ login' = login
      BY <1>0, <1>9, <2>3 DEF TypeOK, ServerAnswers, Rotated
    <3>6. login.step = "exchanged" => login.id \in Sessions \ {keychain.id}
      BY DEF AInv, TypeOK, Numbered
    <3>7. Ahead'
      BY <1>0, <3>1, <3>5, <3>6 DEF Ahead
    <3>8. QED
      BY <3>2, <3>3, <3>7, <3>4 DEF AInv
  <2>4. \/ /\ server[keychain.id].version = keychain.version /\ keychain.version < MaxRotations
           /\ server' = [server EXCEPT ![keychain.id].version = @ + 1]
           /\ call' = [call EXCEPT ![c] = "rotated"]
        \/ server' = server /\ call' = [call EXCEPT ![c] = "refused"]
    BY <1>9 DEF ServerAnswers
  <2>5. QED
    BY <2>2, <2>3, <2>4
<1>10. ASSUME NEW c \in Callers, TokenStored(c) PROVE AInv'
  <2>1. keychain.id \in Sessions /\ lock = c /\ keychain.version + 1 \in 0..MaxRotations
    <3>1. call[c] = "rotated"
      BY <1>10 DEF TokenStored
    <3>2. lock = c /\ keychain # NoSession /\ keychain.version < MaxRotations
      BY <1>0, <3>1 DEF Locked
    <3>3. QED
      BY <1>0, <3>2 DEF Plain, Numbered
  <2>2. keychain' = [id |-> keychain.id, version |-> keychain.version + 1]
    BY <1>0, <1>10, <2>1 DEF TypeOK, TokenStored
  <2>3. TypeOK'
    BY <1>0, <1>10, <2>1, <2>2 DEF TypeOK, Numbered, Locked, TokenStored, Returns
  <2>4. Numbered'
    BY <1>0, <1>10, <2>1, <2>2 DEF Plain, Numbered, TokenStored, Returns
  <2>5. Locked'
    BY <1>0, <1>10, <2>1, <2>2 DEF TypeOK, Locked, TokenStored, Returns
  <2>6. Fates'
    BY <1>0, <1>10, <2>1, <2>2 DEF TypeOK, Numbered, Locked, Fates, TokenStored, Returns
  <2>7. Ahead'
    <3>1. Rotated /\ ~Rotated'
      BY <1>0, <1>10, <2>1 DEF TypeOK, Locked, Rotated, TokenStored, Returns
    <3>2. /\ keychain'.id = keychain.id /\ keychain'.version = keychain.version + 1
          /\ keychain # NoSession /\ login' = login /\ server' = server /\ lost' = lost
      BY <1>0, <1>10, <2>1, <2>2 DEF Locked, TokenStored
    <3>3. QED
      BY <1>0, <2>1, <3>1, <3>2 DEF Ahead, Plain
  <2>8. QED
    BY <2>3, <2>4, <2>5, <2>6, <2>7 DEF AInv
<1>11. ASSUME NEW c \in Callers, TokenLost(c) PROVE AInv'
  <2>1. keychain.id \in Sessions
    BY <1>0, <1>11 DEF TypeOK, Numbered, Locked, TokenLost
  <2>2. TypeOK'
    BY <1>0, <1>11, <2>1 DEF TypeOK, Numbered, Locked, TokenLost, Returns
  <2>3. Numbered'
    BY <1>0, <1>11, <2>1 DEF Plain, Numbered, TokenLost, Returns
  <2>4. Locked'
    BY <1>0, <1>11 DEF TypeOK, Locked, TokenLost, Returns
  <2>5. Fates'
    BY <1>0, <1>11 DEF TypeOK, Numbered, Locked, Fates, TokenLost, Returns
  <2>6. Ahead'
    BY <1>0, <1>11, <2>1 DEF TypeOK, Numbered, Locked, Ahead, Rotated, TokenLost, Returns
  <2>7. QED
    BY <2>2, <2>3, <2>4, <2>5, <2>6 DEF AInv
<1>12. ASSUME NEW c \in Callers, RefreshFails(c) PROVE AInv'
  <2>1. TypeOK'
    BY <1>0, <1>12 DEF TypeOK, Numbered, RefreshFails, Returns
  <2>2. Numbered'
    BY <1>0, <1>12 DEF Plain, Numbered, RefreshFails, Returns
  <2>3. Locked'
    BY <1>0, <1>12 DEF TypeOK, Locked, RefreshFails, Returns
  <2>4. Fates'
    BY <1>0, <1>12 DEF TypeOK, Numbered, Fates, RefreshFails, Returns
  <2>5. Ahead'
    BY <1>0, <1>12 DEF TypeOK, Numbered, Locked, Ahead, Rotated, RefreshFails, Returns
  <2>6. QED
    BY <2>1, <2>2, <2>3, <2>4, <2>5 DEF AInv
<1>13. ASSUME NEW c \in Callers, SessionEnds(c) PROVE AInv'
  <2>1. TypeOK'
    <3>1. /\ keychain' \in {keychain, NoSession} /\ lock' = "nobody"
          /\ call' = [call EXCEPT ![c] = "idle"]
          /\ UNCHANGED <<account, generation, login, selecting, main, server, lost, doomed,
                         counters>>
      BY <1>13 DEF SessionEnds, Returns
    <3>2. QED
      BY <1>0, <3>1 DEF TypeOK
  <2>2. Numbered'
    BY <1>0, <1>13 DEF Plain, Numbered, SessionEnds, Returns
  <2>3. Locked'
    BY <1>0, <1>13 DEF TypeOK, Locked, SessionEnds, Returns
  <2>4. Fates'
    BY <1>0, <1>13 DEF TypeOK, Numbered, Locked, Fates, SessionEnds, Returns
  <2>5. Ahead'
    BY <1>0, <1>13 DEF TypeOK, Numbered, Locked, Ahead, Rotated, SessionEnds, Returns
  <2>6. QED
    BY <2>1, <2>2, <2>3, <2>4, <2>5 DEF AInv
<1>14. ASSUME SignedOut PROVE AInv'
  <2>1. main' \in [step : {"setMode", "revoke"}, id : 0..MaxLogins]
       /\ (main'.step = "revoke" => main'.id \in Sessions)
    BY <1>0, <1>14 DEF TypeOK, Numbered, SignedOut, Turns
  <2>2. generation' \in 0..MaxSignOuts /\ generation' <= signOuts
    BY <1>0, <1>14 DEF TypeOK, Numbered, SignedOut
  <2>3. keychain.id \in 0..logins /\ login.id \in 0..logins
    BY <1>0, <1>14 DEF TypeOK, Numbered
  <2>4. doomed' \subseteq 0..logins
    BY <1>0, <1>14, <2>3 DEF Numbered, SignedOut
  <2>5. TypeOK'
    <3>1. /\ keychain' = NoSession
          /\ UNCHANGED <<account, lock, login, selecting, call, server, lost, counters>>
      BY <1>14 DEF SignedOut
    <3>2. doomed' \subseteq 0..MaxLogins
      BY <1>0, <2>4 DEF TypeOK
    <3>3. main' \in [step : {"idle", "signOut", "revoke", "setMode", "select"}, id : 0..MaxLogins]
      BY <2>1
    <3>4. keychain' \in [id : 0..MaxLogins, version : 0..MaxRotations]
      BY <1>0, <3>1 DEF TypeOK
    <3>5. QED
      BY <1>0, <2>2, <3>1, <3>2, <3>3, <3>4 DEF TypeOK
  <2>6. Numbered'
    BY <1>0, <1>14, <2>1, <2>2, <2>3, <2>4 DEF Plain, Numbered, SignedOut, Turns
  <2>7. Locked'
    BY <1>0, <1>14, <2>1, <2>2, <2>3, <2>4 DEF TypeOK, Locked, SignedOut, Turns
  <2>8. Fates'
    BY <1>0, <1>14, <2>1, <2>2, <2>3, <2>4 DEF TypeOK, Numbered, Locked, Fates, SignedOut, Turns
  <2>9. Ahead'
    BY <1>0, <1>14, <2>1, <2>2, <2>3, <2>4
    DEF TypeOK, Numbered, Locked, Ahead, Rotated, SignedOut, Turns
  <2>10. QED
    BY <2>5, <2>6, <2>7, <2>8, <2>9 DEF AInv
<1>15. ASSUME SignOutFails PROVE AInv'
  <2>1. TypeOK'
    <3>1. generation' \in 0..MaxSignOuts
      BY <1>0, <1>15 DEF TypeOK, Numbered, SignOutFails
    <3>2. QED
      BY <1>0, <1>15, <3>1 DEF TypeOK, SignOutFails
  <2>2. Numbered'
    BY <1>0, <1>15 DEF Plain, Numbered, SignOutFails
  <2>3. Locked'
    BY <1>0, <1>15 DEF TypeOK, Locked, SignOutFails
  <2>4. Fates'
    BY <1>0, <1>15 DEF TypeOK, Numbered, Fates, SignOutFails
  <2>5. Ahead'
    BY <1>0, <1>15 DEF TypeOK, Numbered, Locked, Ahead, Rotated, SignOutFails
  <2>6. QED
    BY <2>1, <2>2, <2>3, <2>4, <2>5 DEF AInv
<1>16. ASSUME RevokedRemotely PROVE AInv'
  <2>1. server \in Servers /\ main.id \in Sessions
    BY <1>0, <1>16 DEF TypeOK, Numbered, Servers, RevokedRemotely
  <2>2. server' = server \/ server' = [server EXCEPT ![main.id].live = FALSE]
    BY <1>16 DEF RevokedRemotely, Revoke
  <2>3. server' \in Servers /\ \A s \in Sessions : server'[s].version = server[s].version
    BY <2>1, <2>2, Ended
  <2>4. /\ keychain # NoSession => keychain.id \in Sessions
        /\ login.step = "exchanged" => login.id \in Sessions
    BY <1>0, <1>16 DEF TypeOK, Numbered, RevokedRemotely
  <2>5. TypeOK'
    <3>1. main' = [step |-> "setMode", id |-> 0]
          /\ UNCHANGED <<keychain, account, generation, lock, login, selecting, call, lost, doomed,
                        counters>>
      BY <1>16 DEF RevokedRemotely, Turns
    <3>2. QED
      BY <1>0, <2>3, <3>1 DEF TypeOK, Servers
  <2>6. Numbered'
    BY <1>0, <1>16, <2>1, <2>2, <2>3, <2>4 DEF Plain, Numbered, RevokedRemotely, Revoke, Turns
  <2>7. Locked'
    BY <1>0, <1>16 DEF TypeOK, Locked, RevokedRemotely, Revoke, Turns
  <2>8. Fates'
    BY <1>0, <1>16 DEF TypeOK, Numbered, Locked, Fates, RevokedRemotely, Revoke, Turns
  <2>9. Ahead'
    BY <1>0, <1>16, <2>1, <2>2, <2>3, <2>4
    DEF TypeOK, Numbered, Locked, Ahead, Rotated, RevokedRemotely, Revoke, Turns
  <2>10. QED
    BY <2>5, <2>6, <2>7, <2>8, <2>9 DEF AInv
<1>17. ASSUME ModeFollowsSignOut PROVE AInv'
  <2>1. TypeOK'
    BY <1>0, <1>17 DEF TypeOK, Numbered, ModeFollowsSignOut
  <2>2. Numbered'
    BY <1>0, <1>17 DEF Plain, Numbered, ModeFollowsSignOut
  <2>3. Locked'
    BY <1>0, <1>17 DEF TypeOK, Locked, ModeFollowsSignOut
  <2>4. Fates'
    BY <1>0, <1>17 DEF TypeOK, Numbered, Fates, ModeFollowsSignOut
  <2>5. Ahead'
    BY <1>0, <1>17 DEF TypeOK, Numbered, Locked, Ahead, Rotated, ModeFollowsSignOut
  <2>6. QED
    BY <2>1, <2>2, <2>3, <2>4, <2>5 DEF AInv
<1>18. ASSUME GoogleSelected PROVE AInv'
  <2>1. TypeOK'
    BY <1>0, <1>18 DEF TypeOK, Numbered, GoogleSelected
  <2>2. Numbered'
    BY <1>0, <1>18 DEF Plain, Numbered, GoogleSelected
  <2>3. Locked'
    BY <1>0, <1>18 DEF TypeOK, Locked, GoogleSelected
  <2>4. Fates'
    BY <1>0, <1>18 DEF TypeOK, Numbered, Fates, GoogleSelected
  <2>5. Ahead'
    BY <1>0, <1>18 DEF TypeOK, Numbered, Locked, Ahead, Rotated, GoogleSelected
  <2>6. QED
    BY <2>1, <2>2, <2>3, <2>4, <2>5 DEF AInv
<1>19. ASSUME SignOutBegins PROVE AInv'
  <2>1. TypeOK'
    BY <1>0, <1>19 DEF TypeOK, Numbered, SignOutBegins, Idle, Turns
  <2>2. Numbered'
    BY <1>0, <1>19 DEF Plain, Numbered, SignOutBegins, Idle, Turns
  <2>3. Locked'
    BY <1>0, <1>19 DEF TypeOK, Locked, SignOutBegins, Idle, Turns
  <2>4. Fates'
    BY <1>0, <1>19 DEF TypeOK, Numbered, Fates, SignOutBegins, Idle, Turns
  <2>5. Ahead'
    BY <1>0, <1>19 DEF TypeOK, Numbered, Locked, Ahead, Rotated, SignOutBegins, Idle, Turns
  <2>6. QED
    BY <2>1, <2>2, <2>3, <2>4, <2>5 DEF AInv
<1>20. ASSUME SelectGoogle PROVE AInv'
  <2>1. TypeOK'
    BY <1>0, <1>20 DEF TypeOK, Numbered, SelectGoogle, Idle, Turns
  <2>2. Numbered'
    BY <1>0, <1>20 DEF Plain, Numbered, SelectGoogle, Idle, Turns
  <2>3. Locked'
    BY <1>0, <1>20 DEF TypeOK, Locked, SelectGoogle, Idle, Turns
  <2>4. Fates'
    BY <1>0, <1>20 DEF TypeOK, Numbered, Fates, SelectGoogle, Idle, Turns
  <2>5. Ahead'
    BY <1>0, <1>20 DEF TypeOK, Numbered, Locked, Ahead, Rotated, SelectGoogle, Idle, Turns
  <2>6. QED
    BY <2>1, <2>2, <2>3, <2>4, <2>5 DEF AInv
<1>21. ASSUME SelectLocal PROVE AInv'
  <2>1. TypeOK'
    BY <1>0, <1>21 DEF TypeOK, Numbered, SelectLocal, Idle
  <2>2. Numbered'
    BY <1>0, <1>21 DEF Plain, Numbered, SelectLocal, Idle
  <2>3. Locked'
    BY <1>0, <1>21 DEF TypeOK, Locked, SelectLocal, Idle
  <2>4. Fates'
    BY <1>0, <1>21 DEF TypeOK, Numbered, Fates, SelectLocal, Idle
  <2>5. Ahead'
    BY <1>0, <1>21 DEF TypeOK, Numbered, Locked, Ahead, Rotated, SelectLocal, Idle
  <2>6. QED
    BY <2>1, <2>2, <2>3, <2>4, <2>5 DEF AInv
<1>22. ASSUME Crash PROVE AInv'
  <2>1. ASSUME NEW c \in Callers, call[c] = "rotated" PROVE keychain.id \in Sessions
    BY <1>0, <2>1 DEF TypeOK, Numbered, Locked
  <2>2. lost' \subseteq Sessions
    BY <1>0, <1>22, <2>1 DEF TypeOK, Crash
  <2>3. TypeOK'
    BY <1>0, <1>22, <2>1, <2>2 DEF TypeOK, Numbered, Locked, Crash
  <2>4. Numbered'
    BY <1>0, <1>22, <2>1, <2>2 DEF Plain, Numbered, Crash
  <2>5. Locked'
    BY <1>0, <1>22 DEF TypeOK, Locked, Crash
  <2>6. Fates'
    BY <1>0, <1>22 DEF TypeOK, Numbered, Locked, Fates, Crash
  <2>7. Ahead'
    BY <1>0, <1>22, <2>1, <2>2 DEF TypeOK, Numbered, Locked, Ahead, Rotated, Crash
  <2>8. QED
    BY <2>3, <2>4, <2>5, <2>6, <2>7 DEF AInv
<1>23. QED
  BY <1>1, <1>2, <1>3, <1>4, <1>5, <1>6, <1>7, <1>8, <1>9, <1>10, <1>11, <1>12, <1>13,
     <1>14, <1>15, <1>16, <1>17, <1>18, <1>19, <1>20, <1>21, <1>22
  DEF Next, LoginStep, CallStep, MainStep

LEMMA StutterAInv == AInv /\ UNCHANGED vars => AInv'
BY DEF AInv, vars, counters, TypeOK, Numbered, Locked, Fates, Ahead, Rotated

\* The strengthened invariant holds in every reachable state.
THEOREM SessionInvariant == Spec => []AInv
<1>1. AInv /\ [Next]_vars => AInv'
  BY StepAInv, StutterAInv
<1>2. QED
  BY InitAInv, <1>1, PTL DEF Spec

\* The user's sign-out wins over every login and refresh under way (sign_out and run_login
\* of auth.rs), for any number of logins, callers and crashes.
THEOREM SignedOutStaysOut == Spec => []SignOutWins
<1>1. AInv => SignOutWins
  BY DEF AInv, Fates, SignOutWins
<1>2. QED
  BY SessionInvariant, <1>1, PTL

\* No refresh token is spent twice (access_token of auth.rs): while nobody holds the lock
\* the Keychain has the token that the server takes next, unless the answer was lost.
THEOREM TokensStayCurrent == Spec => []KeychainIsCurrent
<1>1. AInv => KeychainIsCurrent
  <2> SUFFICES ASSUME AInv, lock = "nobody", keychain # NoSession, keychain.id \notin lost
               PROVE  server[keychain.id].version = keychain.version
    BY DEF KeychainIsCurrent
  <2>1. ~Rotated
    BY AuthAssumption DEF AInv, Locked, Rotated
  <2>2. server[keychain.id].version = keychain.version + 0
    BY <2>1 DEF AInv, Ahead
  <2>3. QED
    BY <2>2 DEF AInv, TypeOK
<1>2. QED
  BY SessionInvariant, <1>1, PTL

-----------------------------------------------------------------------------
(* The permissions *)

\* The main thread only looks, and stops the capture.
MainMakesNoRequest ==
  pc[Main] \in {"idle", "looking", "seen", "observed", "stopping", "waiting"}

\* From the write of the preferences on, the request is on disk.
Recorded ==
  \A c \in Commands : pc[c] \in {"recorded", "prompted", "answered"} => requested

PInv == Perm!RequestsAreOnRecord /\ MainMakesNoRequest /\ Recorded

LEMMA InitPInv == Perm!Init => PInv
BY DesktopAssumption
DEF Perm!Init, PInv, Perm!RequestsAreOnRecord, MainMakesNoRequest, Recorded, Perm!TypeOK,
    Perm!Asking, Perm!Askers,
    Perm!States, Perm!Capture!Init

\* macOS answers with one of the states.
LEMMA AnswerType == Perm!TypeOK => Perm!ScreenRecordingState \in Perm!States
BY DEF Perm!TypeOK, Perm!ScreenRecordingState, Perm!States

-----------------------------------------------------------------------------
(* Each step keeps PInv *)

\* The steps of a request: only it is asking while it is between begin and finish.
LEMMA RequestKeepsPInv ==
  ASSUME PInv, NEW c \in Commands, Perm!ReadPreferences(c) \/ Perm!RequestSteps(c)
  PROVE  PInv'
<1> USE DesktopAssumption DEF Perm!Askers, Perm!Goes, Perm!osVars, Perm!coordVars, Perm!captureVars
<1>0. /\ Perm!TypeOK /\ MainMakesNoRequest /\ Recorded
      /\ \A d, e \in Commands : Perm!Asking(d) /\ Perm!Asking(e) => d = e
      /\ inFlight <=> \E d \in Commands : Perm!Asking(d)
      /\ (\E d \in Commands : pc[d] \in {"prompted", "answered"}) \/ denied => requested
  BY DEF PInv, Perm!RequestsAreOnRecord
<1>1. Perm!TypeOK'
  <2>1. CASE Perm!ReadPreferences(c) \/ Perm!BeginRequest(c) \/ Perm!RefuseRequest(c)
    <3>1. CASE Perm!ReadPreferences(c)
      BY <1>0, <3>1 DEF Perm!TypeOK, Perm!ReadPreferences
    <3>2. CASE Perm!BeginRequest(c)
      BY <1>0, <3>2 DEF Perm!TypeOK, Perm!States, Perm!BeginRequest
    <3>3. CASE Perm!RefuseRequest(c)
      BY <1>0, <3>3 DEF Perm!TypeOK, Perm!RefuseRequest
    <3>4. QED
      BY <2>1, <3>1, <3>2, <3>3
  <2>2. CASE Perm!RecordRequest(c) \/ Perm!MarkRequestFailed(c) \/ Perm!Prompt(c)
    BY <1>0, <2>2 DEF Perm!TypeOK, Perm!RecordRequest, Perm!MarkRequestFailed, Perm!Prompt
  <2>3. CASE Perm!ReadAnswer(c)
    BY <1>0, <2>3, AnswerType DEF Perm!TypeOK, Perm!ReadAnswer
  <2>4. CASE Perm!FinishRequest(c)
    <3>1. observed[c] \in Perm!States /\ "unknown" \in Perm!States
      BY <1>0 DEF Perm!TypeOK, Perm!States
    <3>2. QED
      BY <1>0, <2>4, <3>1 DEF Perm!TypeOK, Perm!FinishRequest
  <2>5. QED
    BY <2>1, <2>2, <2>3, <2>4 DEF Perm!RequestSteps
<1>2. MainMakesNoRequest'
  BY <1>0
  DEF MainMakesNoRequest, Perm!TypeOK, Perm!RequestSteps, Perm!ReadPreferences, Perm!BeginRequest,
      Perm!RefuseRequest,
      Perm!RecordRequest, Perm!MarkRequestFailed, Perm!Prompt, Perm!ReadAnswer, Perm!FinishRequest
<1>3. /\ \A d \in Commands \ {c} : pc'[d] = pc[d]
      /\ \/ /\ pc'[c] \in {"read", "idle", "looking"}
            /\ (Perm!Asking(c) /\ ~inFlight') \/ (~Perm!Asking(c) /\ inFlight' = inFlight)
         \/ pc'[c] = "begun" /\ ~inFlight /\ inFlight'
         \/ pc'[c] \in {"recorded", "prompted", "answered"} /\ Perm!Asking(c)
            /\ inFlight' = inFlight
  <2>1. CASE Perm!ReadPreferences(c) \/ Perm!BeginRequest(c) \/ Perm!RefuseRequest(c)
    <3>1. CASE Perm!ReadPreferences(c)
      BY <1>0, <3>1 DEF Perm!TypeOK, Perm!Asking, Perm!ReadPreferences
    <3>2. CASE Perm!BeginRequest(c)
      BY <1>0, <3>2 DEF Perm!TypeOK, Perm!Asking, Perm!BeginRequest
    <3>3. CASE Perm!RefuseRequest(c)
      BY <1>0, <3>3 DEF Perm!TypeOK, Perm!Asking, Perm!RefuseRequest
    <3>4. QED
      BY <2>1, <3>1, <3>2, <3>3
  <2>2. CASE Perm!RecordRequest(c) \/ Perm!MarkRequestFailed(c)
    <3>1. CASE Perm!RecordRequest(c)
      BY <1>0, <3>1 DEF Perm!TypeOK, Perm!Asking, Perm!RecordRequest
    <3>2. CASE Perm!MarkRequestFailed(c)
      BY <1>0, <3>2 DEF Perm!TypeOK, Perm!Asking, Perm!MarkRequestFailed
    <3>3. QED
      BY <2>2, <3>1, <3>2
  <2>3. CASE Perm!Prompt(c) \/ Perm!ReadAnswer(c) \/ Perm!FinishRequest(c)
    <3>1. CASE Perm!Prompt(c) \/ Perm!ReadAnswer(c)
      BY <1>0, <3>1 DEF Perm!TypeOK, Perm!Asking, Perm!Prompt, Perm!ReadAnswer
    <3>2. CASE Perm!FinishRequest(c)
      BY <1>0, <3>2 DEF Perm!TypeOK, Perm!Asking, Perm!FinishRequest
    <3>3. QED
      BY <2>3, <3>1, <3>2
  <2>4. QED
    BY <2>1, <2>2, <2>3 DEF Perm!RequestSteps
<1>4. \A d, e \in Commands : Perm!Asking(d)' /\ Perm!Asking(e)' => d = e
  BY <1>0, <1>3 DEF Perm!Asking
<1>5. inFlight' <=> \E d \in Commands : Perm!Asking(d)'
  BY <1>0, <1>3 DEF Perm!Asking
<1>6. /\ requested => requested'
      /\ pc'[c] \in {"recorded", "prompted", "answered"} \/ (denied' # denied) => requested'
  BY <1>0
  DEF Perm!TypeOK, Recorded, Perm!RequestSteps, Perm!ReadPreferences, Perm!BeginRequest,
      Perm!RefuseRequest, Perm!RecordRequest,
      Perm!MarkRequestFailed, Perm!Prompt, Perm!ReadAnswer, Perm!FinishRequest
<1>7. Recorded'
      /\ ((\E d \in Commands : pc'[d] \in {"prompted", "answered"}) \/ denied' => requested')
  BY <1>0, <1>3, <1>6 DEF Recorded
<1>8. QED
  BY <1>1, <1>2, <1>4, <1>5, <1>7 DEF PInv, Perm!RequestsAreOnRecord, Perm!Asking

\* Looking, observing and stopping the capture, by any caller.
LEMMA RefreshKeepsPInv ==
  ASSUME PInv,
         \/ Perm!Poll
         \/ \E c \in Commands : Perm!UserStop(c)
         \/ \E c \in Perm!Askers : Perm!RefreshSteps(c) \/ Perm!StopCapture(c)
  PROVE  PInv'
<1> USE DesktopAssumption DEF Perm!Askers, Perm!Goes, Perm!osVars, Perm!coordVars, Perm!captureVars
<1>0. Perm!TypeOK /\ MainMakesNoRequest /\ Recorded /\ Perm!RequestsAreOnRecord
  BY DEF PInv, Perm!RequestsAreOnRecord
<1>1. Perm!TypeOK'
  BY <1>0, AnswerType
  DEF Perm!TypeOK, Perm!States, Perm!Poll, Perm!RefreshSteps, Perm!Look, Perm!Observe,
      Perm!TakeSnapshot, Perm!CaptureStopped, Perm!StopCapture,
      Perm!UserStop, Perm!Capture!End, Perm!Capture!Ended
<1>2. MainMakesNoRequest'
  BY <1>0
  DEF MainMakesNoRequest, Perm!TypeOK, Perm!Poll, Perm!RefreshSteps, Perm!Look, Perm!Observe,
      Perm!TakeSnapshot, Perm!CaptureStopped,
      Perm!StopCapture, Perm!UserStop
<1>3. /\ UNCHANGED <<inFlight, requested, denied>>
      /\ \A d \in Commands :
           /\ pc[d] # pc'[d] => ~Perm!Asking(d)
           /\ pc[d] # pc'[d] => pc'[d] \in {"idle", "seen", "observed", "stopping", "waiting"}
  BY <1>0
  DEF Perm!TypeOK, Perm!Asking, Perm!Poll, Perm!RefreshSteps, Perm!Look, Perm!Observe,
      Perm!TakeSnapshot, Perm!CaptureStopped, Perm!StopCapture,
      Perm!UserStop
<1>4. QED
  BY <1>0, <1>1, <1>2, <1>3 DEF PInv, Perm!RequestsAreOnRecord, Recorded, Perm!Asking

\* The capture, macOS and a relaunch.
LEMMA RestKeepsPInv ==
  ASSUME PInv, Perm!CaptureSteps \/ Perm!UserDecides \/ Perm!Relaunch
  PROVE  PInv'
<1> USE DesktopAssumption DEF Perm!Askers, Perm!osVars, Perm!coordVars, Perm!captureVars
<1>0. Perm!TypeOK /\ MainMakesNoRequest /\ Recorded /\ Perm!RequestsAreOnRecord
  BY DEF PInv, Perm!RequestsAreOnRecord
<1>1. CASE Perm!CaptureSteps
  BY <1>0, <1>1
  DEF Perm!CaptureSteps, Perm!OpenSession, Perm!CaptureMoves, Perm!Capture!Begin,
      Perm!Capture!OpenSession, Perm!Capture!Started,
      Perm!Capture!CloseSession, Perm!Capture!Abandoned, Perm!Capture!Break,
      PInv, Perm!RequestsAreOnRecord, MainMakesNoRequest, Recorded, Perm!TypeOK, Perm!Asking
<1>2. CASE Perm!UserDecides
  BY <1>0, <1>2
  DEF Perm!UserDecides, PInv, Perm!RequestsAreOnRecord, MainMakesNoRequest, Recorded, Perm!TypeOK,
      Perm!Asking
<1>3. CASE Perm!Relaunch
  <2>1. Perm!TypeOK'
    BY <1>0, <1>3 DEF Perm!Relaunch, Perm!TypeOK, Perm!States
  <2>2. \A c \in Perm!Askers : pc'[c] = "idle"
    BY <1>3 DEF Perm!Relaunch
  <2>3. ~inFlight' /\ requested' = requested /\ denied' = denied
    BY <1>3 DEF Perm!Relaunch
  <2>4. QED
    BY <1>0, <2>1, <2>2, <2>3
    DEF PInv, Perm!RequestsAreOnRecord, MainMakesNoRequest, Recorded, Perm!Asking
<1>4. QED
  BY <1>1, <1>2, <1>3

LEMMA NextPInv == PInv /\ [Perm!Next]_(Perm!vars) => PInv'
<1> SUFFICES ASSUME PInv, [Perm!Next]_(Perm!vars) PROVE PInv'
  OBVIOUS
<1>1. CASE \E c \in Commands : Perm!ReadPreferences(c) \/ Perm!RequestSteps(c)
  BY <1>1, RequestKeepsPInv
<1>2. CASE \/ Perm!Poll
           \/ \E c \in Commands : Perm!UserStop(c)
           \/ \E c \in Perm!Askers : Perm!RefreshSteps(c) \/ Perm!StopCapture(c)
  BY <1>2, RefreshKeepsPInv
<1>3. CASE Perm!CaptureSteps \/ Perm!UserDecides \/ Perm!Relaunch
  BY <1>3, RestKeepsPInv
<1>4. CASE UNCHANGED Perm!vars
  BY <1>4
  DEF Perm!vars, PInv, Perm!RequestsAreOnRecord, MainMakesNoRequest, Recorded, Perm!TypeOK,
      Perm!Asking
<1>5. QED
  BY <1>1, <1>2, <1>3, <1>4 DEF Perm!Next

-----------------------------------------------------------------------------

\* However many requests race, fail and are cut short by a relaunch, one at a time is
\* under way, in_flight says so, and no prompt is shown off the record.
THEOREM RequestsStayOnRecord == Perm!Spec => []RequestsAreOnRecord
<1>1. PInv => Perm!RequestsAreOnRecord
  BY DEF PInv
<1>2. QED
  BY <1>1, InitPInv, NextPInv, PTL DEF Perm!Spec, RequestsAreOnRecord

==================================================================================
