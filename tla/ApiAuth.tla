------------------------------ MODULE ApiAuth ------------------------------
(***************************************************************************)
(* Wallet sign-in of the HTTP API (apps/api/src/app.js, store.js, auth.js):*)
(* a challenge is issued, its message is signed by a wallet, and a verify  *)
(* request exchanges it for a session token.  The store is PostgreSQL: one *)
(* statement is atomic, but a verify request makes three, between which    *)
(* other requests run, time passes and the process may die.                *)
(***************************************************************************)
EXTENDS Naturals, FiniteSets

CONSTANTS
  Accounts,
  NoAccount,
  Challenges,     \* challenge ids; random, so each is issued once
  NoChallenge,
  Tokens,         \* session tokens; random, so each is issued once
  Requests,       \* slots for requests in flight
  ChallengeLife,  \* five minutes
  SessionLife,    \* a day
  MaxTime         \* bound: last instant

ASSUME NullAssumption == NoAccount \notin Accounts /\ NoChallenge \notin Challenges
ASSUME LifeAssumption == ChallengeLife \in Nat \ {0} /\ SessionLife \in Nat \ {0} /\ MaxTime \in Nat

VARIABLES
  now,
  challenges,   \* proofcast_auth_challenges
  sessions,     \* proofcast_auth_sessions
  verifying,    \* per slot, the verify request in flight
  minted        \* history: the challenge each token was created from

authVars == <<now, challenges, sessions, verifying, minted>>

NotIssued == [address |-> NoAccount, expiresAt |-> 0, consumed |-> FALSE]
NotLoggedIn == [address |-> NoAccount, expiresAt |-> 0]
Idle == [stage |-> "idle", challenge |-> NoChallenge, recovered |-> NoAccount]

ChallengeType == [address : Accounts \cup {NoAccount}, expiresAt : Nat, consumed : BOOLEAN]
AuthSessionType == [address : Accounts \cup {NoAccount}, expiresAt : Nat]
VerifyType ==
  [stage : {"idle", "checked", "consumed"},
   challenge : Challenges \cup {NoChallenge},
   recovered : Accounts \cup {NoAccount}]

\* A challenge a verify request may still use.
Open(c) == challenges[c].address # NoAccount /\ ~challenges[c].consumed /\ challenges[c].expiresAt > now

\* getSession: the account a token stands for.
Live(t) == sessions[t].address # NoAccount /\ sessions[t].expiresAt > now
Actor(t) == sessions[t].address

AuthInit ==
  /\ now = 0
  /\ challenges = [c \in Challenges |-> NotIssued]
  /\ sessions = [t \in Tokens |-> NotLoggedIn]
  /\ verifying = [r \in Requests |-> Idle]
  /\ minted = [t \in Tokens |-> NoChallenge]

Tick ==
  /\ now < MaxTime
  /\ now' = now + 1
  /\ UNCHANGED <<challenges, sessions, verifying, minted>>

\* Anyone may ask for a challenge for any address.
CreateChallenge(c, a) ==
  /\ challenges[c] = NotIssued
  /\ challenges' = [challenges EXCEPT ![c] =
       [address |-> a, expiresAt |-> now + ChallengeLife, consumed |-> FALSE]]
  /\ UNCHANGED <<now, sessions, verifying, minted>>

\* A verify request reads the challenge and recovers the signer of its message, which is
\* bound to address, nonce, origin and expiry.
SignerMatches(c, signer) == signer = challenges[c].address

CheckChallenge(r, c, signer) ==
  /\ verifying[r] = Idle
  /\ Open(c) /\ SignerMatches(c, signer)
  /\ verifying' = [verifying EXCEPT ![r] =
       [stage |-> "checked", challenge |-> c, recovered |-> signer]]
  /\ UNCHANGED <<now, challenges, sessions, minted>>

\* Faulty variant of ConsumeChallenge: the update does not look at consumed_at again.
ConsumeChallengeUnchecked(r) ==
  LET c == verifying[r].challenge IN
  /\ verifying[r].stage = "checked"
  /\ challenges' = [challenges EXCEPT ![c].consumed = TRUE]
  /\ verifying' = [verifying EXCEPT ![r].stage = "consumed"]
  /\ UNCHANGED <<now, sessions, minted>>

\* The conditional UPDATE decides between the requests that got this far; the others
\* answer CHALLENGE_REPLAYED.
ConsumeChallenge(r) ==
  LET c == verifying[r].challenge IN
  /\ verifying[r].stage = "checked"
  /\ \/ /\ Open(c)
        /\ challenges' = [challenges EXCEPT ![c].consumed = TRUE]
        /\ verifying' = [verifying EXCEPT ![r].stage = "consumed"]
     \/ /\ ~Open(c)
        /\ verifying' = [verifying EXCEPT ![r] = Idle]
        /\ UNCHANGED challenges
  /\ UNCHANGED <<now, sessions, minted>>

\* Faulty variant of CreateSession: a token derived from the account instead of a random one.
CreateSessionSameToken(r, t) ==
  /\ verifying[r].stage = "consumed"
  /\ sessions' = [sessions EXCEPT ![t] =
       [address |-> verifying[r].recovered, expiresAt |-> now + SessionLife]]
  /\ minted' = [minted EXCEPT ![t] = verifying[r].challenge]
  /\ verifying' = [verifying EXCEPT ![r] = Idle]
  /\ UNCHANGED <<now, challenges>>

\* A token nobody was given before.
CreateSession(r, t) ==
  /\ verifying[r].stage = "consumed"
  /\ minted[t] = NoChallenge
  /\ sessions' = [sessions EXCEPT ![t] =
       [address |-> verifying[r].recovered, expiresAt |-> now + SessionLife]]
  /\ minted' = [minted EXCEPT ![t] = verifying[r].challenge]
  /\ verifying' = [verifying EXCEPT ![r] = Idle]
  /\ UNCHANGED <<now, challenges>>

\* DELETE of the session; allowed with any token, expired ones included.
Logout(t) ==
  /\ sessions[t] # NotLoggedIn
  /\ sessions' = [sessions EXCEPT ![t] = NotLoggedIn]
  /\ UNCHANGED <<now, challenges, verifying, minted>>

\* The process dies, or a statement fails: the requests in flight are gone, what they
\* committed is not.
DropVerify(r) ==
  /\ verifying[r] # Idle
  /\ verifying' = [verifying EXCEPT ![r] = Idle]
  /\ UNCHANGED <<now, challenges, sessions, minted>>

AuthNext ==
  \/ Tick
  \/ \E c \in Challenges, a \in Accounts : CreateChallenge(c, a)
  \/ \E r \in Requests, c \in Challenges, s \in Accounts : CheckChallenge(r, c, s)
  \/ \E r \in Requests : ConsumeChallenge(r) \/ DropVerify(r)
  \/ \E r \in Requests, t \in Tokens : CreateSession(r, t)
  \/ \E t \in Tokens : Logout(t)

AuthSpec == AuthInit /\ [][AuthNext]_authVars

-----------------------------------------------------------------------------
(* Properties                                                              *)

AuthTypeOK ==
  /\ now \in Nat
  /\ challenges \in [Challenges -> ChallengeType]
  /\ sessions \in [Tokens -> AuthSessionType]
  /\ verifying \in [Requests -> VerifyType]
  /\ minted \in [Tokens -> Challenges \cup {NoChallenge}]

\* A signed challenge is good for one session, however many requests present it at the
\* same time and whatever dies in between (app.js: the challenge is read, verified and
\* only then consumed; test/api-postgres.test.js sends six at once).
OneSessionPerChallenge ==
  \A t, u \in Tokens : minted[t] = minted[u] /\ minted[t] # NoChallenge => t = u

\* Whoever holds a session proved control of the address the challenge was issued for,
\* whatever was re-issued or consumed since.
SessionsAreProven ==
  \A t \in Tokens : sessions[t] # NotLoggedIn =>
    /\ minted[t] # NoChallenge
    /\ challenges[minted[t]].consumed
    /\ sessions[t].address = challenges[minted[t]].address

\* A token that was handed out and does not authenticate any more, by logout or by time,
\* never does again, not through a verify request that was in flight either.
LoggedOutStaysOut ==
  [][\A t \in Tokens : minted[t] # NoChallenge /\ ~Live(t) => ~Live(t)']_authVars

=============================================================================
