-------------------------- MODULE ApiSessionsProofs --------------------------
(***************************************************************************)
(* Who stands in a row signed for it, and what is public was confirmed by  *)
(* the observer, for any number of accounts, sessions and requests in      *)
(* flight.  The sign-in works below the rows as it does alone: that a      *)
(* challenge is good for one session is proved about it first.             *)
(***************************************************************************)
EXTENDS ApiSessions, TLAPS

-----------------------------------------------------------------------------
(* The sign-in alone                                                       *)

\* What a verify request in flight knows: its challenge was issued to the signer it
\* recovered, and has been consumed once the request got past the update.
SlotsSound ==
  \A r \in Requests : verifying[r].stage # "idle" =>
    /\ verifying[r].challenge \in Challenges
    /\ verifying[r].recovered \in Accounts
    /\ verifying[r].recovered = challenges[verifying[r].challenge].address
    /\ verifying[r].stage = "consumed" => challenges[verifying[r].challenge].consumed

\* A consumed challenge is held by one request at most, and by none once its token is out.
ConsumedOnce ==
  /\ \A r, q \in Requests :
       verifying[r].stage = "consumed" /\ verifying[q].stage = "consumed"
         /\ verifying[r].challenge = verifying[q].challenge => r = q
  /\ \A r \in Requests, t \in Tokens :
       verifying[r].stage = "consumed" => minted[t] # verifying[r].challenge

\* Tokens come from consumed challenges only.
MintedFromConsumed ==
  \A t \in Tokens : minted[t] # NoChallenge => challenges[minted[t]].consumed

AuthInv ==
  AuthTypeOK /\ SlotsSound /\ ConsumedOnce /\ MintedFromConsumed /\ OneSessionPerChallenge /\ SessionsAreProven

\* Nothing is issued, in flight or logged in at the start.
LEMMA AuthInvInit == AuthInit => AuthInv
  BY NullAssumption
  DEF AuthInit, AuthInv, AuthTypeOK, SlotsSound, ConsumedOnce, MintedFromConsumed, OneSessionPerChallenge,
      SessionsAreProven, NotIssued, NotLoggedIn, Idle, ChallengeType, AuthSessionType, VerifyType

\* Every statement of a sign-in request, of a logout and of the clock keeps the invariant.
LEMMA AuthInvStep == AuthInv /\ [AuthNext]_authVars => AuthInv'
<1> SUFFICES ASSUME AuthInv, [AuthNext]_authVars PROVE AuthInv'
  OBVIOUS
<1> USE NullAssumption, LifeAssumption
<1> USE DEF AuthInv
<1>1. CASE Tick
  BY <1>1 DEF Tick, AuthTypeOK, SlotsSound, ConsumedOnce, MintedFromConsumed, OneSessionPerChallenge, SessionsAreProven
<1>2. ASSUME NEW c \in Challenges, NEW a \in Accounts, CreateChallenge(c, a) PROVE AuthInv'
  <2> USE <1>2 DEF CreateChallenge
  <2>1. AuthTypeOK'
    BY DEF AuthTypeOK, ChallengeType
  <2>2. ~challenges[c].consumed /\ challenges[c].address = NoAccount
    BY DEF AuthTypeOK, NotIssued
  <2>3. SlotsSound'
    BY <2>2 DEF SlotsSound, AuthTypeOK
  <2>4. MintedFromConsumed' /\ SessionsAreProven'
    BY <2>2 DEF MintedFromConsumed, SessionsAreProven, AuthTypeOK
  <2>5. ConsumedOnce' /\ OneSessionPerChallenge'
    BY DEF ConsumedOnce, OneSessionPerChallenge
  <2> QED
    BY <2>1, <2>3, <2>4, <2>5
<1>3. ASSUME NEW r \in Requests, NEW c \in Challenges, NEW s \in Accounts, CheckChallenge(r, c, s) PROVE AuthInv'
  <2> USE <1>3 DEF CheckChallenge
  <2>1. AuthTypeOK'
    BY DEF AuthTypeOK, VerifyType
  <2>2. verifying'[r] = [stage |-> "checked", challenge |-> c, recovered |-> s]
        /\ \A q \in Requests \ {r} : verifying'[q] = verifying[q]
    BY DEF AuthTypeOK
  <2>3. SlotsSound' /\ ConsumedOnce'
    BY <2>2 DEF SlotsSound, ConsumedOnce, SignerMatches
  <2>4. MintedFromConsumed' /\ OneSessionPerChallenge' /\ SessionsAreProven'
    BY DEF MintedFromConsumed, OneSessionPerChallenge, SessionsAreProven
  <2> QED
    BY <2>1, <2>3, <2>4
<1>4. ASSUME NEW r \in Requests, ConsumeChallenge(r) PROVE AuthInv'
  <2> DEFINE c == verifying[r].challenge
  <2>1. c \in Challenges /\ verifying[r].stage = "checked"
    BY <1>4 DEF ConsumeChallenge, SlotsSound
  <2>2. CASE Open(c)
    <3>1. /\ challenges' = [challenges EXCEPT ![c].consumed = TRUE]
          /\ verifying' = [verifying EXCEPT ![r].stage = "consumed"]
          /\ UNCHANGED <<now, sessions, minted>>
      BY <1>4, <2>2 DEF ConsumeChallenge
    <3>2. ~challenges[c].consumed
      BY <2>2 DEF Open
    <3>3. AuthTypeOK'
      <4>1. challenges' \in [Challenges -> ChallengeType]
        BY <2>1, <3>1 DEF AuthTypeOK, ChallengeType
      <4>2. verifying' \in [Requests -> VerifyType]
        BY <3>1 DEF AuthTypeOK, VerifyType
      <4> QED
        BY <3>1, <4>1, <4>2 DEF AuthTypeOK
    <3>4. /\ verifying'[r].stage = "consumed" /\ verifying'[r].challenge = c
          /\ verifying'[r].recovered = verifying[r].recovered
          /\ \A q \in Requests \ {r} : verifying'[q] = verifying[q]
      BY <3>1 DEF AuthTypeOK, VerifyType
    <3>5. /\ challenges'[c].consumed
          /\ \A d \in Challenges : challenges'[d].address = challenges[d].address
          /\ \A d \in Challenges : challenges[d].consumed => challenges'[d].consumed
      BY <2>1, <3>1 DEF AuthTypeOK, ChallengeType
    <3>6. SlotsSound'
      BY <2>1, <3>4, <3>5 DEF SlotsSound
    <3>7. ConsumedOnce'
      BY <2>1, <3>1, <3>2, <3>4 DEF ConsumedOnce, SlotsSound, MintedFromConsumed
    <3>8. MintedFromConsumed' /\ OneSessionPerChallenge' /\ SessionsAreProven'
      BY <3>1, <3>5 DEF MintedFromConsumed, OneSessionPerChallenge, SessionsAreProven, AuthTypeOK
    <3> QED
      BY <3>3, <3>6, <3>7, <3>8
  <2>3. CASE ~Open(c)
    <3>1. verifying' = [verifying EXCEPT ![r] = Idle] /\ UNCHANGED <<now, challenges, sessions, minted>>
      BY <1>4, <2>3 DEF ConsumeChallenge
    <3> QED
      BY <3>1 DEF Idle, AuthTypeOK, VerifyType, SlotsSound, ConsumedOnce, MintedFromConsumed,
                  OneSessionPerChallenge, SessionsAreProven
  <2> QED
    BY <2>2, <2>3
<1>5. ASSUME NEW r \in Requests, DropVerify(r) PROVE AuthInv'
  BY <1>5 DEF DropVerify, Idle, AuthTypeOK, VerifyType, SlotsSound, ConsumedOnce, MintedFromConsumed,
              OneSessionPerChallenge, SessionsAreProven
<1>6. ASSUME NEW r \in Requests, NEW t \in Tokens, CreateSession(r, t) PROVE AuthInv'
  <2> DEFINE c == verifying[r].challenge
  <2> USE <1>6 DEF CreateSession
  <2>1. c \in Challenges /\ challenges[c].consumed /\ verifying[r].recovered = challenges[c].address
        /\ verifying[r].recovered \in Accounts
    BY DEF SlotsSound
  <2>2. AuthTypeOK'
    BY <2>1 DEF AuthTypeOK, AuthSessionType, VerifyType, Idle
  <2>3. /\ minted'[t] = c /\ \A u \in Tokens \ {t} : minted'[u] = minted[u]
        /\ verifying'[r] = Idle /\ \A q \in Requests \ {r} : verifying'[q] = verifying[q]
        /\ sessions'[t].address = verifying[r].recovered /\ \A u \in Tokens \ {t} : sessions'[u] = sessions[u]
    BY DEF AuthTypeOK
  <2>4. SlotsSound'
    BY <2>3 DEF SlotsSound, Idle
  <2>5. ConsumedOnce'
    BY <2>3 DEF ConsumedOnce, Idle
  <2>6. MintedFromConsumed' /\ SessionsAreProven'
    BY <2>1, <2>3 DEF MintedFromConsumed, SessionsAreProven
  <2>7. OneSessionPerChallenge'
    BY <2>3 DEF OneSessionPerChallenge, ConsumedOnce
  <2> QED
    BY <2>2, <2>4, <2>5, <2>6, <2>7
<1>7. ASSUME NEW t \in Tokens, Logout(t) PROVE AuthInv'
  <2> USE <1>7 DEF Logout
  <2>1. AuthTypeOK'
    BY DEF AuthTypeOK, AuthSessionType, NotLoggedIn
  <2>2. SessionsAreProven'
    BY DEF SessionsAreProven, AuthTypeOK
  <2> QED
    BY <2>1, <2>2 DEF SlotsSound, ConsumedOnce, MintedFromConsumed, OneSessionPerChallenge
<1>8. CASE UNCHANGED authVars
  BY <1>8 DEF authVars, AuthTypeOK, SlotsSound, ConsumedOnce, MintedFromConsumed, OneSessionPerChallenge, SessionsAreProven
<1> QED
  BY <1>1, <1>2, <1>3, <1>4, <1>5, <1>6, <1>7, <1>8 DEF AuthNext

\* The invariant of the sign-in holds in every state.
LEMMA AuthInvAlways == AuthSpec => []AuthInv
  BY AuthInvInit, AuthInvStep, PTL DEF AuthSpec

\* However many verify requests present one signed challenge, one of them gets a session.
THEOREM AuthChallengeOnce == AuthSpec => []OneSessionPerChallenge
<1>1. AuthInv => OneSessionPerChallenge
  BY DEF AuthInv
<1> QED
  BY <1>1, AuthInvAlways, PTL

\* Every session belongs to the address whose challenge was signed and consumed.
THEOREM AuthSessionsProven == AuthSpec => []SessionsAreProven
<1>1. AuthInv => SessionsAreProven
  BY DEF AuthInv
<1> QED
  BY <1>1, AuthInvAlways, PTL

\* A token that stopped authenticating never starts again.
THEOREM AuthLogoutFinal == AuthSpec => LoggedOutStaysOut
<1>1. AuthInv /\ [AuthNext]_authVars =>
        [\A t \in Tokens : minted[t] # NoChallenge /\ ~Live(t) => ~Live(t)']_authVars
  <2> SUFFICES ASSUME AuthInv, AuthNext, NEW t \in Tokens, minted[t] # NoChallenge, ~Live(t)
               PROVE ~Live(t)'
    BY DEF authVars
  <2> USE NullAssumption, LifeAssumption
  <2> USE DEF Live, AuthInv, AuthTypeOK, AuthSessionType
  <2>1. CASE Tick
    BY <2>1 DEF Tick
  <2>2. CASE \E c \in Challenges, a \in Accounts : CreateChallenge(c, a)
    BY <2>2 DEF CreateChallenge
  <2>3. CASE \E r \in Requests, c \in Challenges, s \in Accounts : CheckChallenge(r, c, s)
    BY <2>3 DEF CheckChallenge
  <2>4. CASE \E r \in Requests : ConsumeChallenge(r) \/ DropVerify(r)
    BY <2>4 DEF ConsumeChallenge, DropVerify
  <2>5. CASE \E r \in Requests, u \in Tokens : CreateSession(r, u)
    BY <2>5 DEF CreateSession
  <2>6. CASE \E u \in Tokens : Logout(u)
    BY <2>6 DEF Logout, NotLoggedIn
  <2> QED
    BY <2>1, <2>2, <2>3, <2>4, <2>5, <2>6 DEF AuthNext
<1> QED
  BY <1>1, AuthInvAlways, PTL DEF AuthSpec, LoggedOutStaysOut

-----------------------------------------------------------------------------
(* The rows                                                                *)

Proven == {challenges[c].address : c \in {d \in Challenges : challenges[d].consumed}}

\* A payload, in a row or in the hands of a request, names only accounts that signed in.
SignedFor(row) ==
  /\ row # NoRow => row.creator \in Proven
  /\ \A e \in row.enrollments : e.follower \in Proven

\* A payload has the creator and deadline the observer confirmed, and no withdrawal or
\* signal that the observer did not record.
Explains(seen, row) ==
  /\ seen.creator = row.creator
  /\ seen.enrollUntil = row.enrollUntil
  /\ row.withdrawn => seen.withdrawn
  /\ row.signalled => seen.signalled

AsObserved(i, row) == Explains(observed[i], row)

\* What the observer recorded of a session stays recorded.
StillObserved(i) ==
  /\ observed'[i].creator = observed[i].creator
  /\ observed'[i].enrollUntil = observed[i].enrollUntil
  /\ observed[i].withdrawn => observed'[i].withdrawn
  /\ observed[i].signalled => observed'[i].signalled

\* What a request in flight has in hand.
PostsSound ==
  \A r \in Requests :
    LET p == posting[r] IN
    /\ p.stage # "idle" => p.account \in Proven \cap Accounts
    /\ p.stage = "append" =>
         /\ SignedFor(p.session) /\ AsObserved(p.id, p.session)
         /\ p.session.status = "CONFIRMED" /\ rows[p.id].status = "CONFIRMED"

RowsSound ==
  \A i \in Ids : SignedFor(rows[i]) /\ (rows[i].status = "CONFIRMED" => AsObserved(i, rows[i]))

ApiInv == AuthInv /\ TypeOK /\ PostsSound /\ RowsSound

\* There are no rows and no requests at the start.
LEMMA ApiInit == Init => ApiInv
<1> SUFFICES ASSUME Init PROVE ApiInv
  OBVIOUS
<1>1. NoRow \in RowType /\ NoRow.enrollments = {}
  BY DEF NoRow, RowType
<1>2. NoPost \in PostType
  BY <1>1, DeadlineAssumption DEF NoPost, PostType
<1>3. AuthInv
  BY AuthInvInit DEF Init
<1>4. TypeOK
  BY <1>1, <1>2, <1>3 DEF Init, TypeOK, AuthInv
<1>5. PostsSound
  BY DEF Init, PostsSound, NoPost
<1>6. RowsSound
  BY <1>1 DEF Init, RowsSound, SignedFor, NoRow
<1> QED
  BY <1>3, <1>4, <1>5, <1>6 DEF ApiInv

-----------------------------------------------------------------------------
(* The sign-in                                                             *)

\* Every step of the API is one of the sign-in or leaves its tables alone.
LEMMA AuthBelow == [Next]_vars => [AuthNext]_authVars
<1>1. ASSUME RowNext PROVE UNCHANGED authVars
  BY <1>1 DEF RowNext, Authenticate, SaveDraft, ReadSession, DropPost, AppendEnrollment, Confirm, Observe
<1> QED
  BY <1>1 DEF Next, vars

\* A consumed challenge stays consumed, for the same address.
LEMMA ProvenGrows == ASSUME AuthTypeOK, [AuthNext]_authVars PROVE Proven \subseteq Proven'
<1> SUFFICES ASSUME NEW d \in Challenges, challenges[d].consumed
             PROVE  challenges'[d].consumed /\ challenges'[d].address = challenges[d].address
  BY DEF Proven
<1>1. challenges \in [Challenges -> ChallengeType] /\ challenges[d] \in ChallengeType
  BY DEF AuthTypeOK
<1>2. ASSUME NEW c \in Challenges, NEW a \in Accounts, CreateChallenge(c, a)
      PROVE  challenges'[d] = challenges[d]
  BY <1>1, <1>2 DEF CreateChallenge, NotIssued
<1>3. ASSUME NEW r \in Requests, ConsumeChallenge(r)
      PROVE  challenges'[d].consumed /\ challenges'[d].address = challenges[d].address
  <2>1. \/ challenges' = challenges
        \/ \E c : challenges' = [challenges EXCEPT ![c].consumed = TRUE]
    BY <1>3 DEF ConsumeChallenge
  <2> QED
    BY <1>1, <2>1 DEF ChallengeType
<1>4. ASSUME \/ Tick \/ UNCHANGED authVars
             \/ \E r \in Requests, c \in Challenges, s \in Accounts : CheckChallenge(r, c, s)
             \/ \E r \in Requests : DropVerify(r)
             \/ \E r \in Requests, t \in Tokens : CreateSession(r, t)
             \/ \E t \in Tokens : Logout(t)
      PROVE  challenges' = challenges
  BY <1>4 DEF Tick, authVars, CheckChallenge, DropVerify, CreateSession, Logout
<1> QED
  BY <1>1, <1>2, <1>3, <1>4 DEF AuthNext

\* A sign-in step keeps what is known of the rows.
LEMMA AuthKeepsRows ==
  ASSUME ApiInv, [AuthNext]_authVars, UNCHANGED rowVars PROVE ApiInv'
<1>1. AuthInv'
  BY AuthInvStep DEF ApiInv
<1>2. Proven \subseteq Proven'
  BY ProvenGrows DEF ApiInv, AuthInv
<1>3. TypeOK'
  BY <1>1 DEF ApiInv, TypeOK, AuthInv, rowVars
<1>4. \A row : SignedFor(row) => SignedFor(row)'
  BY <1>2 DEF SignedFor
<1>5. PostsSound'
  BY <1>2, <1>4 DEF ApiInv, PostsSound, AsObserved, rowVars
<1>6. RowsSound'
  BY <1>4 DEF ApiInv, RowsSound, AsObserved, rowVars
<1> QED
  BY <1>1, <1>3, <1>5, <1>6 DEF ApiInv

-----------------------------------------------------------------------------
(* The rows                                                                *)

\* What the proofs of the steps below use of the invariant, taken apart once.
LEMMA RowFacts ==
  ASSUME ApiInv
  PROVE  /\ NoPost \in PostType /\ NoPost.stage = "idle"
         /\ rows \in [Ids -> RowType] /\ posting \in [Requests -> PostType]
         /\ observed \in [Ids -> RowType]
         /\ \A a \in acked : a.id \in Ids /\ a.entry \in EntryType
         /\ UNCHANGED authVars => AuthInv' /\ AuthTypeOK' /\ Proven' = Proven
<1>1. NoRow \in RowType
  BY DEF NoRow, RowType
<1>2. NoPost \in PostType /\ NoPost.stage = "idle"
  BY <1>1, DeadlineAssumption DEF NoPost, PostType
<1>3. ASSUME UNCHANGED authVars PROVE AuthInv' /\ AuthTypeOK' /\ Proven' = Proven
  <2>1. AuthInv'
    BY <1>3, AuthInvStep DEF ApiInv
  <2>2. AuthTypeOK'
    BY <2>1 DEF AuthInv
  <2>3. Proven' = Proven
    BY <1>3 DEF Proven, authVars
  <2> QED
    BY <2>1, <2>2, <2>3
<1> QED
  BY <1>2, <1>3 DEF ApiInv, TypeOK

\* A request that reads, or ends.
LEMMA PutPost ==
  ASSUME ApiInv, UNCHANGED <<authVars, rows, observed, acked>>, NEW r \in Requests, NEW p \in PostType,
         posting' = [posting EXCEPT ![r] = p],
         p.stage # "idle" => p.account \in Proven \cap Accounts,
         p.stage = "append" => p.session = rows[p.id] /\ rows[p.id].status = "CONFIRMED"
  PROVE  ApiInv'
<1>1. AuthInv' /\ AuthTypeOK' /\ Proven' = Proven
  BY RowFacts
<1>2. posting'[r] = p /\ \A q \in Requests \ {r} : posting'[q] = posting[q]
  BY RowFacts
<1>3. TypeOK'
  BY <1>1, RowFacts DEF TypeOK
<1>4. \A row : SignedFor(row) => SignedFor(row)'
  BY <1>1 DEF SignedFor
<1>5. RowsSound'
  BY <1>4 DEF ApiInv, RowsSound, AsObserved
<1>6. PostsSound'
  <2> SUFFICES ASSUME NEW q \in Requests, NEW x, x = posting'[q]
               PROVE  /\ x.stage # "idle" => x.account \in Proven' \cap Accounts
                      /\ x.stage = "append" =>
                           /\ SignedFor(x.session)' /\ AsObserved(x.id, x.session)'
                           /\ x.session.status = "CONFIRMED" /\ rows'[x.id].status = "CONFIRMED"
    BY DEF PostsSound
  <2>1. CASE q = r
    <3>1. x = p /\ p.id \in Ids
      BY <1>2, <2>1 DEF PostType
    <3>2. p.stage = "append" => SignedFor(p.session) /\ AsObserved(p.id, p.session)
      BY <3>1 DEF ApiInv, RowsSound
    <3> QED
      BY <1>1, <1>4, <3>1, <3>2 DEF AsObserved
  <2>2. CASE q # r
    <3>1. x = posting[q]
      BY <1>2, <2>2
    <3> QED
      BY <1>1, <1>4, <3>1 DEF ApiInv, PostsSound, AsObserved
  <2> QED
    BY <2>1, <2>2
<1> QED
  BY <1>1, <1>3, <1>5, <1>6 DEF ApiInv

\* A row that is written, whoever writes it: what is confirmed stays confirmed, and as the
\* observer confirmed it.
LEMMA PutRow ==
  ASSUME ApiInv, UNCHANGED authVars, NEW i \in Ids, NEW row \in RowType,
         rows' = [rows EXCEPT ![i] = row], SignedFor(row),
         rows[i].status = "CONFIRMED" => row.status = "CONFIRMED",
         row.status = "CONFIRMED" => Explains(observed'[i], row),
         observed' \in [Ids -> RowType],
         \A j \in Ids \ {i} : observed'[j] = observed[j],
         rows[i].status = "CONFIRMED" => StillObserved(i),
         posting' \in [Requests -> PostType],
         \A r \in Requests : posting'[r] = posting[r] \/ posting'[r] = NoPost,
         \A a \in acked' : a.id \in Ids /\ a.entry \in EntryType
  PROVE  ApiInv'
<1>1. AuthInv' /\ AuthTypeOK' /\ Proven' = Proven
  BY RowFacts
<1>2. /\ rows' \in [Ids -> RowType] /\ rows'[i] = row
      /\ \A j \in Ids \ {i} : rows'[j] = rows[j] /\ observed'[j] = observed[j]
  BY RowFacts
<1>3. TypeOK'
  BY <1>1, <1>2 DEF TypeOK
<1>4. \A x : SignedFor(x) => SignedFor(x)'
  BY <1>1 DEF SignedFor
<1>5. RowsSound'
  <2> SUFFICES ASSUME NEW j \in Ids, NEW x, x = rows'[j]
               PROVE  SignedFor(x)' /\ (x.status = "CONFIRMED" => AsObserved(j, x)')
    BY DEF RowsSound
  <2>1. CASE j = i
    BY <1>2, <1>4, <2>1 DEF AsObserved
  <2>2. CASE j # i
    <3>1. x = rows[j] /\ observed'[j] = observed[j]
      BY <1>2, <2>2
    <3> QED
      BY <1>4, <3>1 DEF ApiInv, RowsSound, AsObserved
  <2> QED
    BY <2>1, <2>2
<1>6. PostsSound'
  <2> SUFFICES ASSUME NEW q \in Requests, NEW x, x = posting'[q]
               PROVE  /\ x.stage # "idle" => x.account \in Proven' \cap Accounts
                      /\ x.stage = "append" =>
                           /\ SignedFor(x.session)' /\ AsObserved(x.id, x.session)'
                           /\ x.session.status = "CONFIRMED" /\ rows'[x.id].status = "CONFIRMED"
    BY DEF PostsSound
  <2>1. CASE x = NoPost
    BY <2>1, RowFacts
  <2>2. CASE x = posting[q] /\ x.stage # "append"
    BY <1>1, <2>2 DEF ApiInv, PostsSound
  <2>3. CASE x = posting[q] /\ x.stage = "append"
    <3>1. x \in PostType /\ x.id \in Ids
      BY <2>3, RowFacts DEF PostType
    <3>2. /\ x.account \in Proven \cap Accounts /\ SignedFor(x.session) /\ AsObserved(x.id, x.session)
          /\ x.session.status = "CONFIRMED" /\ rows[x.id].status = "CONFIRMED"
      BY <2>3 DEF ApiInv, PostsSound
    <3>3. StillObserved(x.id) /\ rows'[x.id].status = "CONFIRMED"
      BY <1>2, <3>1, <3>2 DEF StillObserved
    <3>4. AsObserved(x.id, x.session)'
      BY <3>2, <3>3 DEF AsObserved, Explains, StillObserved
    <3> QED
      BY <1>1, <1>4, <3>2, <3>3, <3>4
  <2> QED
    BY <2>1, <2>2, <2>3
<1> QED
  BY <1>1, <1>3, <1>5, <1>6 DEF ApiInv

\* An account that a token stands for has signed a challenge.
LEMMA ActorIsProven == ASSUME ApiInv, NEW t \in Tokens, Live(t) PROVE Actor(t) \in Proven /\ Actor(t) \in Accounts
<1>1. sessions[t] # NotLoggedIn /\ sessions[t].address \in Accounts
  BY DEF Live, NotLoggedIn, ApiInv, AuthInv, AuthTypeOK, AuthSessionType
<1>2. /\ minted[t] \in Challenges /\ challenges[minted[t]].consumed
      /\ sessions[t].address = challenges[minted[t]].address
  BY <1>1 DEF ApiInv, AuthInv, AuthTypeOK, SessionsAreProven
<1> QED
  BY <1>1, <1>2 DEF Proven, Actor

\* The steps of a request that write no row: authenticate, read the session, die.
LEMMA RequestSteps ==
  ASSUME ApiInv, NEW r \in Requests,
         \/ \E t \in Tokens, i \in Ids, stage \in {"draft", "enroll"} : Authenticate(r, t, i, stage)
         \/ ReadSession(r)
         \/ DropPost(r)
  PROVE  ApiInv'
<1>1. ASSUME NEW t \in Tokens, NEW i \in Ids, NEW stage \in {"draft", "enroll"}, Authenticate(r, t, i, stage)
      PROVE  ApiInv'
  <2> DEFINE p == [NoPost EXCEPT !.stage = stage, !.account = Actor(t), !.id = i]
  <2>1. p \in PostType /\ p.stage = stage /\ p.account = Actor(t)
    BY <1>1, ActorIsProven, RowFacts DEF PostType, Authenticate
  <2>2. p.account \in Proven \cap Accounts /\ p.stage # "append"
    BY <1>1, <2>1, ActorIsProven DEF Authenticate
  <2>3. posting' = [posting EXCEPT ![r] = p] /\ UNCHANGED <<authVars, rows, observed, acked>>
    BY <1>1 DEF Authenticate
  <2> HIDE DEF p
  <2> QED
    BY <2>1, <2>2, <2>3, PutPost
<1>2. CASE ReadSession(r)
  <2> DEFINE p == [posting[r] EXCEPT !.stage = "append", !.session = rows[posting[r].id]]
  <2>1. posting[r] \in PostType /\ rows[posting[r].id] \in RowType /\ posting[r].stage = "enroll"
    BY <1>2, RowFacts DEF PostType, ReadSession
  <2>2. /\ p \in PostType /\ p.session = rows[p.id] /\ p.account = posting[r].account
        /\ p.id = posting[r].id
    BY <2>1 DEF PostType
  <2>3. p.account \in Proven \cap Accounts
    BY <2>1, <2>2 DEF ApiInv, PostsSound
  <2>4. UNCHANGED <<authVars, rows, observed, acked>>
    BY <1>2 DEF ReadSession
  <2>5. CASE EnrollmentOpen(rows[posting[r].id])
    <3>1. posting' = [posting EXCEPT ![r] = p] /\ rows[p.id].status = "CONFIRMED"
      BY <1>2, <2>2, <2>5 DEF ReadSession, EnrollmentOpen
    <3> HIDE DEF p
    <3> QED
      BY <2>2, <2>3, <2>4, <3>1, PutPost
  <2>6. CASE ~EnrollmentOpen(rows[posting[r].id])
    <3>1. posting' = [posting EXCEPT ![r] = NoPost]
      BY <1>2, <2>6 DEF ReadSession
    <3> QED
      BY <2>4, <3>1, PutPost, RowFacts
  <2> QED
    BY <2>5, <2>6
<1>3. CASE DropPost(r)
  BY <1>3, PutPost, RowFacts DEF DropPost
<1> QED
  BY <1>1, <1>2, <1>3

\* The one statement that saves a draft writes the account that signed in as its creator.
LEMMA SaveDraftStep ==
  ASSUME ApiInv, NEW r \in Requests, NEW deadline \in Deadlines, SaveDraft(r, deadline) PROVE ApiInv'
<1> DEFINE p == posting[r]
           row == IF DraftAllowed(p.id, p.account) THEN Draft(p.account, deadline) ELSE rows[p.id]
<1>1. p \in PostType /\ p.id \in Ids /\ p.account \in Accounts \cup {NoAccount} /\ p.stage = "draft"
  BY RowFacts DEF PostType, SaveDraft
<1>2. p.account \in Proven \cap Accounts
  BY <1>1 DEF ApiInv, PostsSound
<1>3. /\ Draft(p.account, deadline) \in RowType /\ Draft(p.account, deadline).status = "DRAFT"
      /\ SignedFor(Draft(p.account, deadline))
  BY <1>1, <1>2, DeadlineAssumption DEF Draft, NoRow, RowType, SignedFor
<1>4. DraftAllowed(p.id, p.account) => rows[p.id].status # "CONFIRMED"
  BY DEF DraftAllowed, NoRow
<1>5. row \in RowType /\ SignedFor(row) /\ (rows[p.id].status = "CONFIRMED" => row.status = "CONFIRMED")
  BY <1>1, <1>3, <1>4, RowFacts DEF ApiInv, RowsSound
<1>6. row.status = "CONFIRMED" => AsObserved(p.id, row)
  BY <1>1, <1>3 DEF ApiInv, RowsSound
<1>7. /\ rows' = [rows EXCEPT ![p.id] = row] /\ posting' = [posting EXCEPT ![r] = NoPost]
      /\ UNCHANGED <<authVars, observed, acked>>
  BY RowFacts DEF SaveDraft
<1>8. posting' \in [Requests -> PostType] /\ \A q \in Requests : posting'[q] = posting[q] \/ posting'[q] = NoPost
  BY <1>7, RowFacts
<1> HIDE DEF row, p
<1>9. StillObserved(p.id) /\ (row.status = "CONFIRMED" => Explains(observed'[p.id], row))
  BY <1>6, <1>7 DEF StillObserved, AsObserved, Explains
<1> QED
  BY <1>1, <1>5, <1>7, <1>8, <1>9, RowFacts, PutRow

\* An enrollment writes back the payload it read, with the account that signed in as follower.
LEMMA AppendStep ==
  ASSUME ApiInv, NEW r \in Requests, NEW e \in EnrollmentIds, AppendEnrollment(r, e) PROVE ApiInv'
<1> DEFINE p == posting[r]
           row == Extended(r, e)
<1>1. p \in PostType /\ p.id \in Ids /\ p.session \in RowType /\ p.stage = "append"
  BY RowFacts DEF PostType, AppendEnrollment
<1>2. /\ p.account \in Proven \cap Accounts /\ SignedFor(p.session) /\ AsObserved(p.id, p.session)
      /\ p.session.status = "CONFIRMED" /\ rows[p.id].status = "CONFIRMED"
  BY <1>1 DEF ApiInv, PostsSound
<1>3. p.account \in Accounts
  BY <1>2
<1>4. Entry(e, p.account) \in EntryType /\ Entry(e, p.account).follower = p.account
  BY <1>3 DEF Entry, EntryType
<1>5. row = [p.session EXCEPT !.enrollments = @ \cup {Entry(e, p.account)}]
  BY DEF Extended
<1>6. /\ row \in RowType /\ row.creator = p.session.creator /\ row.enrollUntil = p.session.enrollUntil
      /\ row.withdrawn = p.session.withdrawn /\ row.signalled = p.session.signalled
      /\ row.status = "CONFIRMED" /\ row.enrollments = p.session.enrollments \cup {Entry(e, p.account)}
  BY <1>1, <1>2, <1>4, <1>5 DEF RowType
<1>7. SignedFor(row)
  <2>1. p.session # NoRow
    BY <1>2 DEF NoRow
  <2> QED
    BY <1>2, <1>4, <1>6, <2>1 DEF SignedFor
<1>8. AsObserved(p.id, row)
  BY <1>2, <1>6 DEF AsObserved, Explains
<1>9. /\ rows' = [rows EXCEPT ![p.id] = row] /\ posting' = [posting EXCEPT ![r] = NoPost]
      /\ acked' = acked \cup {[id |-> p.id, entry |-> Entry(e, p.account)]}
      /\ UNCHANGED <<authVars, observed>>
  BY DEF AppendEnrollment
<1>10. posting' \in [Requests -> PostType] /\ \A q \in Requests : posting'[q] = posting[q] \/ posting'[q] = NoPost
  BY <1>9, RowFacts
<1>11. \A a \in acked' : a.id \in Ids /\ a.entry \in EntryType
  BY <1>1, <1>4, <1>9, RowFacts
<1> HIDE DEF row, p
<1>12. StillObserved(p.id) /\ Explains(observed'[p.id], row)
  BY <1>8, <1>9 DEF StillObserved, AsObserved, Explains
<1> QED
  BY <1>1, <1>6, <1>7, <1>12, <1>9, <1>10, <1>11, RowFacts, PutRow

\* The observer changes status and counts of a row, never who stands in it.
LEMMA ObserverSteps == ASSUME ApiInv, NEW i \in Ids, Confirm(i) \/ Observe(i) PROVE ApiInv'
<1>1. rows[i] \in RowType /\ SignedFor(rows[i])
  BY RowFacts DEF ApiInv, RowsSound
<1>2. ASSUME NEW row \in RowType, row.creator = rows[i].creator, row.enrollments = rows[i].enrollments,
             rows[i].status # "NONE"
      PROVE  SignedFor(row)
  BY <1>1, <1>2 DEF SignedFor, NoRow
<1>3. CASE Confirm(i)
  <2> DEFINE row == [rows[i] EXCEPT !.status = "CONFIRMED"]
  <2>1. /\ row \in RowType /\ row.creator = rows[i].creator /\ row.enrollUntil = rows[i].enrollUntil
        /\ row.enrollments = rows[i].enrollments /\ row.status = "CONFIRMED"
        /\ row.withdrawn = rows[i].withdrawn /\ row.signalled = rows[i].signalled
    BY <1>1 DEF RowType
  <2>2. /\ rows[i].status = "DRAFT" /\ observed' = [observed EXCEPT ![i] = rows[i]]
        /\ rows' = [rows EXCEPT ![i] = row] /\ UNCHANGED <<authVars, posting, acked>>
    BY <1>3 DEF Confirm
  <2>3. /\ observed' \in [Ids -> RowType] /\ observed'[i] = rows[i]
        /\ \A j \in Ids \ {i} : observed'[j] = observed[j]
    BY <1>1, <2>2, RowFacts
  <2>4. SignedFor(row)
    BY <1>2, <2>1, <2>2
  <2> HIDE DEF row
  <2>5. Explains(observed'[i], row)
    <3>1. Explains(rows[i], row)
      BY <2>1 DEF Explains
    <3> QED
      BY <2>3, <3>1
  <2> QED
    BY <2>1, <2>2, <2>3, <2>4, <2>5, RowFacts, PutRow
<1>4. CASE Observe(i)
  <2>1. PICK field \in {"withdrawn", "signalled"} :
          /\ rows' = [rows EXCEPT ![i] = [@ EXCEPT ![field] = TRUE]]
          /\ observed' = [observed EXCEPT ![i] = [@ EXCEPT ![field] = TRUE]]
    BY <1>4 DEF Observe
  <2> DEFINE row == [rows[i] EXCEPT ![field] = TRUE]
             seen == [observed[i] EXCEPT ![field] = TRUE]
  <2>2. rows[i].status = "CONFIRMED" /\ UNCHANGED <<authVars, posting, acked>>
    BY <1>4 DEF Observe
  <2>3. /\ row \in RowType /\ row.creator = rows[i].creator /\ row.enrollUntil = rows[i].enrollUntil
        /\ row.enrollments = rows[i].enrollments /\ row.status = "CONFIRMED"
        /\ field = "withdrawn" => row.withdrawn /\ row.signalled = rows[i].signalled
        /\ field = "signalled" => row.signalled /\ row.withdrawn = rows[i].withdrawn
    BY <1>1, <2>2 DEF RowType
  <2>4. /\ seen \in RowType /\ seen.creator = observed[i].creator /\ seen.enrollUntil = observed[i].enrollUntil
        /\ field = "withdrawn" => seen.withdrawn /\ seen.signalled = observed[i].signalled
        /\ field = "signalled" => seen.signalled /\ seen.withdrawn = observed[i].withdrawn
    BY RowFacts DEF RowType
  <2>5. /\ rows' = [rows EXCEPT ![i] = row] /\ observed' = [observed EXCEPT ![i] = seen]
        /\ observed' \in [Ids -> RowType] /\ observed'[i] = seen
        /\ \A j \in Ids \ {i} : observed'[j] = observed[j]
    BY <2>1, <2>4, RowFacts
  <2> HIDE DEF row, seen
  <2>6. StillObserved(i)
    BY <2>4, <2>5 DEF StillObserved
  <2>7. AsObserved(i, rows[i])
    BY <2>2 DEF ApiInv, RowsSound
  <2>8. Explains(observed'[i], row)
    BY <2>3, <2>4, <2>5, <2>7 DEF AsObserved, Explains
  <2>9. SignedFor(row)
    BY <1>2, <2>2, <2>3
  <2> QED
    BY <2>2, <2>3, <2>5, <2>6, <2>8, <2>9, RowFacts, PutRow
<1> QED
  BY <1>3, <1>4

\* Every step of the API keeps the invariant.
LEMMA ApiStep == ApiInv /\ [Next]_vars => ApiInv'
<1> SUFFICES ASSUME ApiInv, [Next]_vars PROVE ApiInv'
  OBVIOUS
<1>1. CASE RowNext
  BY <1>1, RequestSteps, SaveDraftStep, AppendStep, ObserverSteps DEF RowNext
<1>2. CASE (AuthNext /\ UNCHANGED rowVars) \/ UNCHANGED vars
  BY <1>2, AuthKeepsRows DEF vars
<1> QED
  BY <1>1, <1>2 DEF Next

\* The invariant of the API holds in every state.
LEMMA ApiInductive == Spec => []ApiInv
  BY ApiInit, ApiStep, PTL DEF Spec

-----------------------------------------------------------------------------
\* Sessions, drafts and enrollments on top of it do not disturb the sign-in: the API
\* implements ApiAuth, so everything proved of that holds here.
THEOREM ApiImplementsAuth == Spec => AuthSpec
<1>1. Init => AuthInit
  BY DEF Init
<1> QED
  BY <1>1, AuthBelow, PTL DEF Spec, AuthSpec

\* Every creator and follower in a row signed a challenge for that account, whatever is
\* re-issued, logged out or in flight.
THEOREM ApiRowsSigned == Spec => []RowsAreSignedFor
<1>1. ApiInv => RowsAreSignedFor
  BY DEF ApiInv, RowsSound, SignedFor, RowsAreSignedFor, Proven
<1> QED
  BY <1>1, ApiInductive, PTL

\* What the public reads was confirmed by the observer, by that creator and with that
\* deadline, and shows no withdrawal or signal the observer did not record.
THEOREM ApiPublicObserved == Spec => []PublicIsObserved
<1>1. ApiInv => PublicIsObserved
  BY DEF ApiInv, RowsSound, AsObserved, Explains, PublicIsObserved, ListSessions, GetSession
<1> QED
  BY <1>1, ApiInductive, PTL
==============================================================================
