-------------------------- MODULE SessionProtocol --------------------------
(***************************************************************************)
(* The on-chain session protocol: ProofCastRegistry (sessions, signals,    *)
(* annotations), ProofCastFactory (one vault per enrollment),              *)
(* ProofCastExecutor (enroll, revoke, execute, recover) and the part of    *)
(* every ProofCastFollowerVault these talk to.  Money is left out here and *)
(* is the subject of FollowerVault: a trade either leaves a position or    *)
(* fills nothing.  Every action is one transaction; callers are arbitrary. *)
(***************************************************************************)
EXTENDS Integers, Sequences, FiniteSets

CONSTANTS
  Accounts,        \* senders and signers
  NoAccount,       \* address(0)
  Sessions, Markets, Enrollments,   \* identifiers
  Manifests,       \* registration inputs
  TradingStart, Expiry,             \* of each native market, pinned by the catalog
  Collateral,      \* of each native market
  Collaterals,     \* collateral addresses a vault may be created with
  Terms,           \* terms hashes
  Policies,        \* sides and expiry a follower may ask for
  Nonces,          \* nonces of signed signals
  MaxTime,         \* bound: last block timestamp
  MaxAnnotations   \* bound: annotations of one market

TradeSides == {"YES", "NO"}
SignalSides == TradeSides \cup {"ABSTAIN"}
Times == 0..MaxTime

ManifestType ==
  [refs: Seq([id: Markets, cutoff: Nat]), terms: Terms, enrollUntil: Nat, sessionUntil: Nat]
PolicyType == [sides: SUBSET TradeSides, validUntil: Nat, terms: Terms]

ASSUME AccountAssumption == NoAccount \notin Accounts
ASSUME MarketAssumption ==
  /\ TradingStart \in [Markets -> Nat] /\ Expiry \in [Markets -> Nat]
  /\ Collateral \in [Markets -> Collaterals]
ASSUME InputAssumption ==
  /\ Manifests \subseteq ManifestType
  /\ Policies \subseteq PolicyType
  /\ Nonces \subseteq Nat
ASSUME BoundAssumption == MaxTime \in Nat /\ MaxAnnotations \in Nat

VARIABLES
  now,            \* block.timestamp
  sessions,       \* registry: manifest, creator, withdrawn flag, signal count
  signals,        \* registry: the anchored signal of each session's market
  usedNonces,     \* registry: usedSignalNonces
  annotations,    \* registry: annotationCount
  factory,        \* executor.factory is set
  vaults,         \* factory.vaultFor and the vault's own state
  enrollments,    \* executor.enrollments
  consumed,       \* executor.consumedSignals
  positions,      \* vault: markets with an open position
  enrolledAt,     \* history: when an enrollment was accepted
  executedAt      \* history: when each (enrollment, market) was executed

registryVars == <<sessions, signals, usedNonces, annotations>>
followerVars == <<factory, vaults, enrollments, consumed, positions, enrolledAt, executedAt>>
vars == <<now, registryVars, followerVars>>

NoSession ==
  [creator |-> NoAccount, refs |-> <<>>, terms |-> "none", enrollUntil |-> 0, sessionUntil |-> 0,
   withdrawn |-> FALSE, signalCount |-> 0]
NoSignal == [side |-> "NONE", validUntil |-> 0, anchoredAt |-> 0, nonce |-> 0]
NoVault ==
  [owner |-> NoAccount, session |-> "none", collateral |-> "none", active |-> FALSE,
   revoked |-> FALSE, sides |-> {}, validUntil |-> 0]
NoEnrollment == [follower |-> NoAccount, active |-> FALSE]

-----------------------------------------------------------------------------
(* Registry views.                                                         *)

Registered(s) == sessions[s].creator # NoAccount
Refs(s) == sessions[s].refs
KnownMarket(s, m) == \E i \in DOMAIN Refs(s) : Refs(s)[i].id = m
Cutoff(s, m) == Refs(s)[CHOOSE i \in DOMAIN Refs(s) : Refs(s)[i].id = m].cutoff
Anchored(s, m) == signals[s][m].side # "NONE"

\* Faulty variant of EnrollmentOpen: the deadline itself still enrolls.
EnrollmentOpenAtDeadline(s) ==
  /\ Registered(s) /\ ~sessions[s].withdrawn
  /\ now <= sessions[s].enrollUntil /\ sessions[s].signalCount = 0

\* assertEnrollmentOpen
EnrollmentOpen(s) ==
  /\ Registered(s)
  /\ ~sessions[s].withdrawn
  /\ now < sessions[s].enrollUntil
  /\ sessions[s].signalCount = 0

\* LiveShannonDreamDexCatalog.isCurrentMarket: the native module pins a market's start
\* and expiry, the cutoff is the creator's choice.
CurrentMarket(m, cutoff) == TradingStart[m] <= cutoff /\ cutoff < Expiry[m] /\ now < cutoff

\* registerSession's checks on one market reference.
RefValid(manifest, ref) ==
  /\ TradingStart[ref.id] <= ref.cutoff /\ ref.cutoff < Expiry[ref.id]
  /\ TradingStart[ref.id] <= manifest.enrollUntil
  /\ manifest.enrollUntil < ref.cutoff
  /\ ref.cutoff < manifest.sessionUntil
  /\ Expiry[ref.id] <= manifest.sessionUntil
  /\ CurrentMarket(ref.id, ref.cutoff)

NoDuplicateMarkets(refs) ==
  \A i, j \in DOMAIN refs : refs[i].id = refs[j].id => i = j

-----------------------------------------------------------------------------
Init ==
  /\ now = 0
  /\ sessions = [s \in Sessions |-> NoSession]
  /\ signals = [s \in Sessions |-> [m \in Markets |-> NoSignal]]
  /\ usedNonces = [a \in Accounts |-> {}]
  /\ annotations = [s \in Sessions |-> [m \in Markets |-> 0]]
  /\ factory = FALSE
  /\ vaults = [e \in Enrollments |-> NoVault]
  /\ enrollments = [e \in Enrollments |-> NoEnrollment]
  /\ consumed = [e \in Enrollments |-> {}]
  /\ positions = [e \in Enrollments |-> {}]
  /\ enrolledAt = [e \in Enrollments |-> 0]
  /\ executedAt = [e \in Enrollments |-> [m \in Markets |-> <<>>]]

Tick ==
  /\ now < MaxTime
  /\ now' = now + 1
  /\ UNCHANGED <<registryVars, followerVars>>

-----------------------------------------------------------------------------
(* ProofCastRegistry                                                       *)

RegisterSession(caller, s, manifest) ==
  /\ ~Registered(s)
  /\ Len(manifest.refs) \in 1..3
  /\ now < manifest.enrollUntil
  /\ manifest.enrollUntil < manifest.sessionUntil
  /\ \A i \in DOMAIN manifest.refs : RefValid(manifest, manifest.refs[i])
  /\ NoDuplicateMarkets(manifest.refs)
  /\ sessions' = [sessions EXCEPT ![s] =
       [creator |-> caller, refs |-> manifest.refs, terms |-> manifest.terms,
        enrollUntil |-> manifest.enrollUntil, sessionUntil |-> manifest.sessionUntil,
        withdrawn |-> FALSE, signalCount |-> 0]]
  /\ UNCHANGED <<now, signals, usedNonces, annotations, followerVars>>

SlotFree(s, m) == ~Anchored(s, m)

\* _publish
Publish(s, m, side, validUntil, nonce) ==
  /\ KnownMarket(s, m)
  /\ Registered(s) /\ ~sessions[s].withdrawn
  /\ now >= sessions[s].enrollUntil
  /\ now >= TradingStart[m]
  /\ now <= Cutoff(s, m)
  /\ now < validUntil
  /\ validUntil <= Expiry[m] /\ validUntil <= sessions[s].sessionUntil
  /\ SlotFree(s, m)
  /\ signals' = [signals EXCEPT ![s][m] =
       [side |-> side, validUntil |-> validUntil, anchoredAt |-> now, nonce |-> nonce]]
  /\ sessions' = [sessions EXCEPT ![s].signalCount = @ + 1]
  /\ UNCHANGED <<now, annotations, followerVars>>

PublishSignal(caller, s, m, side, validUntil) ==
  /\ caller = sessions[s].creator
  /\ Publish(s, m, side, validUntil, 0)
  /\ UNCHANGED usedNonces

\* Faulty variant of PublishSignalBySig: the nonce is not looked up.
PublishSignalBySigReplayed(signer, s, m, side, validUntil, nonce) ==
  /\ signer = sessions[s].creator
  /\ Publish(s, m, side, validUntil, nonce)
  /\ usedNonces' = [usedNonces EXCEPT ![signer] = @ \cup {nonce}]

\* Anybody may relay a signal its creator has signed, and relay it again.
PublishSignalBySig(signer, s, m, side, validUntil, nonce) ==
  /\ signer = sessions[s].creator
  /\ nonce \notin usedNonces[signer]
  /\ Publish(s, m, side, validUntil, nonce)
  /\ usedNonces' = [usedNonces EXCEPT ![signer] = @ \cup {nonce}]

Annotate(caller, s, m) ==
  /\ annotations[s][m] < MaxAnnotations
  /\ caller = sessions[s].creator
  /\ KnownMarket(s, m)
  /\ annotations' = [annotations EXCEPT ![s][m] = @ + 1]
  /\ UNCHANGED <<now, sessions, signals, usedNonces, followerVars>>

\* Faulty variant of WithdrawSession: a second call reopens the session.
WithdrawSessionToggles(caller, s) ==
  /\ caller = sessions[s].creator
  /\ sessions' = [sessions EXCEPT ![s].withdrawn = ~@]
  /\ UNCHANGED <<now, signals, usedNonces, annotations, followerVars>>

WithdrawSession(caller, s) ==
  /\ caller = sessions[s].creator
  /\ ~sessions[s].withdrawn
  /\ sessions' = [sessions EXCEPT ![s].withdrawn = TRUE]
  /\ UNCHANGED <<now, signals, usedNonces, annotations, followerVars>>

-----------------------------------------------------------------------------
(* ProofCastFactory and ProofCastExecutor                                  *)

SetFactory ==
  /\ ~factory
  /\ factory' = TRUE
  /\ UNCHANGED <<now, registryVars, vaults, enrollments, consumed, positions, enrolledAt, executedAt>>

CreateVault(caller, e, s, collateral) ==
  /\ vaults[e].owner = NoAccount
  /\ Registered(s)
  /\ vaults' = [vaults EXCEPT ![e] =
       [NoVault EXCEPT !.owner = caller, !.session = s, !.collateral = collateral]]
  /\ UNCHANGED <<now, registryVars, factory, enrollments, consumed, positions, enrolledAt, executedAt>>

\* enroll, with the vault's initializePolicy.
Enroll(caller, e, policy) ==
  LET s == vaults[e].session
  IN  /\ factory
      /\ vaults[e].owner # NoAccount
      /\ caller = vaults[e].owner /\ enrollments[e].follower = NoAccount
      /\ EnrollmentOpen(s)
      /\ caller # sessions[s].creator
      /\ policy.terms = sessions[s].terms
      /\ policy.validUntil <= sessions[s].sessionUntil
      /\ vaults[e].collateral = Collateral[Refs(s)[1].id]
      /\ ~vaults[e].active
      /\ policy.sides # {} /\ policy.validUntil > now
      /\ vaults' = [vaults EXCEPT ![e].active = TRUE, ![e].sides = policy.sides,
                                  ![e].validUntil = policy.validUntil]
      /\ enrollments' = [enrollments EXCEPT ![e] = [follower |-> caller, active |-> TRUE]]
      /\ enrolledAt' = [enrolledAt EXCEPT ![e] = now]
      /\ UNCHANGED <<now, registryVars, factory, consumed, positions, executedAt>>

\* The vault's revoke, called by the executor or by the owner directly.
VaultRevokable(e) == vaults[e].active /\ ~vaults[e].revoked

\* Faulty variant of RevokeEnrollment: the vault is not told.
RevokeEnrollmentOnly(caller, e) ==
  /\ caller = enrollments[e].follower
  /\ VaultRevokable(e)
  /\ enrollments' = [enrollments EXCEPT ![e].active = FALSE]
  /\ UNCHANGED <<now, registryVars, factory, vaults, consumed, positions, enrolledAt, executedAt>>

RevokeEnrollment(caller, e) ==
  /\ caller = enrollments[e].follower
  /\ VaultRevokable(e)
  /\ vaults' = [vaults EXCEPT ![e].revoked = TRUE]
  /\ enrollments' = [enrollments EXCEPT ![e].active = FALSE]
  /\ UNCHANGED <<now, registryVars, factory, consumed, positions, enrolledAt, executedAt>>

\* The owner goes to the vault: the executor does not hear of it.
RevokeVault(caller, e) ==
  /\ caller = vaults[e].owner
  /\ VaultRevokable(e)
  /\ vaults' = [vaults EXCEPT ![e].revoked = TRUE]
  /\ UNCHANGED <<now, registryVars, factory, enrollments, consumed, positions, enrolledAt, executedAt>>

\* Faulty variants of VaultAccepts: an order may be placed at its own expiry, and the
\* vault's revocation flag is not read.
VaultAcceptsAtExpiry(e, m, signal) ==
  /\ vaults[e].active /\ ~vaults[e].revoked /\ now <= vaults[e].validUntil
  /\ signal.side \in vaults[e].sides /\ vaults[e].collateral = Collateral[m]
  /\ now <= signal.validUntil
VaultAcceptsRevoked(e, m, signal) ==
  /\ vaults[e].active /\ now <= vaults[e].validUntil
  /\ signal.side \in vaults[e].sides /\ vaults[e].collateral = Collateral[m]
  /\ now < signal.validUntil

\* What previewTrade and executeTrade check besides the money: the vault accepts
\* now = validUntil of the policy, but the order's expiry has to be later than now.
VaultAccepts(e, m, signal) ==
  /\ vaults[e].active /\ ~vaults[e].revoked
  /\ now <= vaults[e].validUntil
  /\ signal.side \in vaults[e].sides
  /\ vaults[e].collateral = Collateral[m]
  /\ now < signal.validUntil

\* Faulty variant of NotYetExecuted: the consumed mark is not read.
AlwaysExecutable(e, m) == TRUE

NotYetExecuted(e, m) == m \notin consumed[e]

\* execute: anybody may call it; filled says whether the order bought anything.
Execute(e, m, filled) ==
  LET s == vaults[e].session
      signal == signals[s][m]
  IN  /\ enrollments[e].active
      /\ NotYetExecuted(e, m)
      /\ ~sessions[s].withdrawn
      /\ KnownMarket(s, m)
      /\ Anchored(s, m) /\ signal.side # "ABSTAIN"
      /\ now <= signal.validUntil
      /\ VaultAccepts(e, m, signal)
      /\ positions' = [positions EXCEPT ![e] = IF filled THEN @ \cup {m} ELSE @]
      /\ consumed' = [consumed EXCEPT ![e] = @ \cup {m}]
      /\ executedAt' = [executedAt EXCEPT ![e][m] = Append(@, now)]
      /\ UNCHANGED <<now, registryVars, factory, vaults, enrollments, enrolledAt>>

\* Faulty variant of Recover: only an active enrollment recovers.
RecoverWhileActive(e, m) ==
  /\ enrollments[e].active
  /\ m \in positions[e] /\ now >= Expiry[m]
  /\ positions' = [positions EXCEPT ![e] = @ \ {m}]
  /\ UNCHANGED <<now, registryVars, factory, vaults, enrollments, consumed, enrolledAt, executedAt>>

\* recover: anybody may call it; the adapter settles once the market has expired.
Recover(e, m) ==
  /\ enrollments[e].follower # NoAccount
  /\ m \in positions[e]
  /\ now >= Expiry[m]
  /\ positions' = [positions EXCEPT ![e] = @ \ {m}]
  /\ UNCHANGED <<now, registryVars, factory, vaults, enrollments, consumed, enrolledAt, executedAt>>

Next ==
  \/ Tick
  \/ SetFactory
  \/ \E a \in Accounts, s \in Sessions :
       \/ \E manifest \in Manifests : RegisterSession(a, s, manifest)
       \/ WithdrawSession(a, s)
       \/ \E m \in Markets : Annotate(a, s, m)
       \/ \E m \in Markets, side \in SignalSides, until \in Times :
            \/ PublishSignal(a, s, m, side, until)
            \/ \E n \in Nonces : PublishSignalBySig(a, s, m, side, until, n)
  \/ \E a \in Accounts, e \in Enrollments :
       \/ \E s \in Sessions, c \in Collaterals : CreateVault(a, e, s, c)
       \/ \E p \in Policies : Enroll(a, e, p)
       \/ RevokeEnrollment(a, e)
       \/ RevokeVault(a, e)
  \/ \E e \in Enrollments, m \in Markets : Recover(e, m) \/ \E filled \in BOOLEAN : Execute(e, m, filled)

Spec == Init /\ [][Next]_vars

\* Time passes, and recovery is permissionless: somebody (the relayer's loop, the
\* follower) keeps trying it for every enrollment and market.
Fairness ==
  /\ WF_vars(Tick)
  /\ \A e \in Enrollments, m \in Markets : WF_vars(Recover(e, m))
FairSpec == Spec /\ Fairness

-----------------------------------------------------------------------------
(* Properties                                                              *)

SessionType ==
  [creator: Accounts \cup {NoAccount}, refs: Seq([id: Markets, cutoff: Nat]),
   terms: Terms \cup {"none"}, enrollUntil: Nat, sessionUntil: Nat, withdrawn: BOOLEAN,
   signalCount: Nat]
SignalType ==
  [side: SignalSides \cup {"NONE"}, validUntil: Nat, anchoredAt: Nat, nonce: Nat]
VaultType ==
  [owner: Accounts \cup {NoAccount}, session: Sessions \cup {"none"},
   collateral: Collaterals \cup {"none"}, active: BOOLEAN, revoked: BOOLEAN,
   sides: SUBSET TradeSides, validUntil: Nat]
EnrollmentType == [follower: Accounts \cup {NoAccount}, active: BOOLEAN]

\* Every variable has its type.
TypeOK ==
  /\ now \in Nat
  /\ sessions \in [Sessions -> SessionType]
  /\ signals \in [Sessions -> [Markets -> SignalType]]
  /\ usedNonces \in [Accounts -> SUBSET Nonces]
  /\ annotations \in [Sessions -> [Markets -> Nat]]
  /\ factory \in BOOLEAN
  /\ vaults \in [Enrollments -> VaultType]
  /\ enrollments \in [Enrollments -> EnrollmentType]
  /\ consumed \in [Enrollments -> SUBSET Markets]
  /\ positions \in [Enrollments -> SUBSET Markets]
  /\ enrolledAt \in [Enrollments -> Nat]
  /\ executedAt \in [Enrollments -> [Markets -> Seq(Nat)]]

Enrolled(e) == enrollments[e].follower # NoAccount

\* Consent comes before the signal: a follower's policy was accepted strictly before
\* any signal of the session was anchored, in whatever order creator, followers and
\* relays have their transactions mined (assertEnrollmentOpen against _publish).
ConsentPrecedesSignal ==
  \A e \in Enrollments, m \in Markets :
    LET s == vaults[e].session
    IN  Enrolled(e) /\ Anchored(s, m) => enrolledAt[e] < signals[s][m].anchoredAt

\* Every execution lies inside what everybody agreed to: after the anchoring, before
\* the signal's and the market's expiry, inside the follower's policy and on a market
\* of the session, in the vault's own collateral.
ExecutedWithinConsent ==
  \A e \in Enrollments, m \in Markets :
    \A i \in DOMAIN executedAt[e][m] :
      LET t == executedAt[e][m][i]
          s == vaults[e].session
      IN  /\ Enrolled(e) /\ KnownMarket(s, m) /\ Anchored(s, m)
          /\ signals[s][m].side \in vaults[e].sides
          /\ enrolledAt[e] < t
          /\ signals[s][m].anchoredAt <= t /\ t < signals[s][m].validUntil
          /\ t <= vaults[e].validUntil /\ t < Expiry[m] /\ t < sessions[s].sessionUntil
          /\ vaults[e].collateral = Collateral[m]

\* One signal is executed at most once for an enrollment, whoever relays it, and a
\* position only ever comes from an execution.
ExecutedOnce ==
  \A e \in Enrollments, m \in Markets :
    /\ Len(executedAt[e][m]) = IF m \in consumed[e] THEN 1 ELSE 0
    /\ m \in positions[e] => m \in consumed[e]

\* A signed signal is anchored at most once, however often it is relayed: a nonce of a
\* creator is spent exactly when a signal of theirs carries it, and only one does, over all
\* the creator's sessions and markets.  (Signals published directly are stored with nonce 0.)
NonceAnchorsOneSignal ==
  \A a \in Accounts, n \in Nonces \ {0} :
    LET uses == {sm \in Sessions \X Markets :
                   /\ sessions[sm[1]].creator = a
                   /\ Anchored(sm[1], sm[2])
                   /\ signals[sm[1]][sm[2]].nonce = n}
    IN  /\ n \in usedNonces[a] <=> uses # {}
        /\ \A x, y \in uses : x = y

\* Executor and vault agree about an enrollment: same person, a live session, and an
\* enrollment the executor calls inactive is revoked in the vault.  (The converse fails
\* on purpose: an owner may revoke at the vault and the executor does not hear of it.)
EnrollmentMatchesVault ==
  \A e \in Enrollments :
    /\ Enrolled(e) <=> vaults[e].active
    /\ Enrolled(e) =>
         /\ enrollments[e].follower = vaults[e].owner
         /\ Registered(vaults[e].session)
         /\ sessions[vaults[e].session].creator # enrollments[e].follower
         /\ ~enrollments[e].active => vaults[e].revoked
    /\ vaults[e].revoked => Enrolled(e)

\* The record is append-only: a registered manifest, an anchored signal, a withdrawal,
\* a spent nonce, an accepted policy and a consumed signal never change again.
HistoryIsFinal ==
  [][/\ \A s \in Sessions :
          Registered(s) =>
            /\ \E w \in BOOLEAN, c \in {0, 1} :
                 sessions'[s] = [sessions[s] EXCEPT !.withdrawn = w, !.signalCount = @ + c]
            /\ sessions[s].withdrawn => sessions'[s] = sessions[s]
            /\ \A m \in Markets : Anchored(s, m) => signals'[s][m] = signals[s][m]
     /\ \A a \in Accounts : usedNonces[a] \subseteq usedNonces'[a]
     /\ \A e \in Enrollments :
          /\ consumed[e] \subseteq consumed'[e]
          /\ Enrolled(e) =>
               /\ enrolledAt'[e] = enrolledAt[e]
               /\ \E r \in BOOLEAN : vaults'[e] = [vaults[e] EXCEPT !.revoked = r]]_vars

\* A stop is final for execution, by whichever door it came: after a revocation at the
\* executor or at the vault, or a withdrawal of the session, the enrollment executes
\* nothing more and gains no position.
NoExecutionAfterStop ==
  [][\A e \in Enrollments :
       (vaults[e].revoked \/ (Enrolled(e) /\ sessions[vaults[e].session].withdrawn)) =>
         executedAt'[e] = executedAt[e] /\ positions'[e] \subseteq positions[e]]_vars

\* Recovery survives every stop: a position is eventually recovered although its
\* enrollment may be revoked or its session withdrawn in the meantime.
PositionsAreRecovered ==
  \A e \in Enrollments, m \in Markets : m \in positions[e] ~> m \notin positions[e]
=============================================================================
