------------------------ MODULE SessionProtocolProofs ------------------------
(***************************************************************************)
(* Proofs about SessionProtocol for every set of accounts, sessions,       *)
(* markets, enrollments, manifests and policies and every bound: its       *)
(* types; that consent precedes the signal and a stop is final; that what  *)
(* registry, executor and vaults record is final, that a nonce anchors one *)
(* signal, that executor and vault agree, and that every execution was     *)
(* consented to and happened once.                                         *)
(***************************************************************************)
EXTENDS SessionProtocol, TLAPS

\* A vault is made for a registered session.
VaultsRegistered ==
  \A e \in Enrollments :
    vaults[e].owner # NoAccount => vaults[e].session \in Sessions /\ Registered(vaults[e].session)

\* The follower came before the deadline, with a vault.
EnrolledInTime ==
  \A e \in Enrollments :
    Enrolled(e) => /\ vaults[e].owner # NoAccount
                   /\ enrolledAt[e] < sessions[vaults[e].session].enrollUntil

\* The signal came at the deadline or later.
AnchoredAfterDeadline ==
  \A s \in Sessions, m \in Markets :
    Anchored(s, m) => Registered(s) /\ sessions[s].enrollUntil <= signals[s][m].anchoredAt

IInv == TypeOK /\ VaultsRegistered /\ EnrolledInTime /\ AnchoredAfterDeadline

-----------------------------------------------------------------------------
(* Types                                                                   *)

\* The initial state has the types.
LEMMA InitTypeOK == Init => TypeOK
<1> SUFFICES ASSUME Init PROVE TypeOK
  OBVIOUS
<1>1. NoSession \in SessionType
  BY DEF NoSession, SessionType
<1>2. NoSignal \in SignalType
  BY DEF NoSignal, SignalType
<1>3. NoVault \in VaultType
  BY DEF NoVault, VaultType
<1>4. NoEnrollment \in EnrollmentType
  BY DEF NoEnrollment, EnrollmentType
<1>5. /\ sessions \in [Sessions -> SessionType] /\ signals \in [Sessions -> [Markets -> SignalType]]
      /\ vaults \in [Enrollments -> VaultType] /\ enrollments \in [Enrollments -> EnrollmentType]
  BY <1>1, <1>2, <1>3, <1>4 DEF Init
<1>6. /\ executedAt \in [Enrollments -> [Markets -> Seq(Nat)]]
      /\ annotations \in [Sessions -> [Markets -> Nat]]
  BY DEF Init
<1> QED
  BY <1>5, <1>6 DEF Init, TypeOK

\* Every anchored signal has the types, whoever delivers it.
LEMMA PublishTypeOK ==
  ASSUME TypeOK, NEW s \in Sessions, NEW m \in Markets, NEW side \in SignalSides,
         NEW until \in Times, NEW nonce \in Nat, Publish(s, m, side, until, nonce),
         usedNonces' \in [Accounts -> SUBSET Nonces]
  PROVE  TypeOK'
<1> DEFINE signal == [side |-> side, validUntil |-> until, anchoredAt |-> now, nonce |-> nonce]
           session == [sessions[s] EXCEPT !.signalCount = @ + 1]
<1>1. signal \in SignalType
  BY BoundAssumption DEF SignalType, TypeOK, Times
<1>2. session \in SessionType
  <2>1. sessions[s] \in SessionType
    BY DEF TypeOK
  <2>2. sessions[s].signalCount + 1 \in Nat
    BY <2>1 DEF SessionType
  <2> QED
    BY <2>1, <2>2 DEF SessionType
<1>3. /\ signals' = [signals EXCEPT ![s] = [signals[s] EXCEPT ![m] = signal]]
      /\ sessions' = [sessions EXCEPT ![s] = session]
      /\ UNCHANGED <<now, annotations, followerVars>>
  BY DEF Publish, TypeOK, SessionType
<1> HIDE DEF signal, session
<1>4. signals' \in [Sessions -> [Markets -> SignalType]] /\ sessions' \in [Sessions -> SessionType]
  BY <1>1, <1>2, <1>3 DEF TypeOK
<1> QED
  BY <1>3, <1>4 DEF TypeOK, followerVars

\* Every step keeps the types.
LEMMA StepTypeOK == TypeOK /\ [Next]_vars => TypeOK'
<1> SUFFICES ASSUME TypeOK, [Next]_vars PROVE TypeOK'
  OBVIOUS
<1> USE DEF registryVars, followerVars
<1>1. CASE Tick
  BY <1>1 DEF Tick, TypeOK
<1>2. CASE SetFactory
  BY <1>2 DEF SetFactory, TypeOK
<1>3. ASSUME NEW a \in Accounts, NEW s \in Sessions, NEW manifest \in Manifests,
             RegisterSession(a, s, manifest)
      PROVE  TypeOK'
  <2>1. manifest \in ManifestType
    BY InputAssumption
  <2>2. [creator |-> a, refs |-> manifest.refs, terms |-> manifest.terms,
         enrollUntil |-> manifest.enrollUntil, sessionUntil |-> manifest.sessionUntil,
         withdrawn |-> FALSE, signalCount |-> 0] \in SessionType
    BY <2>1 DEF SessionType, ManifestType
  <2>3. sessions' \in [Sessions -> SessionType]
    BY <1>3, <2>2 DEF RegisterSession, TypeOK
  <2> QED
    BY <1>3, <2>3 DEF RegisterSession, TypeOK
<1>4. ASSUME NEW a \in Accounts, NEW s \in Sessions, WithdrawSession(a, s) PROVE TypeOK'
  <2>1. [sessions[s] EXCEPT !.withdrawn = TRUE] \in SessionType
    <3>1. sessions[s] \in SessionType
      BY DEF TypeOK
    <3> QED
      BY <3>1 DEF SessionType
  <2>2. sessions' \in [Sessions -> SessionType]
    BY <1>4, <2>1 DEF WithdrawSession, TypeOK
  <2> QED
    BY <1>4, <2>2 DEF WithdrawSession, TypeOK
<1>5. ASSUME NEW a \in Accounts, NEW s \in Sessions, NEW m \in Markets, Annotate(a, s, m)
      PROVE  TypeOK'
  <2>1. annotations' = [annotations EXCEPT ![s] = [annotations[s] EXCEPT ![m] = @ + 1]]
    BY <1>5 DEF Annotate
  <2>2. annotations' \in [Sessions -> [Markets -> Nat]]
    BY <2>1 DEF TypeOK
  <2> QED
    BY <1>5, <2>2 DEF Annotate, TypeOK
<1>6. ASSUME NEW a \in Accounts, NEW s \in Sessions, NEW m \in Markets, NEW side \in SignalSides,
             NEW until \in Times, PublishSignal(a, s, m, side, until)
      PROVE  TypeOK'
  <2>1. usedNonces' \in [Accounts -> SUBSET Nonces]
    BY <1>6 DEF PublishSignal, TypeOK
  <2> QED
    BY <1>6, <2>1, PublishTypeOK DEF PublishSignal
<1>7. ASSUME NEW a \in Accounts, NEW s \in Sessions, NEW m \in Markets, NEW side \in SignalSides,
             NEW until \in Times, NEW n \in Nonces, PublishSignalBySig(a, s, m, side, until, n)
      PROVE  TypeOK'
  <2>1. usedNonces' \in [Accounts -> SUBSET Nonces]
    BY <1>7 DEF PublishSignalBySig, TypeOK
  <2>2. n \in Nat
    BY InputAssumption
  <2> QED
    BY <1>7, <2>1, <2>2, PublishTypeOK DEF PublishSignalBySig
<1>8. ASSUME NEW a \in Accounts, NEW e \in Enrollments, NEW s \in Sessions, NEW c \in Collaterals,
             CreateVault(a, e, s, c)
      PROVE  TypeOK'
  <2>1. [NoVault EXCEPT !.owner = a, !.session = s, !.collateral = c] \in VaultType
    BY DEF NoVault, VaultType
  <2>2. vaults' \in [Enrollments -> VaultType]
    BY <1>8, <2>1 DEF CreateVault, TypeOK
  <2> QED
    BY <1>8, <2>2 DEF CreateVault, TypeOK
<1>9. ASSUME NEW a \in Accounts, NEW e \in Enrollments, NEW p \in Policies, Enroll(a, e, p)
      PROVE  TypeOK'
  <2>1. p \in PolicyType
    BY InputAssumption
  <2>2. [vaults[e] EXCEPT !.active = TRUE, !.sides = p.sides, !.validUntil = p.validUntil] \in VaultType
    <3>1. vaults[e] \in VaultType
      BY DEF TypeOK
    <3> QED
      BY <2>1, <3>1 DEF VaultType, PolicyType
  <2>3. vaults' = [vaults EXCEPT ![e] =
          [vaults[e] EXCEPT !.active = TRUE, !.sides = p.sides, !.validUntil = p.validUntil]]
    BY <1>9 DEF Enroll, TypeOK, VaultType
  <2>4. vaults' \in [Enrollments -> VaultType]
    BY <2>2, <2>3 DEF TypeOK
  <2>5. enrollments' \in [Enrollments -> EnrollmentType] /\ enrolledAt' \in [Enrollments -> Nat]
    BY <1>9 DEF Enroll, TypeOK, EnrollmentType
  <2> QED
    BY <1>9, <2>4, <2>5 DEF Enroll, TypeOK
<1>10. ASSUME NEW a \in Accounts, NEW e \in Enrollments, RevokeEnrollment(a, e) \/ RevokeVault(a, e)
       PROVE  TypeOK'
  <2>1. [vaults[e] EXCEPT !.revoked = TRUE] \in VaultType
    <3>1. vaults[e] \in VaultType
      BY DEF TypeOK
    <3> QED
      BY <3>1 DEF VaultType
  <2>2. [enrollments[e] EXCEPT !.active = FALSE] \in EnrollmentType
    <3>1. enrollments[e] \in EnrollmentType
      BY DEF TypeOK
    <3> QED
      BY <3>1 DEF EnrollmentType
  <2>3. vaults' \in [Enrollments -> VaultType]
    BY <1>10, <2>1 DEF RevokeEnrollment, RevokeVault, TypeOK
  <2>4. enrollments' \in [Enrollments -> EnrollmentType]
    BY <1>10, <2>2 DEF RevokeEnrollment, RevokeVault, TypeOK
  <2> QED
    BY <1>10, <2>3, <2>4 DEF RevokeEnrollment, RevokeVault, TypeOK
<1>11. ASSUME NEW e \in Enrollments, NEW m \in Markets, Recover(e, m) PROVE TypeOK'
  BY <1>11 DEF Recover, TypeOK
<1>12. ASSUME NEW e \in Enrollments, NEW m \in Markets, NEW filled \in BOOLEAN, Execute(e, m, filled)
       PROVE  TypeOK'
  <2>1. positions' \in [Enrollments -> SUBSET Markets] /\ consumed' \in [Enrollments -> SUBSET Markets]
    BY <1>12 DEF Execute, TypeOK
  <2>2. executedAt' = [executedAt EXCEPT ![e] = [executedAt[e] EXCEPT ![m] = Append(@, now)]]
    BY <1>12 DEF Execute
  <2>3. Append(executedAt[e][m], now) \in Seq(Nat)
    BY DEF TypeOK
  <2>4. executedAt' \in [Enrollments -> [Markets -> Seq(Nat)]]
    BY <2>2, <2>3 DEF TypeOK
  <2> QED
    BY <1>12, <2>1, <2>4 DEF Execute, TypeOK
<1>13. CASE UNCHANGED vars
  BY <1>13 DEF vars, TypeOK
<1> QED
  BY <1>1, <1>2, <1>3, <1>4, <1>5, <1>6, <1>7, <1>8, <1>9, <1>10, <1>11, <1>12, <1>13 DEF Next

-----------------------------------------------------------------------------
(* Consent                                                                 *)

\* A registered session stays registered with its creator and its deadline.
LEMMA SessionsKeep ==
  ASSUME TypeOK, [Next]_vars, NEW s \in Sessions, Registered(s)
  PROVE  /\ sessions'[s].creator = sessions[s].creator
         /\ sessions'[s].enrollUntil = sessions[s].enrollUntil
<1> USE DEF registryVars, followerVars
<1>1. CASE sessions' = sessions
  BY <1>1
<1>2. ASSUME NEW a \in Accounts, NEW r \in Sessions, NEW manifest \in Manifests,
             RegisterSession(a, r, manifest)
      PROVE  sessions'[s] = sessions[s]
  BY <1>2 DEF RegisterSession, TypeOK
<1>3. ASSUME NEW r \in Sessions, sessions' = [sessions EXCEPT ![r].withdrawn = TRUE]
      PROVE  /\ sessions'[s].creator = sessions[s].creator
             /\ sessions'[s].enrollUntil = sessions[s].enrollUntil
  BY <1>3 DEF TypeOK, SessionType
<1>4. ASSUME NEW r \in Sessions, sessions' = [sessions EXCEPT ![r].signalCount = @ + 1]
      PROVE  /\ sessions'[s].creator = sessions[s].creator
             /\ sessions'[s].enrollUntil = sessions[s].enrollUntil
  BY <1>4 DEF TypeOK, SessionType
<1>5. ASSUME NEW a \in Accounts, NEW r \in Sessions, WithdrawSession(a, r)
      PROVE  /\ sessions'[s].creator = sessions[s].creator
             /\ sessions'[s].enrollUntil = sessions[s].enrollUntil
  BY <1>3, <1>5 DEF WithdrawSession
<1>6. ASSUME NEW r \in Sessions, NEW m \in Markets, NEW side \in SignalSides, NEW until \in Times,
             NEW nonce, Publish(r, m, side, until, nonce)
      PROVE  /\ sessions'[s].creator = sessions[s].creator
             /\ sessions'[s].enrollUntil = sessions[s].enrollUntil
  BY <1>4, <1>6 DEF Publish
<1>7. ASSUME \/ Tick \/ SetFactory \/ UNCHANGED vars
             \/ \E a \in Accounts, r \in Sessions, m \in Markets : Annotate(a, r, m)
      PROVE  sessions' = sessions
  BY <1>7 DEF Tick, SetFactory, Annotate, vars
<1>8. ASSUME NEW a \in Accounts, NEW e \in Enrollments,
             \/ \E r \in Sessions, c \in Collaterals : CreateVault(a, e, r, c)
             \/ \E p \in Policies : Enroll(a, e, p)
             \/ RevokeEnrollment(a, e)
             \/ RevokeVault(a, e)
      PROVE  sessions' = sessions
  BY <1>8 DEF CreateVault, Enroll, RevokeEnrollment, RevokeVault
<1>9. ASSUME NEW e \in Enrollments, NEW m \in Markets,
             Recover(e, m) \/ \E filled \in BOOLEAN : Execute(e, m, filled)
      PROVE  sessions' = sessions
  BY <1>9 DEF Recover, Execute
<1> QED
  BY <1>1, <1>2, <1>5, <1>6, <1>7, <1>8, <1>9 DEF Next, PublishSignal, PublishSignalBySig

\* The three facts hold initially.
LEMMA InitIInv == Init => IInv
<1> SUFFICES ASSUME Init PROVE IInv
  OBVIOUS
<1>1. VaultsRegistered
  BY DEF Init, VaultsRegistered, NoVault
<1>2. EnrolledInTime
  BY DEF Init, EnrolledInTime, Enrolled, NoEnrollment
<1>3. AnchoredAfterDeadline
  BY DEF Init, AnchoredAfterDeadline, Anchored, NoSignal
<1> QED
  BY <1>1, <1>2, <1>3, InitTypeOK DEF IInv

\* A step that leaves the followers alone keeps what is known of them.
LEMMA FollowersKeep ==
  ASSUME IInv, [Next]_vars, UNCHANGED <<vaults, enrollments, enrolledAt>>
  PROVE  VaultsRegistered' /\ EnrolledInTime'
<1>1. VaultsRegistered'
  BY SessionsKeep DEF IInv, VaultsRegistered, Registered
<1>2. EnrolledInTime'
  <2> SUFFICES ASSUME NEW e \in Enrollments, Enrolled(e)
               PROVE  /\ vaults[e].owner # NoAccount
                      /\ enrolledAt[e] < sessions'[vaults[e].session].enrollUntil
    BY DEF EnrolledInTime, Enrolled
  <2>1. vaults[e].owner # NoAccount /\ enrolledAt[e] < sessions[vaults[e].session].enrollUntil
    BY DEF IInv, EnrolledInTime
  <2>2. vaults[e].session \in Sessions /\ Registered(vaults[e].session)
    BY <2>1 DEF IInv, VaultsRegistered
  <2> QED
    BY <2>1, <2>2, SessionsKeep DEF IInv
<1> QED
  BY <1>1, <1>2

\* A step that anchors nothing keeps what is known of the signals.
LEMMA SignalsKeep ==
  ASSUME IInv, [Next]_vars, UNCHANGED signals
  PROVE  AnchoredAfterDeadline'
<1> SUFFICES ASSUME NEW s \in Sessions, NEW m \in Markets, Anchored(s, m)
             PROVE  Registered(s)' /\ sessions'[s].enrollUntil <= signals[s][m].anchoredAt
  BY DEF AnchoredAfterDeadline, Anchored
<1>1. Registered(s) /\ sessions[s].enrollUntil <= signals[s][m].anchoredAt
  BY DEF IInv, AnchoredAfterDeadline
<1> QED
  BY <1>1, SessionsKeep DEF IInv, Registered

\* The anchoring comes at the deadline or later, of a registered session.
LEMMA PublishKeeps ==
  ASSUME IInv, [Next]_vars, NEW s \in Sessions, NEW m \in Markets, NEW side \in SignalSides,
         NEW until \in Times, NEW nonce, Publish(s, m, side, until, nonce)
  PROVE  AnchoredAfterDeadline'
<1> SUFFICES ASSUME NEW r \in Sessions, NEW n \in Markets, Anchored(r, n)'
             PROVE  Registered(r)' /\ sessions'[r].enrollUntil <= signals'[r][n].anchoredAt
  BY DEF AnchoredAfterDeadline
<1>1. signals' = [signals EXCEPT ![s] = [signals[s] EXCEPT ![m] =
        [side |-> side, validUntil |-> until, anchoredAt |-> now, nonce |-> nonce]]]
  BY DEF Publish
<1>2. CASE r = s /\ n = m
  <2>1. signals'[r][n].anchoredAt = now
    BY <1>1, <1>2 DEF IInv, TypeOK
  <2>2. Registered(s) /\ sessions[s].enrollUntil <= now
    <3>1. now >= sessions[s].enrollUntil /\ Registered(s)
      BY DEF Publish
    <3>2. sessions[s].enrollUntil \in Nat /\ now \in Nat
      BY DEF IInv, TypeOK, SessionType
    <3> QED
      BY <3>1, <3>2
  <2> QED
    BY <1>2, <2>1, <2>2, SessionsKeep DEF IInv, Registered
<1>3. CASE ~(r = s /\ n = m)
  <2>1. signals'[r][n] = signals[r][n]
    BY <1>1, <1>3 DEF IInv, TypeOK
  <2>2. Registered(r) /\ sessions[r].enrollUntil <= signals[r][n].anchoredAt
    BY <2>1 DEF IInv, AnchoredAfterDeadline, Anchored
  <2> QED
    BY <2>1, <2>2, SessionsKeep DEF IInv, Registered
<1> QED
  BY <1>2, <1>3

\* An accepted enrollment is in time.
LEMMA EnrollKeeps ==
  ASSUME IInv, [Next]_vars, NEW a \in Accounts, NEW e \in Enrollments, NEW p \in Policies,
         Enroll(a, e, p)
  PROVE  VaultsRegistered' /\ EnrolledInTime'
<1>1. /\ \A d \in Enrollments :
           vaults'[d].owner = vaults[d].owner /\ vaults'[d].session = vaults[d].session
      /\ sessions' = sessions
  BY DEF Enroll, registryVars, IInv, TypeOK, VaultType
<1>2. VaultsRegistered'
  BY <1>1 DEF IInv, VaultsRegistered, Registered
<1>3. EnrolledInTime'
  <2> SUFFICES ASSUME NEW d \in Enrollments, Enrolled(d)'
               PROVE  /\ vaults[d].owner # NoAccount
                      /\ enrolledAt'[d] < sessions[vaults[d].session].enrollUntil
    BY <1>1 DEF EnrolledInTime
  <2>1. CASE d = e
    <3>1. vaults[e].owner # NoAccount /\ now < sessions[vaults[e].session].enrollUntil
      BY DEF Enroll, EnrollmentOpen
    <3>2. enrolledAt'[e] = now
      BY DEF Enroll, IInv, TypeOK
    <3> QED
      BY <2>1, <3>1, <3>2
  <2>2. CASE d # e
    <3>1. Enrolled(d) /\ enrolledAt'[d] = enrolledAt[d]
      BY <2>2 DEF Enroll, IInv, TypeOK, Enrolled
    <3> QED
      BY <3>1 DEF IInv, EnrolledInTime
  <2> QED
    BY <2>1, <2>2
<1> QED
  BY <1>2, <1>3

\* A new vault belongs to a registered session; nobody is enrolled in it yet.
LEMMA CreateVaultKeeps ==
  ASSUME IInv, [Next]_vars, NEW a \in Accounts, NEW e \in Enrollments, NEW s \in Sessions,
         NEW c \in Collaterals, CreateVault(a, e, s, c)
  PROVE  VaultsRegistered' /\ EnrolledInTime'
<1>1. /\ sessions' = sessions /\ enrollments' = enrollments /\ enrolledAt' = enrolledAt
      /\ vaults[e].owner = NoAccount /\ Registered(s)
      /\ vaults' = [vaults EXCEPT ![e] =
           [NoVault EXCEPT !.owner = a, !.session = s, !.collateral = c]]
  BY DEF CreateVault, registryVars
<1>2. vaults'[e].session = s /\ \A d \in Enrollments : d # e => vaults'[d] = vaults[d]
  BY <1>1 DEF IInv, TypeOK, NoVault
<1>3. VaultsRegistered'
  BY <1>1, <1>2 DEF IInv, VaultsRegistered, Registered
<1>4. EnrolledInTime'
  BY <1>1, <1>2 DEF IInv, EnrolledInTime, Enrolled
<1> QED
  BY <1>3, <1>4

\* A revocation touches neither owner nor session nor follower.
LEMMA RevokeKeeps ==
  ASSUME IInv, [Next]_vars, NEW a \in Accounts, NEW e \in Enrollments,
         RevokeEnrollment(a, e) \/ RevokeVault(a, e)
  PROVE  VaultsRegistered' /\ EnrolledInTime'
<1>1. /\ \A d \in Enrollments :
           vaults'[d].owner = vaults[d].owner /\ vaults'[d].session = vaults[d].session
      /\ sessions' = sessions /\ enrolledAt' = enrolledAt
  <2>1. /\ vaults' = [vaults EXCEPT ![e].revoked = TRUE]
        /\ sessions' = sessions /\ enrolledAt' = enrolledAt
    BY DEF RevokeEnrollment, RevokeVault, registryVars
  <2>2. vaults \in [Enrollments -> VaultType]
    BY DEF IInv, TypeOK
  <2>3. ASSUME NEW d \in Enrollments
        PROVE  vaults'[d].owner = vaults[d].owner /\ vaults'[d].session = vaults[d].session
    BY <2>1, <2>2 DEF VaultType
  <2> QED
    BY <2>1, <2>3
<1>2. \A d \in Enrollments : enrollments'[d].follower = enrollments[d].follower
  <2>1. CASE RevokeEnrollment(a, e)
    <3>1. enrollments' = [enrollments EXCEPT ![e].active = FALSE]
      BY <2>1 DEF RevokeEnrollment
    <3>2. enrollments \in [Enrollments -> EnrollmentType]
      BY DEF IInv, TypeOK
    <3> QED
      BY <3>1, <3>2 DEF EnrollmentType
  <2>2. CASE RevokeVault(a, e)
    BY <2>2 DEF RevokeVault
  <2> QED
    BY <2>1, <2>2
<1>3. VaultsRegistered'
  BY <1>1 DEF IInv, VaultsRegistered, Registered
<1>4. EnrolledInTime'
  BY <1>1, <1>2 DEF IInv, EnrolledInTime, Enrolled
<1> QED
  BY <1>3, <1>4

\* Every step keeps the inductive invariant.
LEMMA StepIInv == IInv /\ [Next]_vars => IInv'
<1> SUFFICES ASSUME IInv, [Next]_vars PROVE IInv'
  OBVIOUS
<1>1. TypeOK'
  BY StepTypeOK DEF IInv
<1> DEFINE followersSame == UNCHANGED <<vaults, enrollments, enrolledAt>>
           signalsSame == UNCHANGED signals
<1>2. CASE followersSame /\ signalsSame
  BY <1>1, <1>2, FollowersKeep, SignalsKeep DEF IInv
<1>3. ASSUME NEW s \in Sessions, NEW m \in Markets, NEW side \in SignalSides, NEW until \in Times,
             NEW nonce, Publish(s, m, side, until, nonce)
      PROVE  IInv'
  <2>1. followersSame
    BY <1>3 DEF Publish, followerVars
  <2> QED
    BY <1>1, <1>3, <2>1, FollowersKeep, PublishKeeps DEF IInv
<1>4. ASSUME NEW a \in Accounts, NEW e \in Enrollments, NEW s \in Sessions, NEW c \in Collaterals,
             CreateVault(a, e, s, c)
      PROVE  IInv'
  <2>1. signalsSame
    BY <1>4 DEF CreateVault, registryVars
  <2> QED
    BY <1>1, <1>4, <2>1, SignalsKeep, CreateVaultKeeps DEF IInv
<1>5. ASSUME NEW a \in Accounts, NEW e \in Enrollments, NEW p \in Policies, Enroll(a, e, p)
      PROVE  IInv'
  <2>1. signalsSame
    BY <1>5 DEF Enroll, registryVars
  <2> QED
    BY <1>1, <1>5, <2>1, SignalsKeep, EnrollKeeps DEF IInv
<1>6. ASSUME NEW a \in Accounts, NEW e \in Enrollments, RevokeEnrollment(a, e) \/ RevokeVault(a, e)
      PROVE  IInv'
  <2>1. signalsSame
    BY <1>6 DEF RevokeEnrollment, RevokeVault, registryVars
  <2> QED
    BY <1>1, <1>6, <2>1, SignalsKeep, RevokeKeeps DEF IInv
<1>7. ASSUME \/ Tick \/ SetFactory
             \/ \E a \in Accounts, s \in Sessions :
                  \/ \E manifest \in Manifests : RegisterSession(a, s, manifest)
                  \/ WithdrawSession(a, s)
                  \/ \E m \in Markets : Annotate(a, s, m)
             \/ \E e \in Enrollments, m \in Markets :
                  Recover(e, m) \/ \E filled \in BOOLEAN : Execute(e, m, filled)
             \/ UNCHANGED vars
      PROVE  followersSame /\ signalsSame
  BY <1>7 DEF Tick, SetFactory, RegisterSession, WithdrawSession, Annotate, Recover, Execute,
              registryVars, followerVars, vars
<1> HIDE DEF followersSame, signalsSame
<1> QED
  BY <1>2, <1>3, <1>4, <1>5, <1>6, <1>7 DEF Next, PublishSignal, PublishSignalBySig

\* The inductive invariant holds in every reachable state of the protocol.
THEOREM SessionInvariant == Spec => []IInv
BY InitIInv, StepIInv, PTL DEF Spec

\* Type correctness for all inputs.
THEOREM SessionTypeOK == Spec => []TypeOK
<1>1. IInv => TypeOK
  BY DEF IInv
<1> QED
  BY <1>1, SessionInvariant, PTL

\* Consent precedes the signal, for any number of sessions, followers and relays.
THEOREM SessionConsent == Spec => []ConsentPrecedesSignal
<1>1. IInv => ConsentPrecedesSignal
  <2> SUFFICES ASSUME IInv, NEW e \in Enrollments, NEW m \in Markets,
                      Enrolled(e), Anchored(vaults[e].session, m)
               PROVE  enrolledAt[e] < signals[vaults[e].session][m].anchoredAt
    BY DEF ConsentPrecedesSignal
  <2> DEFINE s == vaults[e].session
  <2>1. enrolledAt[e] < sessions[s].enrollUntil /\ s \in Sessions
    BY DEF IInv, EnrolledInTime, VaultsRegistered
  <2>2. sessions[s].enrollUntil <= signals[s][m].anchoredAt
    BY <2>1 DEF IInv, AnchoredAfterDeadline
  <2>3. /\ enrolledAt[e] \in Nat
        /\ sessions[s].enrollUntil \in Nat
        /\ signals[s][m].anchoredAt \in Nat
    BY <2>1 DEF IInv, TypeOK, SessionType, SignalType
  <2> QED
    BY <2>1, <2>2, <2>3
<1> QED
  BY <1>1, SessionInvariant, PTL

-----------------------------------------------------------------------------
(* Stops                                                                   *)

\* Only an execution adds to what was executed or held, and it needs a vault that is not
\* revoked and a session that is not withdrawn.
LEMMA StepNoExecution ==
  ASSUME [Next]_vars, TypeOK, NEW e \in Enrollments,
         vaults[e].revoked \/ (Enrolled(e) /\ sessions[vaults[e].session].withdrawn)
  PROVE  executedAt'[e] = executedAt[e] /\ positions'[e] \subseteq positions[e]
<1> USE DEF registryVars, followerVars
<1>1. ASSUME NEW d \in Enrollments, NEW m \in Markets, NEW filled \in BOOLEAN, Execute(d, m, filled)
      PROVE  executedAt'[e] = executedAt[e] /\ positions'[e] = positions[e]
  <2>1. ~vaults[d].revoked /\ ~sessions[vaults[d].session].withdrawn
    BY <1>1 DEF Execute, VaultAccepts
  <2>2. d # e
    BY <2>1
  <2>3. /\ executedAt' = [executedAt EXCEPT ![d] = [executedAt[d] EXCEPT ![m] = Append(@, now)]]
        /\ positions' = [positions EXCEPT ![d] = IF filled THEN @ \cup {m} ELSE @]
    BY <1>1 DEF Execute
  <2> QED
    BY <2>2, <2>3 DEF TypeOK
<1>2. ASSUME NEW d \in Enrollments, NEW m \in Markets, Recover(d, m)
      PROVE  executedAt'[e] = executedAt[e] /\ positions'[e] \subseteq positions[e]
  BY <1>2 DEF Recover, TypeOK
<1>3. CASE UNCHANGED <<executedAt, positions>>
  BY <1>3
<1>4. ASSUME NEW s \in Sessions, NEW m \in Markets, NEW side \in SignalSides, NEW until \in Times,
             NEW nonce, Publish(s, m, side, until, nonce)
      PROVE  UNCHANGED <<executedAt, positions>>
  BY <1>4 DEF Publish
<1>5. ASSUME \/ Tick \/ SetFactory \/ UNCHANGED vars
             \/ \E a \in Accounts, s \in Sessions :
                  \/ \E manifest \in Manifests : RegisterSession(a, s, manifest)
                  \/ WithdrawSession(a, s)
                  \/ \E m \in Markets : Annotate(a, s, m)
      PROVE  UNCHANGED <<executedAt, positions>>
  BY <1>5 DEF Tick, SetFactory, RegisterSession, WithdrawSession, Annotate, vars
<1>6. ASSUME NEW a \in Accounts, NEW d \in Enrollments,
             \/ \E s \in Sessions, c \in Collaterals : CreateVault(a, d, s, c)
             \/ \E p \in Policies : Enroll(a, d, p)
             \/ RevokeEnrollment(a, d)
             \/ RevokeVault(a, d)
      PROVE  UNCHANGED <<executedAt, positions>>
  BY <1>6 DEF CreateVault, Enroll, RevokeEnrollment, RevokeVault
<1> QED
  BY <1>1, <1>2, <1>3, <1>4, <1>5, <1>6 DEF Next, PublishSignal, PublishSignalBySig

\* A stop is final for execution, by whichever door it came.
THEOREM SessionStops == Spec => NoExecutionAfterStop
<1>1. TypeOK /\ [Next]_vars =>
        [\A e \in Enrollments :
           (vaults[e].revoked \/ (Enrolled(e) /\ sessions[vaults[e].session].withdrawn)) =>
             executedAt'[e] = executedAt[e] /\ positions'[e] \subseteq positions[e]]_vars
  BY StepNoExecution
<1> QED
  BY <1>1, SessionTypeOK, PTL DEF Spec, NoExecutionAfterStop

-----------------------------------------------------------------------------
(* History: calls that leave the registry or the positions alone           *)

\* Calls about one enrollment, and calls that move its positions.
EnrollmentCall ==
  \E a \in Accounts, e \in Enrollments :
    \/ \E s \in Sessions, c \in Collaterals : CreateVault(a, e, s, c)
    \/ \E p \in Policies : Enroll(a, e, p)
    \/ RevokeEnrollment(a, e)
    \/ RevokeVault(a, e)
PositionCall ==
  \E e \in Enrollments, m \in Markets : Recover(e, m) \/ \E filled \in BOOLEAN : Execute(e, m, filled)

\* Creating a vault, enrolling and revoking touch neither registry, clock nor positions.
LEMMA EnrollmentCalls ==
  EnrollmentCall => UNCHANGED <<registryVars, now, consumed, positions, executedAt>>
<1>1. ASSUME NEW a, NEW e, NEW s, NEW c, CreateVault(a, e, s, c)
      PROVE  UNCHANGED <<registryVars, now, consumed, positions, executedAt>>
  BY <1>1 DEF CreateVault
<1>2. ASSUME NEW a, NEW e, NEW p, Enroll(a, e, p)
      PROVE  UNCHANGED <<registryVars, now, consumed, positions, executedAt>>
  BY <1>2 DEF Enroll
<1>3. ASSUME NEW a, NEW e, RevokeEnrollment(a, e) \/ RevokeVault(a, e)
      PROVE  UNCHANGED <<registryVars, now, consumed, positions, executedAt>>
  BY <1>3 DEF RevokeEnrollment, RevokeVault
<1> QED
  BY <1>1, <1>2, <1>3 DEF EnrollmentCall

\* Executing and recovering touch neither registry, clock, vaults nor enrollments.
LEMMA PositionCalls ==
  PositionCall => UNCHANGED <<registryVars, now, vaults, enrollments, enrolledAt>>
  BY DEF PositionCall, Recover, Execute, registryVars

-----------------------------------------------------------------------------
(* The record is append-only.                                              *)

\* What a step may do to a session that is registered.
SessionAdvances(r, next) ==
  /\ \E w \in BOOLEAN, c \in {0, 1} : next = [r EXCEPT !.withdrawn = w, !.signalCount = @ + c]
  /\ r.withdrawn => next = r

\* A session that is left alone has advanced by nothing.
LEMMA SessionSame == ASSUME NEW r \in SessionType PROVE SessionAdvances(r, r)
<1> DEFINE w == r.withdrawn
<1>1. w \in BOOLEAN /\ r.signalCount + 0 = r.signalCount
  BY DEF SessionType
<1>2. r = [r EXCEPT !.withdrawn = w, !.signalCount = @ + 0]
  BY <1>1 DEF SessionType
<1> QED
  BY <1>1, <1>2 DEF SessionAdvances

\* A withdrawal is an advance of its session.
LEMMA SessionWithdrawn ==
  ASSUME NEW r \in SessionType, ~r.withdrawn PROVE SessionAdvances(r, [r EXCEPT !.withdrawn = TRUE])
<1>1. r.signalCount + 0 = r.signalCount
  BY DEF SessionType
<1>2. [r EXCEPT !.withdrawn = TRUE] = [r EXCEPT !.withdrawn = TRUE, !.signalCount = @ + 0]
  BY <1>1 DEF SessionType
<1> QED
  BY <1>2 DEF SessionAdvances

\* Counting a signal is an advance of its session.
LEMMA SessionCounted ==
  ASSUME NEW r \in SessionType, ~r.withdrawn PROVE SessionAdvances(r, [r EXCEPT !.signalCount = @ + 1])
<1>1. [r EXCEPT !.signalCount = @ + 1] = [r EXCEPT !.withdrawn = FALSE, !.signalCount = @ + 1]
  BY DEF SessionType
<1> QED
  BY <1>1 DEF SessionAdvances

\* No step does more to a registered session than withdraw it or count a signal.
LEMMA SessionsAdvance ==
  ASSUME TypeOK, [Next]_vars, NEW s \in Sessions, Registered(s)
  PROVE  SessionAdvances(sessions[s], sessions'[s])
<1> USE DEF registryVars, followerVars
<1>1. sessions[s] \in SessionType /\ sessions \in [Sessions -> SessionType]
  BY DEF TypeOK
<1>2. CASE sessions'[s] = sessions[s]
  BY <1>1, <1>2, SessionSame
<1>3. ASSUME NEW a \in Accounts, NEW r \in Sessions, NEW manifest \in Manifests,
             RegisterSession(a, r, manifest)
      PROVE  sessions'[s] = sessions[s]
  BY <1>1, <1>3 DEF RegisterSession
<1>4. ASSUME NEW a \in Accounts, NEW r \in Sessions, WithdrawSession(a, r)
      PROVE  SessionAdvances(sessions[s], sessions'[s])
  <2>1. CASE r = s
    <3>1. sessions'[s] = [sessions[s] EXCEPT !.withdrawn = TRUE] /\ ~sessions[s].withdrawn
      BY <1>1, <1>4, <2>1 DEF WithdrawSession
    <3> QED
      BY <1>1, <3>1, SessionWithdrawn
  <2>2. CASE r # s
    BY <1>1, <1>2, <1>4, <2>2 DEF WithdrawSession
  <2> QED
    BY <2>1, <2>2
<1>5. ASSUME NEW r \in Sessions, NEW m \in Markets, NEW side \in SignalSides, NEW until \in Times,
             NEW nonce, Publish(r, m, side, until, nonce)
      PROVE  SessionAdvances(sessions[s], sessions'[s])
  <2>1. CASE r = s
    <3>1. sessions'[s] = [sessions[s] EXCEPT !.signalCount = @ + 1] /\ ~sessions[s].withdrawn
      BY <1>1, <1>5, <2>1 DEF Publish
    <3> QED
      BY <1>1, <3>1, SessionCounted
  <2>2. CASE r # s
    BY <1>1, <1>2, <1>5, <2>2 DEF Publish
  <2> QED
    BY <2>1, <2>2
<1>6. ASSUME \/ Tick \/ SetFactory \/ UNCHANGED vars
             \/ \E a \in Accounts, r \in Sessions, m \in Markets : Annotate(a, r, m)
             \/ EnrollmentCall \/ PositionCall
      PROVE  sessions' = sessions
  BY <1>6, EnrollmentCalls, PositionCalls DEF Tick, SetFactory, Annotate, vars
<1> QED
  BY <1>2, <1>3, <1>4, <1>5, <1>6 DEF Next, PublishSignal, PublishSignalBySig, EnrollmentCall, PositionCall

\* What can happen to the registry in a step, in terms of signals and nonces.
LEMMA SignalsStep ==
  ASSUME TypeOK, [Next]_vars
  PROVE  \/ UNCHANGED <<signals, usedNonces>>
         \/ \E s \in Sessions, m \in Markets, side \in SignalSides, until \in Times, n \in Nonces \cup {0} :
              /\ Publish(s, m, side, until, n)
              /\ \/ n = 0 /\ UNCHANGED usedNonces
                 \/ /\ n \in Nonces /\ sessions[s].creator \in Accounts
                    /\ n \notin usedNonces[sessions[s].creator]
                    /\ usedNonces' = [usedNonces EXCEPT ![sessions[s].creator] = @ \cup {n}]
<1> USE DEF registryVars, followerVars
<1>1. ASSUME NEW a \in Accounts, NEW s \in Sessions, NEW m \in Markets, NEW side \in SignalSides,
             NEW until \in Times, PublishSignal(a, s, m, side, until)
      PROVE  Publish(s, m, side, until, 0) /\ UNCHANGED usedNonces
  BY <1>1 DEF PublishSignal
<1>2. ASSUME NEW a \in Accounts, NEW s \in Sessions, NEW m \in Markets, NEW side \in SignalSides,
             NEW until \in Times, NEW n \in Nonces, PublishSignalBySig(a, s, m, side, until, n)
      PROVE  /\ Publish(s, m, side, until, n) /\ sessions[s].creator \in Accounts
             /\ n \notin usedNonces[sessions[s].creator]
             /\ usedNonces' = [usedNonces EXCEPT ![sessions[s].creator] = @ \cup {n}]
  BY <1>2 DEF PublishSignalBySig
<1>3. ASSUME \/ Tick \/ SetFactory \/ UNCHANGED vars
             \/ \E a \in Accounts, s \in Sessions :
                  \/ \E manifest \in Manifests : RegisterSession(a, s, manifest)
                  \/ WithdrawSession(a, s)
                  \/ \E m \in Markets : Annotate(a, s, m)
             \/ EnrollmentCall \/ PositionCall
      PROVE  UNCHANGED <<signals, usedNonces>>
  BY <1>3, EnrollmentCalls, PositionCalls
  DEF Tick, SetFactory, RegisterSession, WithdrawSession, Annotate, vars
<1> QED
  BY <1>1, <1>2, <1>3 DEF Next, EnrollmentCall, PositionCall

\* A signal once anchored and a nonce once used stay as they are.
LEMMA SignalsAdvance ==
  ASSUME TypeOK, [Next]_vars
  PROVE  /\ \A s \in Sessions, m \in Markets : Anchored(s, m) => signals'[s][m] = signals[s][m]
         /\ \A a \in Accounts : usedNonces[a] \subseteq usedNonces'[a]
<1>1. CASE UNCHANGED <<signals, usedNonces>>
  BY <1>1
<1>2. ASSUME NEW s \in Sessions, NEW m \in Markets, NEW side \in SignalSides, NEW until \in Times, NEW n,
             Publish(s, m, side, until, n),
             NEW r \in Sessions, NEW k \in Markets, Anchored(r, k)
      PROVE  signals'[r][k] = signals[r][k]
  <2>1. signals' = [signals EXCEPT ![s] = [signals[s] EXCEPT ![m] =
          [side |-> side, validUntil |-> until, anchoredAt |-> now, nonce |-> n]]]
    BY <1>2 DEF Publish
  <2>2. ~(r = s /\ k = m)
    BY <1>2 DEF Publish, SlotFree
  <2> QED
    BY <2>1, <2>2 DEF TypeOK
<1>3. ASSUME NEW a, NEW n, usedNonces' = [usedNonces EXCEPT ![a] = @ \cup {n}]
      PROVE  \A b \in Accounts : usedNonces[b] \subseteq usedNonces'[b]
  BY <1>3 DEF TypeOK
<1> QED
  BY <1>1, <1>2, <1>3, SignalsStep

\* What can happen to a follower's records in a step.
LEMMA FollowersStep ==
  ASSUME [Next]_vars
  PROVE  \/ UNCHANGED <<vaults, enrollments, enrolledAt, consumed, positions, executedAt>>
         \/ EnrollmentCall
         \/ PositionCall
<1> USE DEF registryVars, followerVars
<1>1. ASSUME \/ Tick \/ SetFactory \/ UNCHANGED vars
             \/ \E a \in Accounts, s \in Sessions :
                  \/ \E manifest \in Manifests : RegisterSession(a, s, manifest)
                  \/ WithdrawSession(a, s)
                  \/ \E m \in Markets : Annotate(a, s, m)
      PROVE  UNCHANGED <<vaults, enrollments, enrolledAt, consumed, positions, executedAt>>
  BY <1>1 DEF Tick, SetFactory, RegisterSession, WithdrawSession, Annotate, vars
<1>2. ASSUME NEW s, NEW m, NEW side, NEW until, NEW n, Publish(s, m, side, until, n)
      PROVE  UNCHANGED <<vaults, enrollments, enrolledAt, consumed, positions, executedAt>>
  BY <1>2 DEF Publish
<1> QED
  BY <1>1, <1>2 DEF Next, PublishSignal, PublishSignalBySig, EnrollmentCall, PositionCall

\* An accepted policy changes only by its revocation, and consumed signals stay consumed.
LEMMA FollowersAdvance ==
  ASSUME IInv, [Next]_vars, NEW e \in Enrollments
  PROVE  /\ consumed[e] \subseteq consumed'[e]
         /\ Enrolled(e) => /\ enrolledAt'[e] = enrolledAt[e]
                           /\ \E r \in BOOLEAN : vaults'[e] = [vaults[e] EXCEPT !.revoked = r]
<1>1. /\ vaults \in [Enrollments -> VaultType] /\ vaults[e] \in VaultType
      /\ vaults[e].revoked \in BOOLEAN
  BY DEF IInv, TypeOK, VaultType
<1>2. vaults[e] = [vaults[e] EXCEPT !.revoked = vaults[e].revoked]
  BY <1>1 DEF VaultType
<1>3. CASE UNCHANGED <<vaults, enrollments, enrolledAt, consumed, positions, executedAt>>
  BY <1>1, <1>2, <1>3
<1>4. CASE PositionCall
  <2>1. UNCHANGED <<vaults, enrolledAt>>
    BY <1>4, PositionCalls
  <2>2. ASSUME NEW d \in Enrollments, NEW m \in Markets, NEW filled \in BOOLEAN, Execute(d, m, filled)
        PROVE  consumed[e] \subseteq consumed'[e]
    <3>1. consumed' = [consumed EXCEPT ![d] = @ \cup {m}] /\ consumed \in [Enrollments -> SUBSET Markets]
      BY <2>2 DEF Execute, IInv, TypeOK
    <3> QED
      BY <3>1
  <2>3. ASSUME NEW d \in Enrollments, NEW m \in Markets, Recover(d, m) PROVE consumed' = consumed
    BY <2>3 DEF Recover
  <2>4. consumed[e] \subseteq consumed'[e]
    BY <1>4, <2>2, <2>3 DEF PositionCall
  <2> QED
    BY <1>1, <1>2, <2>1, <2>4
<1>5. CASE EnrollmentCall
  <2>1. consumed' = consumed
    BY <1>5, EnrollmentCalls
  <2>2. ASSUME NEW a \in Accounts, NEW d \in Enrollments, NEW s \in Sessions, NEW c \in Collaterals,
               CreateVault(a, d, s, c), Enrolled(e)
        PROVE  enrolledAt'[e] = enrolledAt[e] /\ vaults'[e] = vaults[e]
    BY <1>1, <2>2 DEF CreateVault, IInv, EnrolledInTime
  <2>3. ASSUME NEW a \in Accounts, NEW d \in Enrollments, NEW p \in Policies, Enroll(a, d, p), Enrolled(e)
        PROVE  enrolledAt'[e] = enrolledAt[e] /\ vaults'[e] = vaults[e]
    BY <1>1, <2>3 DEF Enroll, Enrolled, IInv, TypeOK
  <2>4. ASSUME NEW a \in Accounts, NEW d \in Enrollments, RevokeEnrollment(a, d) \/ RevokeVault(a, d)
        PROVE  /\ enrolledAt' = enrolledAt
               /\ vaults'[e] = vaults[e] \/ vaults'[e] = [vaults[e] EXCEPT !.revoked = TRUE]
    BY <1>1, <2>4 DEF RevokeEnrollment, RevokeVault
  <2> QED
    BY <1>1, <1>2, <1>5, <2>1, <2>2, <2>3, <2>4 DEF EnrollmentCall
<1> QED
  BY <1>3, <1>4, <1>5, FollowersStep

\* Nothing that was recorded changes: manifests, signals, withdrawals, nonces, policies.
THEOREM SessionHistory == Spec => HistoryIsFinal
<1>1. IInv /\ [Next]_vars =>
        [/\ \A s \in Sessions :
              Registered(s) =>
                /\ \E w \in BOOLEAN, c \in {0, 1} :
                     sessions'[s] = [sessions[s] EXCEPT !.withdrawn = w, !.signalCount = @ + c]
                /\ sessions[s].withdrawn => sessions'[s] = sessions[s]
                /\ \A m \in Markets : Anchored(s, m) => signals'[s][m] = signals[s][m]
         /\ \A a \in Accounts : usedNonces[a] \subseteq usedNonces'[a]
         /\ \A e \in Enrollments :
              /\ consumed[e] \subseteq consumed'[e]
              /\ Enrolled(e) =>
                   /\ enrolledAt'[e] = enrolledAt[e]
                   /\ \E r \in BOOLEAN : vaults'[e] = [vaults[e] EXCEPT !.revoked = r]]_vars
  <2> SUFFICES ASSUME IInv, [Next]_vars
               PROVE  /\ \A s \in Sessions :
                           Registered(s) =>
                             /\ SessionAdvances(sessions[s], sessions'[s])
                             /\ \A m \in Markets : Anchored(s, m) => signals'[s][m] = signals[s][m]
                      /\ \A a \in Accounts : usedNonces[a] \subseteq usedNonces'[a]
                      /\ \A e \in Enrollments :
                           /\ consumed[e] \subseteq consumed'[e]
                           /\ Enrolled(e) =>
                                /\ enrolledAt'[e] = enrolledAt[e]
                                /\ \E r \in BOOLEAN : vaults'[e] = [vaults[e] EXCEPT !.revoked = r]
    BY DEF SessionAdvances
  <2> QED
    BY SessionsAdvance, SignalsAdvance, FollowersAdvance DEF IInv
<1> QED
  BY <1>1, SessionInvariant, PTL DEF Spec, HistoryIsFinal

-----------------------------------------------------------------------------
(* One execution for a signal.                                             *)

\* An execution needs an unconsumed signal and consumes it.
LEMMA ExecutedOnceStep == TypeOK /\ ExecutedOnce /\ [Next]_vars => ExecutedOnce'
<1> SUFFICES ASSUME TypeOK, ExecutedOnce, [Next]_vars, NEW e \in Enrollments, NEW m \in Markets
             PROVE  /\ Len(executedAt'[e][m]) = IF m \in consumed'[e] THEN 1 ELSE 0
                    /\ m \in positions'[e] => m \in consumed'[e]
  BY DEF ExecutedOnce
<1>1. /\ Len(executedAt[e][m]) = IF m \in consumed[e] THEN 1 ELSE 0
      /\ m \in positions[e] => m \in consumed[e]
      /\ executedAt \in [Enrollments -> [Markets -> Seq(Nat)]]
  BY DEF ExecutedOnce, TypeOK
<1>2. CASE UNCHANGED <<consumed, positions, executedAt>>
  BY <1>1, <1>2
<1>3. ASSUME NEW d \in Enrollments, NEW k \in Markets, Recover(d, k)
      PROVE  UNCHANGED <<consumed, executedAt>> /\ positions'[e] \subseteq positions[e]
  BY <1>3 DEF Recover, TypeOK
<1>4. ASSUME NEW d \in Enrollments, NEW k \in Markets, NEW filled \in BOOLEAN, Execute(d, k, filled)
      PROVE  /\ Len(executedAt'[e][m]) = IF m \in consumed'[e] THEN 1 ELSE 0
             /\ m \in positions'[e] => m \in consumed'[e]
  <2>1. /\ executedAt' = [executedAt EXCEPT ![d] = [executedAt[d] EXCEPT ![k] = Append(@, now)]]
        /\ consumed' = [consumed EXCEPT ![d] = @ \cup {k}]
        /\ positions' = [positions EXCEPT ![d] = IF filled THEN @ \cup {k} ELSE @]
        /\ k \notin consumed[d]
    BY <1>4 DEF Execute, NotYetExecuted
  <2>2. CASE d = e /\ k = m
    <3>1. executedAt'[e][m] = Append(executedAt[e][m], now) /\ executedAt[e][m] \in Seq(Nat) /\ now \in Nat
      BY <1>1, <2>1, <2>2 DEF TypeOK
    <3>2. Len(executedAt'[e][m]) = Len(executedAt[e][m]) + 1
      BY <3>1
    <3>3. m \in consumed'[e]
      BY <2>1, <2>2 DEF TypeOK
    <3> QED
      BY <1>1, <2>1, <2>2, <3>2, <3>3
  <2>3. CASE ~(d = e /\ k = m)
    <3>1. executedAt'[e][m] = executedAt[e][m]
      BY <1>1, <2>1, <2>3
    <3>2. (m \in consumed'[e] <=> m \in consumed[e]) /\ (m \in positions'[e] <=> m \in positions[e])
      BY <2>1, <2>3 DEF TypeOK
    <3> QED
      BY <1>1, <3>1, <3>2
  <2> QED
    BY <2>2, <2>3
<1>5. CASE EnrollmentCall
  BY <1>2, <1>5, EnrollmentCalls
<1>6. CASE PositionCall
  BY <1>1, <1>3, <1>4, <1>6 DEF PositionCall
<1> QED
  BY <1>2, <1>5, <1>6, FollowersStep

\* An enrollment executes a market's signal at most once, whoever relays it and how often,
\* and holds a position only from that execution.
THEOREM SessionExecutedOnce == Spec => []ExecutedOnce
<1>1. Init => ExecutedOnce
  BY DEF Init, ExecutedOnce
<1>2. TypeOK /\ ExecutedOnce /\ [Next]_vars => ExecutedOnce'
  BY ExecutedOnceStep
<1> QED
  BY <1>1, <1>2, SessionTypeOK, PTL DEF Spec

-----------------------------------------------------------------------------
(* A nonce anchors one signal.                                             *)

\* The signals of creator a that carry nonce n.
Uses(a, n) ==
  {sm \in Sessions \X Markets : /\ sessions[sm[1]].creator = a
                               /\ Anchored(sm[1], sm[2])
                               /\ signals[sm[1]][sm[2]].nonce = n}

\* Only sessions that are not registered get a creator.
LEMMA CreatorsKeep ==
  ASSUME IInv, [Next]_vars, NEW s \in Sessions, NEW m \in Markets, Anchored(s, m)
  PROVE  sessions'[s].creator = sessions[s].creator
  BY SessionsKeep DEF IInv, AnchoredAfterDeadline

\* A nonce is used by the step that anchors its signal, and by no other.
LEMMA NonceStep == IInv /\ NonceAnchorsOneSignal /\ [Next]_vars => NonceAnchorsOneSignal'
<1> SUFFICES ASSUME IInv, NonceAnchorsOneSignal, [Next]_vars,
                    NEW a \in Accounts, NEW n \in Nonces \ {0}
             PROVE  /\ n \in usedNonces'[a] <=> Uses(a, n)' # {}
                    /\ \A x, y \in Uses(a, n)' : x = y
  BY DEF NonceAnchorsOneSignal, Uses
<1>1. (n \in usedNonces[a] <=> Uses(a, n) # {}) /\ \A x, y \in Uses(a, n) : x = y
  BY DEF NonceAnchorsOneSignal, Uses
<1>2. CASE UNCHANGED <<signals, usedNonces>>
  <2>1. \A s \in Sessions, m \in Markets : Anchored(s, m)' <=> Anchored(s, m)
    BY <1>2 DEF Anchored
  <2>2. Uses(a, n)' = Uses(a, n)
    BY <1>2, <2>1, CreatorsKeep DEF Uses
  <2> QED
    BY <1>1, <1>2, <2>2
<1>3. ASSUME NEW s \in Sessions, NEW m \in Markets, NEW side \in SignalSides, NEW until \in Times,
             NEW k \in Nonces \cup {0}, Publish(s, m, side, until, k)
      PROVE  Uses(a, n)' = IF sessions[s].creator = a /\ k = n THEN Uses(a, n) \cup {<<s, m>>} ELSE Uses(a, n)
  <2>1. signals' = [signals EXCEPT ![s] = [signals[s] EXCEPT ![m] =
          [side |-> side, validUntil |-> until, anchoredAt |-> now, nonce |-> k]]]
    BY <1>3 DEF Publish
  <2>2. Registered(s) /\ ~Anchored(s, m)
    BY <1>3 DEF Publish, SlotFree
  <2>3. signals'[s][m].nonce = k /\ signals'[s][m].side = side /\ side # "NONE"
    BY <2>1 DEF IInv, TypeOK, SignalSides, TradeSides
  <2>4. Anchored(s, m)' /\ sessions'[s].creator = sessions[s].creator
    BY <2>2, <2>3, SessionsKeep DEF Anchored, IInv
  <2>5. \A r \in Sessions, l \in Markets : <<r, l>> # <<s, m>> => signals'[r][l] = signals[r][l]
    BY <2>1 DEF IInv, TypeOK
  <2>6. ASSUME NEW r \in Sessions, NEW l \in Markets, <<r, l>> # <<s, m>>
        PROVE  <<r, l>> \in Uses(a, n)' <=> <<r, l>> \in Uses(a, n)
    <3>1. Anchored(r, l)' <=> Anchored(r, l)
      BY <2>5, <2>6 DEF Anchored
    <3> QED
      BY <2>5, <2>6, <3>1, CreatorsKeep DEF Uses
  <2>7. <<s, m>> \in Uses(a, n)' <=> sessions[s].creator = a /\ k = n
    BY <2>3, <2>4 DEF Uses
  <2>8. <<s, m>> \notin Uses(a, n)
    BY <2>2 DEF Uses
  <2>9. Uses(a, n) \subseteq Sessions \X Markets /\ Uses(a, n)' \subseteq Sessions \X Markets
    BY DEF Uses
  <2> QED
    BY <2>6, <2>7, <2>8, <2>9
<1>4. ASSUME NEW s \in Sessions, NEW m \in Markets, NEW side \in SignalSides, NEW until \in Times,
             NEW k \in Nonces \cup {0}, Publish(s, m, side, until, k),
             \/ k = 0 /\ UNCHANGED usedNonces
             \/ /\ k \in Nonces /\ sessions[s].creator \in Accounts
                /\ k \notin usedNonces[sessions[s].creator]
                /\ usedNonces' = [usedNonces EXCEPT ![sessions[s].creator] = @ \cup {k}]
      PROVE  /\ n \in usedNonces'[a] <=> Uses(a, n)' # {}
             /\ \A x, y \in Uses(a, n)' : x = y
  <2>1. usedNonces \in [Accounts -> SUBSET Nonces]
    BY DEF IInv, TypeOK
  <2>2. CASE sessions[s].creator = a /\ k = n
    <3>1. n \notin usedNonces[a] /\ n \in usedNonces'[a]
      BY <1>4, <2>1, <2>2
    <3>2. Uses(a, n)' = {<<s, m>>}
      BY <1>1, <1>3, <1>4, <2>2, <3>1
    <3> QED
      BY <3>1, <3>2
  <2>3. CASE ~(sessions[s].creator = a /\ k = n)
    <3>1. n \in usedNonces'[a] <=> n \in usedNonces[a]
      BY <1>4, <2>1, <2>3
    <3>2. Uses(a, n)' = Uses(a, n)
      BY <1>3, <1>4, <2>3
    <3> QED
      BY <1>1, <3>1, <3>2
  <2> QED
    BY <2>2, <2>3
<1> QED
  BY <1>2, <1>4, SignalsStep DEF IInv

\* However often and wherever a signed signal is relayed, it is anchored at most once, over
\* all sessions and markets of its creator.
THEOREM SessionNonces == Spec => []NonceAnchorsOneSignal
<1>1. Init => NonceAnchorsOneSignal
  BY DEF Init, NonceAnchorsOneSignal, Anchored, NoSignal
<1>2. IInv /\ NonceAnchorsOneSignal /\ [Next]_vars => NonceAnchorsOneSignal'
  BY NonceStep
<1> QED
  BY <1>1, <1>2, SessionInvariant, PTL DEF Spec

-----------------------------------------------------------------------------
(* Executor and vault agree.                                               *)

\* Executor and vault change an enrollment together, in one call.
LEMMA AgreementStep == IInv /\ EnrollmentMatchesVault /\ [Next]_vars => EnrollmentMatchesVault'
<1> DEFINE Agrees(e) ==
      /\ Enrolled(e) <=> vaults[e].active
      /\ Enrolled(e) =>
           /\ enrollments[e].follower = vaults[e].owner
           /\ Registered(vaults[e].session)
           /\ sessions[vaults[e].session].creator # enrollments[e].follower
           /\ ~enrollments[e].active => vaults[e].revoked
      /\ vaults[e].revoked => Enrolled(e)
<1> SUFFICES ASSUME IInv, \A e \in Enrollments : Agrees(e), [Next]_vars, NEW e \in Enrollments
             PROVE  Agrees(e)'
  BY DEF EnrollmentMatchesVault
<1>1. Enrolled(e) => vaults[e].session \in Sessions /\ vaults[e].owner # NoAccount
  BY DEF IInv, EnrolledInTime, VaultsRegistered
<1>2. /\ vaults \in [Enrollments -> VaultType] /\ vaults[e] \in VaultType
      /\ enrollments \in [Enrollments -> EnrollmentType] /\ enrollments[e] \in EnrollmentType
  BY DEF IInv, TypeOK
<1>3. ASSUME enrollments'[e] = enrollments[e], vaults'[e] = vaults[e] PROVE Agrees(e)'
  <2>1. Enrolled(e) => /\ Registered(vaults[e].session)
                      /\ sessions'[vaults[e].session].creator = sessions[vaults[e].session].creator
    BY <1>1, SessionsKeep DEF IInv
  <2> QED
    BY <1>3, <2>1 DEF Enrolled, Registered
<1>4. CASE UNCHANGED <<vaults, enrollments>>
  BY <1>3, <1>4
<1>5. CASE EnrollmentCall
  <2>0. sessions' = sessions
    BY <1>5, EnrollmentCalls DEF registryVars
  <2>1. ASSUME NEW a \in Accounts, NEW d \in Enrollments, NEW s \in Sessions, NEW c \in Collaterals,
               CreateVault(a, d, s, c)
        PROVE  Agrees(e)'
    <3>1. /\ enrollments' = enrollments /\ vaults[d].owner = NoAccount
          /\ vaults' = [vaults EXCEPT ![d] = [NoVault EXCEPT !.owner = a, !.session = s, !.collateral = c]]
      BY <2>1 DEF CreateVault
    <3>2. CASE d # e
      BY <1>2, <1>3, <3>1, <3>2
    <3>3. CASE d = e
      <4>1. ~vaults'[e].active /\ ~vaults'[e].revoked
        BY <1>2, <3>1, <3>3 DEF NoVault
      <4>2. ~Enrolled(e) /\ ~Enrolled(e)'
        BY <1>1, <3>1, <3>3 DEF Enrolled
      <4> QED
        BY <4>1, <4>2
    <3> QED
      BY <3>2, <3>3
  <2>2. ASSUME NEW a \in Accounts, NEW d \in Enrollments, NEW p \in Policies, Enroll(a, d, p)
        PROVE  Agrees(e)'
    <3>1. /\ a = vaults[d].owner /\ a # sessions[vaults[d].session].creator
          /\ Registered(vaults[d].session) /\ vaults[d].owner # NoAccount
          /\ vaults' = [vaults EXCEPT ![d].active = TRUE, ![d].sides = p.sides,
                                      ![d].validUntil = p.validUntil]
          /\ enrollments' = [enrollments EXCEPT ![d] = [follower |-> a, active |-> TRUE]]
      BY <2>2 DEF Enroll, EnrollmentOpen
    <3>2. CASE d # e
      BY <1>2, <1>3, <3>1, <3>2
    <3>3. CASE d = e
      <4>1. /\ vaults'[e].active /\ vaults'[e].owner = a /\ vaults'[e].session = vaults[e].session
            /\ enrollments'[e] = [follower |-> a, active |-> TRUE]
        BY <1>2, <3>1, <3>3 DEF VaultType
      <4> QED
        BY <2>0, <3>1, <3>3, <4>1 DEF Enrolled, Registered
    <3> QED
      BY <3>2, <3>3
  <2>3. ASSUME NEW a \in Accounts, NEW d \in Enrollments, RevokeEnrollment(a, d) \/ RevokeVault(a, d)
        PROVE  Agrees(e)'
    <3>1. /\ vaults' = [vaults EXCEPT ![d].revoked = TRUE] /\ vaults[d].active
          /\ enrollments' \in {enrollments, [enrollments EXCEPT ![d].active = FALSE]}
      BY <2>3 DEF RevokeEnrollment, RevokeVault, VaultRevokable
    <3>2. CASE d # e
      BY <1>2, <1>3, <3>1, <3>2
    <3>3. CASE d = e
      <4>1. /\ vaults'[e].revoked /\ vaults'[e].active /\ vaults'[e].owner = vaults[e].owner
            /\ vaults'[e].session = vaults[e].session
            /\ enrollments'[e].follower = enrollments[e].follower
        BY <1>2, <3>1, <3>3 DEF VaultType, EnrollmentType
      <4>2. Agrees(e) /\ Enrolled(e)
        BY <3>1, <3>3
      <4> QED
        BY <2>0, <4>1, <4>2 DEF Enrolled, Registered
    <3> QED
      BY <3>2, <3>3
  <2> QED
    BY <1>5, <2>1, <2>2, <2>3 DEF EnrollmentCall
<1>6. CASE PositionCall
  BY <1>4, <1>6, PositionCalls
<1> HIDE DEF Agrees
<1> QED
  BY <1>4, <1>5, <1>6, FollowersStep

\* Executor and vault agree about every enrollment: whoever is enrolled owns the vault and
\* is not the session's creator, and what the executor calls inactive is revoked in the vault.
THEOREM SessionAgreement == Spec => []EnrollmentMatchesVault
<1>1. Init => EnrollmentMatchesVault
  BY DEF Init, EnrollmentMatchesVault, Enrolled, NoEnrollment, NoVault
<1>2. IInv /\ EnrollmentMatchesVault /\ [Next]_vars => EnrollmentMatchesVault'
  BY AgreementStep
<1> QED
  BY <1>1, <1>2, SessionInvariant, PTL DEF Spec

-----------------------------------------------------------------------------
(* Every execution was consented to.                                       *)

\* What the anchoring checked, as far as it stays true.
SignalWindow ==
  \A s \in Sessions, m \in Markets :
    Anchored(s, m) =>
      /\ KnownMarket(s, m) /\ signals[s][m].anchoredAt <= now
      /\ signals[s][m].validUntil <= Expiry[m] /\ signals[s][m].validUntil <= sessions[s].sessionUntil

ConsentInv == IInv /\ EnrollmentMatchesVault /\ SignalWindow /\ ExecutedWithinConsent

\* A registered session keeps its markets and its end.
LEMMA TermsKeep ==
  ASSUME IInv, [Next]_vars, NEW s \in Sessions, Registered(s)
  PROVE  /\ sessions'[s].refs = sessions[s].refs /\ sessions'[s].sessionUntil = sessions[s].sessionUntil
         /\ \A m : KnownMarket(s, m)' <=> KnownMarket(s, m)
<1>1. PICK w \in BOOLEAN, c \in {0, 1} :
        sessions'[s] = [sessions[s] EXCEPT !.withdrawn = w, !.signalCount = @ + c]
  BY SessionsAdvance DEF IInv, SessionAdvances
<1>2. sessions[s] \in SessionType
  BY DEF IInv, TypeOK
<1>3. sessions'[s].refs = sessions[s].refs /\ sessions'[s].sessionUntil = sessions[s].sessionUntil
  BY <1>1, <1>2 DEF SessionType
<1> QED
  BY <1>3 DEF KnownMarket, Refs

\* Time does not go back.
LEMMA TimeAdvances == ASSUME TypeOK, [Next]_vars PROVE now <= now'
<1>1. now \in Nat
  BY DEF TypeOK
<1>2. ASSUME NEW s, NEW m, NEW side, NEW until, NEW n, Publish(s, m, side, until, n) PROVE now' = now
  BY <1>2 DEF Publish
<1>3. ASSUME \/ SetFactory \/ UNCHANGED vars
             \/ \E a \in Accounts, s \in Sessions :
                  \/ \E manifest \in Manifests : RegisterSession(a, s, manifest)
                  \/ WithdrawSession(a, s)
                  \/ \E m \in Markets : Annotate(a, s, m)
             \/ EnrollmentCall \/ PositionCall
      PROVE  now' = now
  BY <1>3, EnrollmentCalls, PositionCalls DEF SetFactory, RegisterSession, WithdrawSession, Annotate, vars
<1>4. CASE Tick
  BY <1>1, <1>4 DEF Tick
<1> QED
  BY <1>1, <1>2, <1>3, <1>4 DEF Next, PublishSignal, PublishSignalBySig, EnrollmentCall, PositionCall

\* A signal is anchored inside its market's and its session's window, which do not move.
LEMMA SignalWindowStep == ASSUME IInv, SignalWindow, [Next]_vars PROVE SignalWindow'
<1> SUFFICES ASSUME NEW s \in Sessions, NEW m \in Markets, Anchored(s, m)'
             PROVE  /\ KnownMarket(s, m)' /\ signals'[s][m].anchoredAt <= now'
                    /\ signals'[s][m].validUntil <= Expiry[m]
                    /\ signals'[s][m].validUntil <= sessions'[s].sessionUntil
  BY DEF SignalWindow
<1>1. now \in Nat /\ now' \in Nat /\ now <= now'
  BY StepTypeOK, TimeAdvances DEF IInv, TypeOK
<1>2. CASE Anchored(s, m)
  <2>1. signals'[s][m] = signals[s][m] /\ Registered(s)
    BY <1>2, SignalsAdvance DEF IInv, AnchoredAfterDeadline
  <2>2. signals[s][m].anchoredAt \in Nat
    BY DEF IInv, TypeOK, SignalType
  <2> QED
    BY <1>1, <1>2, <2>1, <2>2, TermsKeep DEF SignalWindow
<1>3. CASE ~Anchored(s, m)
  <2>1. signals' # signals
    BY <1>3 DEF Anchored
  <2>2. PICK r \in Sessions, k \in Markets, side \in SignalSides, until \in Times, n \in Nonces \cup {0} :
          Publish(r, k, side, until, n)
    BY <2>1, SignalsStep DEF IInv
  <2>3. signals' = [signals EXCEPT ![r] = [signals[r] EXCEPT ![k] =
          [side |-> side, validUntil |-> until, anchoredAt |-> now, nonce |-> n]]]
    BY <2>2 DEF Publish
  <2>4. r = s /\ k = m
    BY <1>3, <2>3 DEF Anchored, IInv, TypeOK
  <2>5. signals'[s][m].anchoredAt = now /\ signals'[s][m].validUntil = until
    BY <2>3, <2>4 DEF IInv, TypeOK
  <2>6. KnownMarket(s, m) /\ Registered(s) /\ until <= Expiry[m] /\ until <= sessions[s].sessionUntil
    BY <2>2, <2>4 DEF Publish
  <2> QED
    BY <1>1, <2>5, <2>6, TermsKeep
<1> QED
  BY <1>2, <1>3

\* The window an execution was checked against is the one on record afterwards.
LEMMA WithinConsentStep == ASSUME ConsentInv, [Next]_vars PROVE ExecutedWithinConsent'
<1> DEFINE Within(e, m, t) ==
      LET s == vaults[e].session
      IN  /\ Enrolled(e) /\ KnownMarket(s, m) /\ Anchored(s, m)
          /\ signals[s][m].side \in vaults[e].sides
          /\ enrolledAt[e] < t
          /\ signals[s][m].anchoredAt <= t /\ t < signals[s][m].validUntil
          /\ t <= vaults[e].validUntil /\ t < Expiry[m] /\ t < sessions[s].sessionUntil
          /\ vaults[e].collateral = Collateral[m]
<1> SUFFICES ASSUME NEW e \in Enrollments, NEW m \in Markets, NEW i \in DOMAIN executedAt'[e][m],
                    NEW t, t = executedAt'[e][m][i]
             PROVE  Within(e, m, t)'
  BY DEF ExecutedWithinConsent
<1>1. IInv /\ TypeOK
  BY DEF ConsentInv, IInv
<1>2. ASSUME Within(e, m, t) PROVE Within(e, m, t)'
  <2> PICK s : s = vaults[e].session
    OBVIOUS
  <2>1. s \in Sessions /\ Registered(s)
    BY <1>1, <1>2 DEF IInv, EnrolledInTime, VaultsRegistered
  <2>2. PICK r \in BOOLEAN : vaults'[e] = [vaults[e] EXCEPT !.revoked = r]
    BY <1>1, <1>2, FollowersAdvance
  <2>3. /\ vaults'[e].session = s /\ vaults'[e].sides = vaults[e].sides
        /\ vaults'[e].validUntil = vaults[e].validUntil /\ vaults'[e].collateral = vaults[e].collateral
    <3>1. vaults[e] \in VaultType
      BY <1>1 DEF TypeOK
    <3> QED
      BY <2>2, <3>1 DEF VaultType
  <2>4. enrolledAt'[e] = enrolledAt[e]
    BY <1>1, <1>2, FollowersAdvance
  <2>5. signals'[s][m] = signals[s][m]
    BY <1>1, <1>2, <2>1, SignalsAdvance
  <2>6. sessions'[s].sessionUntil = sessions[s].sessionUntil /\ KnownMarket(s, m)'
    BY <1>1, <1>2, <2>1, TermsKeep
  <2>7. Enrolled(e)'
    <3>1. CASE enrollments'[e] = enrollments[e]
      BY <1>2, <3>1 DEF Enrolled
    <3>2. EnrollmentMatchesVault'
      BY <1>1, AgreementStep DEF ConsentInv
    <3>3. vaults'[e].active = vaults[e].active
      <4>1. vaults[e] \in VaultType
        BY <1>1 DEF TypeOK
      <4> QED
        BY <2>2, <4>1 DEF VaultType
    <3> QED
      BY <1>2, <3>2, <3>3 DEF ConsentInv, EnrollmentMatchesVault
  <2>8. KnownMarket(vaults[e].session, m)' /\ Anchored(vaults[e].session, m)'
    BY <1>2, <2>3, <2>5, <2>6 DEF KnownMarket, Refs, Anchored
  <2> QED
    BY <1>2, <2>3, <2>4, <2>5, <2>6, <2>7, <2>8
<1>3. ASSUME i \in DOMAIN executedAt[e][m], executedAt'[e][m][i] = executedAt[e][m][i]
      PROVE  Within(e, m, t)'
  BY <1>2, <1>3 DEF ConsentInv, ExecutedWithinConsent
<1>4. CASE executedAt' = executedAt
  BY <1>3, <1>4
<1>5. ASSUME NEW d \in Enrollments, NEW k \in Markets, NEW filled \in BOOLEAN, Execute(d, k, filled)
      PROVE  Within(e, m, t)'
  <2> DEFINE s == vaults[e].session
  <2>1. /\ executedAt' = [executedAt EXCEPT ![d] = [executedAt[d] EXCEPT ![k] = Append(@, now)]]
        /\ UNCHANGED <<vaults, enrollments, enrolledAt, registryVars>>
    BY <1>5 DEF Execute
  <2>2. executedAt \in [Enrollments -> [Markets -> Seq(Nat)]] /\ now \in Nat
    BY <1>1 DEF TypeOK
  <2>3. CASE d = e /\ k = m
    <3>1. executedAt[e][m] \in Seq(Nat) /\ executedAt'[e][m] = Append(executedAt[e][m], now)
      BY <2>1, <2>2, <2>3
    <3>2. CASE i \in DOMAIN executedAt[e][m]
      BY <1>3, <3>1, <3>2
    <3>3. CASE i \notin DOMAIN executedAt[e][m]
      <4>1. t = now
        BY <3>1, <3>3
      <4>2. /\ KnownMarket(s, m) /\ Anchored(s, m) /\ signals[s][m].side \in vaults[e].sides
            /\ vaults[e].active /\ now <= vaults[e].validUntil /\ now < signals[s][m].validUntil
            /\ vaults[e].collateral = Collateral[m]
        BY <1>5, <2>3 DEF Execute, VaultAccepts
      <4>3. Enrolled(e)
        BY <4>2 DEF ConsentInv, EnrollmentMatchesVault
      <4>4. s \in Sessions /\ enrolledAt[e] < sessions[s].enrollUntil
        BY <1>1, <4>3 DEF IInv, EnrolledInTime, VaultsRegistered
      <4>5. /\ sessions[s].enrollUntil <= signals[s][m].anchoredAt /\ signals[s][m].anchoredAt <= now
            /\ signals[s][m].validUntil <= Expiry[m] /\ signals[s][m].validUntil <= sessions[s].sessionUntil
        BY <4>2, <4>4 DEF ConsentInv, IInv, AnchoredAfterDeadline, SignalWindow
      <4>6. /\ sessions[s].enrollUntil \in Nat /\ sessions[s].sessionUntil \in Nat
            /\ signals[s][m].anchoredAt \in Nat /\ signals[s][m].validUntil \in Nat
            /\ enrolledAt[e] \in Nat /\ Expiry[m] \in Nat /\ now \in Nat
        <5>1. sessions[s] \in SessionType /\ signals[s][m] \in SignalType
          BY <1>1, <4>4 DEF TypeOK
        <5>2. enrolledAt[e] \in Nat /\ Expiry[m] \in Nat /\ now \in Nat
          BY <1>1, MarketAssumption DEF TypeOK
        <5> QED
          BY <5>1, <5>2 DEF SessionType, SignalType
      <4> HIDE DEF s
      <4>7. enrolledAt[e] < now /\ now < Expiry[m] /\ now < sessions[s].sessionUntil
        <5>1. enrolledAt[e] < now
          BY <4>4, <4>5, <4>6
        <5>2. now < Expiry[m]
          BY <4>2, <4>5, <4>6
        <5>3. now < sessions[s].sessionUntil
          BY <4>2, <4>5, <4>6
        <5> QED
          BY <5>1, <5>2, <5>3
      <4>8. Within(e, m, t)
        BY <4>1, <4>2, <4>3, <4>5, <4>7 DEF s
      <4> QED
        BY <1>2, <4>8
    <3> QED
      BY <3>2, <3>3
  <2>4. CASE ~(d = e /\ k = m)
    <3>1. executedAt'[e][m] = executedAt[e][m]
      BY <2>1, <2>2, <2>4
    <3> QED
      BY <1>3, <3>1
  <2> QED
    BY <2>3, <2>4
<1> HIDE DEF Within
<1>6. CASE EnrollmentCall
  BY <1>4, <1>6, EnrollmentCalls
<1>7. CASE PositionCall
  <2>1. ASSUME NEW d \in Enrollments, NEW k \in Markets, Recover(d, k) PROVE executedAt' = executedAt
    BY <2>1 DEF Recover
  <2> QED
    BY <1>4, <1>5, <1>7, <2>1 DEF PositionCall
<1> QED
  BY <1>4, <1>6, <1>7, FollowersStep

\* Every execution lies after the anchoring of its signal and the follower's consent, and
\* inside what signal, policy, market and session allow.
THEOREM SessionWithinConsent == Spec => []ExecutedWithinConsent
<1>1. Init => ConsentInv
  <2> SUFFICES ASSUME Init PROVE EnrollmentMatchesVault /\ SignalWindow /\ ExecutedWithinConsent
    BY InitIInv DEF ConsentInv
  <2>1. EnrollmentMatchesVault
    BY DEF Init, EnrollmentMatchesVault, Enrolled, NoEnrollment, NoVault
  <2>2. SignalWindow
    BY DEF Init, SignalWindow, Anchored, NoSignal
  <2>3. ExecutedWithinConsent
    <3>1. \A e \in Enrollments, m \in Markets : DOMAIN executedAt[e][m] = {}
      BY DEF Init
    <3> QED
      BY <3>1 DEF ExecutedWithinConsent
  <2> QED
    BY <2>1, <2>2, <2>3
<1>2. ConsentInv /\ [Next]_vars => ConsentInv'
  BY StepIInv, AgreementStep, SignalWindowStep, WithinConsentStep DEF ConsentInv
<1>3. ConsentInv => ExecutedWithinConsent
  BY DEF ConsentInv
<1> QED
  BY <1>1, <1>2, <1>3, PTL DEF Spec
==============================================================================
