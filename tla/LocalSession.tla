---------------------------- MODULE LocalSession ----------------------------
(***************************************************************************)
(* The local session model (src/session.js): an immutable state and pure   *)
(* functions that return the next one or throw.  Every call brings its own *)
(* clock reading, so readings need not agree with the order of the calls.  *)
(***************************************************************************)
EXTENDS Naturals, Sequences, FiniteSets

CONSTANTS
  Markets,
  Enrollments,     \* enrollment ids
  Followers,
  NoFollower,
  MaxTime          \* bound: latest clock reading and deadline

ASSUME LocalAssumption == NoFollower \notin Followers /\ MaxTime \in Nat

Times == 0..MaxTime
Sides == {"YES", "NO", "ABSTAIN"}

VARIABLES
  manifest,        \* markets and deadlines, fixed by createSession
  withdrawn,
  enrollments,     \* per id, the record or NotEnrolled
  signals,         \* per market, the record or Silent
  events

localVars == <<manifest, withdrawn, enrollments, signals, events>>

\* The validUntil of a record is checked on entry and never read again.
NotEnrolled == [follower |-> NoFollower, at |-> 0, revoked |-> FALSE]
Silent == [side |-> "NONE", at |-> 0]
None == [markets |-> {}, enrollUntil |-> 0, cutoff |-> 0, sessionUntil |-> 0]

ManifestType == [markets : SUBSET Markets, enrollUntil : Nat, cutoff : Nat, sessionUntil : Nat]
EnrollmentType == [follower : Followers \cup {NoFollower}, at : Nat, revoked : BOOLEAN]
SignalType == [side : Sides \cup {"NONE"}, at : Nat]
Event(type, subject) == [type |-> type, subject |-> subject]
EventType ==
  [type : {"ENROLLED", "ENROLLMENT_REVOKED"}, subject : Enrollments]
    \cup [type : {"SIGNAL_ANCHORED"}, subject : Markets]
    \cup [type : {"SESSION_WITHDRAWN"}, subject : {"session"}]

Enrolled == {e \in Enrollments : enrollments[e] # NotEnrolled}
Signalled == {m \in Markets : signals[m] # Silent}

LocalInit ==
  /\ manifest = None
  /\ withdrawn = FALSE
  /\ enrollments = [e \in Enrollments |-> NotEnrolled]
  /\ signals = [m \in Markets |-> Silent]
  /\ events = <<>>

ManifestValid(m, now) ==
  /\ m.markets # {} /\ Cardinality(m.markets) <= 3
  /\ now < m.enrollUntil /\ m.enrollUntil <= m.cutoff /\ m.cutoff < m.sessionUntil

CreateSession(m, now) ==
  /\ manifest = None
  /\ ManifestValid(m, now)
  /\ manifest' = m
  /\ UNCHANGED <<withdrawn, enrollments, signals, events>>

\* Faulty variant of EnrollmentOpen: only the clock closes enrollment.
EnrollmentOpenByClock(now) == ~withdrawn /\ now < manifest.enrollUntil

EnrollmentOpen(now) == ~withdrawn /\ Signalled = {} /\ now < manifest.enrollUntil

EnrollFollower(e, f, validUntil, now) ==
  /\ EnrollmentOpen(now)
  /\ e \notin Enrolled
  /\ now < validUntil /\ validUntil <= manifest.sessionUntil
  /\ enrollments' = [enrollments EXCEPT ![e] = [follower |-> f, at |-> now, revoked |-> FALSE]]
  /\ events' = Append(events, Event("ENROLLED", e))
  /\ UNCHANGED <<manifest, withdrawn, signals>>

PublishOpen(m, now) ==
  ~withdrawn /\ m \in manifest.markets \ Signalled /\ manifest.enrollUntil <= now /\ now <= manifest.cutoff

\* The creator's call; validUntil may equal now.
PublishSignal(m, side, validUntil, now) ==
  /\ PublishOpen(m, now)
  /\ now <= validUntil /\ validUntil <= manifest.sessionUntil
  /\ signals' = [signals EXCEPT ![m] = [side |-> side, at |-> now]]
  /\ events' = Append(events, Event("SIGNAL_ANCHORED", m))
  /\ UNCHANGED <<manifest, withdrawn, enrollments>>

RevokeEnrollment(e, f) ==
  /\ e \in Enrolled
  /\ enrollments[e].follower = f /\ ~enrollments[e].revoked
  /\ enrollments' = [enrollments EXCEPT ![e].revoked = TRUE]
  /\ events' = Append(events, Event("ENROLLMENT_REVOKED", e))
  /\ UNCHANGED <<manifest, withdrawn, signals>>

WithdrawSession ==
  /\ manifest # None /\ ~withdrawn
  /\ withdrawn' = TRUE
  /\ events' = Append(events, Event("SESSION_WITHDRAWN", "session"))
  /\ UNCHANGED <<manifest, enrollments, signals>>

\* Faulty variant of ClassifyWindow: what was observed before the cutoff is taken for all there is.
ClassifyWindowUnobserved(now, observedThrough, signal) ==
  CASE signal = "ABSTAIN" -> "ABSTAIN"
    [] signal \in {"YES", "NO"} -> "SIGNAL_PUBLISHED"
    [] OTHER -> IF now > manifest.cutoff THEN "NO_SIGNAL" ELSE "AWAITING_SIGNAL"

\* What a window is called by someone who has observed the chain through observedThrough.
ClassifyWindow(now, observedThrough, signal) ==
  CASE observedThrough < manifest.cutoff /\ now > manifest.cutoff -> "DATA_UNAVAILABLE"
    [] signal = "ABSTAIN" -> "ABSTAIN"
    [] signal \in {"YES", "NO"} -> "SIGNAL_PUBLISHED"
    [] OTHER -> IF now > manifest.cutoff THEN "NO_SIGNAL" ELSE "AWAITING_SIGNAL"

LocalNext ==
  \/ \E ms \in SUBSET Markets, u, c, s, now \in Times :
       CreateSession([markets |-> ms, enrollUntil |-> u, cutoff |-> c, sessionUntil |-> s], now)
  \/ \E e \in Enrollments, f \in Followers, v, now \in Times : EnrollFollower(e, f, v, now)
  \/ \E m \in Markets, side \in Sides, v, now \in Times : PublishSignal(m, side, v, now)
  \/ \E e \in Enrollments, f \in Followers : RevokeEnrollment(e, f)
  \/ WithdrawSession

LocalSpec == LocalInit /\ [][LocalNext]_localVars

-----------------------------------------------------------------------------
(* Properties                                                              *)

LocalTypeOK ==
  /\ manifest \in ManifestType /\ Signalled \subseteq manifest.markets
  /\ withdrawn \in BOOLEAN
  /\ enrollments \in [Enrollments -> EnrollmentType]
  /\ signals \in [Markets -> SignalType]
  /\ events \in Seq(EventType)

\* Consent comes first, by the order of the calls and by the clocks they brought.
ConsentPrecedesSignal ==
  /\ \A i, j \in DOMAIN events :
       events[i].type = "SIGNAL_ANCHORED" /\ events[j].type = "ENROLLED" => j < i
  /\ \A e \in Enrolled, m \in Signalled : enrollments[e].at < signals[m].at

\* Each enrollment, signal, revocation and withdrawal is in the log once.
EventsExplainState ==
  LET Entries(type) == {i \in DOMAIN events : events[i].type = type}
      Once(type, S) == /\ {events[i].subject : i \in Entries(type)} = S
                       /\ Cardinality(Entries(type)) = Cardinality(S)
  IN /\ Once("ENROLLED", Enrolled)
     /\ Once("SIGNAL_ANCHORED", Signalled)
     /\ Once("ENROLLMENT_REVOKED", {e \in Enrolled : enrollments[e].revoked})
     /\ Once("SESSION_WITHDRAWN", IF withdrawn THEN {"session"} ELSE {})

\* After a withdrawal followers can still revoke, and that is all that can happen.
WithdrawalStopsAll ==
  \A i, j \in DOMAIN events :
    events[i].type = "SESSION_WITHDRAWN" /\ i < j => events[j].type = "ENROLLMENT_REVOKED"

\* The log and the state tell one story, however the clock readings jump from call to call:
\* everything entered once, every consent before every signal, and nothing but revocations
\* after a withdrawal.
LogExplainsSession == LocalTypeOK /\ ConsentPrecedesSignal /\ EventsExplainState /\ WithdrawalStopsAll

\* A market is called NO_SIGNAL only when there is none, whatever part of the chain the
\* observer has seen (test/session.test.js: missing chain observation is not silently
\* classified as no signal), and a published signal is never shown as the other kind.
NoSignalIsTrue ==
  manifest # None =>
    \A m \in manifest.markets, now, observedThrough \in Times :
      LET seen == IF signals[m].at <= observedThrough THEN signals[m].side ELSE "NONE"
          class == ClassifyWindow(now, observedThrough, seen) IN
      /\ class = "NO_SIGNAL" => m \notin Signalled
      /\ class = "ABSTAIN" => signals[m].side = "ABSTAIN"
      /\ class = "AWAITING_SIGNAL" => now <= manifest.cutoff
=============================================================================
