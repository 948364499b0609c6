---------------------------- MODULE ClientProofs ----------------------------
(***************************************************************************)
(* What the programs outside the services keep, for any number of markets, *)
(* enrollments, signals, tabs and transactions: the receipt, the local     *)
(* session, the owner's console, and the operator's evidence file.         *)
(***************************************************************************)
EXTENDS Receipt, LocalSession, OwnerConsole, LifecycleScript,
        FiniteSetTheorems, SequenceTheorems, TLAPS

-----------------------------------------------------------------------------
(* The receipt                                                             *)

\* Where a receipt stands tells where it has been, and no signal was taken while it waits.
ReceiptInv ==
  /\ OutcomesAreDistinct
  /\ visited \subseteq States
  /\ taken \in Seq([side : SignalSides \cup {"other"}, outcome : {"rejected", "recorded"}])
  /\ receipt.state = "DATA_UNAVAILABLE" => visited = {"DATA_UNAVAILABLE"} /\ taken = <<>>
  /\ "ZERO_FILL" \in visited => receipt.state \in {"ZERO_FILL", "VOIDED"}
  /\ "PARTIAL_FILL" \in visited =>
       "PUBLISHED" \in visited /\ receipt.state \in {"PARTIAL_FILL", "SETTLED", "VOIDED"}
  /\ "SETTLED" \in visited => receipt.state = "SETTLED"
  /\ "VOIDED" \in visited => receipt.state = "VOIDED"

\* The states a receipt may be given from where it stands, by recordSignal and by a transition.
LEMMA ReceiptMoves ==
  ASSUME ReceiptInv, NEW next \in ReceiptType, Give(next), next.state \in Transitions(receipt.state),
         next.state = "PARTIAL_FILL" => next.filled > 0,
         \/ taken' = taken
         \/ \E side \in SignalSides \cup {"other"} :
              \E outcome \in {"rejected", "recorded"} :
                /\ receipt.state = "DATA_UNAVAILABLE"
                /\ taken' = Append(taken, [side |-> side, outcome |-> outcome])
                /\ next.state = AnswerState(side, outcome)
  PROVE  ReceiptInv'
<1>1. receipt.state \in States /\ next.state \in States
  BY DEF ReceiptInv, OutcomesAreDistinct, ReceiptType
<1>2. /\ receipt' = next /\ visited' = visited \cup {next.state}
  BY DEF Give
<1>3. /\ receipt.state \notin {"SETTLED", "VOIDED"}
      /\ next.state \in {"PUBLISHED", "ABSTAIN", "REJECTED", "NO_SIGNAL"} <=> receipt.state = "DATA_UNAVAILABLE"
      /\ next.state = "SETTLED" => receipt.state = "PARTIAL_FILL"
      /\ next.state = "PARTIAL_FILL" => receipt.state = "PUBLISHED"
      /\ next.state = "ZERO_FILL" => receipt.state \in {"PUBLISHED", "ABSTAIN"}
      /\ receipt.state = "ZERO_FILL" => next.state = "VOIDED"
      /\ receipt.state = "PARTIAL_FILL" => next.state \in {"SETTLED", "VOIDED"}
      /\ next.state # "DATA_UNAVAILABLE"
  BY <1>1 DEF Transitions, States
<1>4. /\ receipt.state \in visited
      /\ visited \cap {"ABSTAIN", "REJECTED", "NO_SIGNAL"} # {} => visited \cap {"PUBLISHED", "PARTIAL_FILL", "SETTLED"} = {}
      /\ "ZERO_FILL" \in visited => "PARTIAL_FILL" \notin visited
      /\ "SETTLED" \notin visited /\ "VOIDED" \notin visited
      /\ receipt.state = "DATA_UNAVAILABLE" => visited = {"DATA_UNAVAILABLE"} /\ taken = <<>>
      /\ "ZERO_FILL" \in visited => receipt.state \in {"ZERO_FILL", "VOIDED"}
      /\ "PARTIAL_FILL" \in visited =>
           "PUBLISHED" \in visited /\ receipt.state \in {"PARTIAL_FILL", "SETTLED", "VOIDED"}
  BY <1>3 DEF ReceiptInv, OutcomesAreDistinct
<1>5. /\ "ZERO_FILL" \in visited' => receipt'.state \in {"ZERO_FILL", "VOIDED"}
      /\ "PARTIAL_FILL" \in visited' =>
           "PUBLISHED" \in visited' /\ receipt'.state \in {"PARTIAL_FILL", "SETTLED", "VOIDED"}
      /\ "SETTLED" \in visited' => receipt'.state = "SETTLED"
      /\ "VOIDED" \in visited' => receipt'.state = "VOIDED"
      /\ receipt'.state # "DATA_UNAVAILABLE" /\ receipt'.state \in visited' /\ visited' \subseteq States
  BY <1>1, <1>2, <1>3, <1>4 DEF ReceiptInv
<1>6. visited' \cap {"ABSTAIN", "REJECTED", "NO_SIGNAL"} # {} => visited' \cap {"PUBLISHED", "PARTIAL_FILL", "SETTLED"} = {}
  <2>1. CASE receipt.state = "DATA_UNAVAILABLE"
    BY <1>2, <1>4, <2>1
  <2>2. CASE next.state = "SETTLED" \/ next.state = "PARTIAL_FILL"
    BY <1>2, <1>3, <1>4, <2>2
  <2>3. CASE next.state \in {"ZERO_FILL", "VOIDED"}
    BY <1>2, <1>4, <2>3
  <2> QED
    BY <1>1, <1>3, <2>1, <2>2, <2>3 DEF States
<1>7. /\ "ZERO_FILL" \in visited' => "PARTIAL_FILL" \notin visited'
      /\ "SETTLED" \in visited' => {"PUBLISHED", "PARTIAL_FILL"} \subseteq visited' /\ "VOIDED" \notin visited'
  <2>1. next.state = "ZERO_FILL" => "PARTIAL_FILL" \notin visited
    BY <1>3, <1>4
  <2>2. next.state # "PARTIAL_FILL" \/ "ZERO_FILL" \notin visited
    BY <1>3, <1>4
  <2>3. next.state = "SETTLED" => {"PUBLISHED", "PARTIAL_FILL"} \subseteq visited
    BY <1>3, <1>4
  <2>4. "ZERO_FILL" \in visited' => "PARTIAL_FILL" \notin visited'
    BY <1>2, <1>4, <2>1, <2>2
  <2>5. "SETTLED" \in visited' => next.state = "SETTLED"
    BY <1>2, <1>4
  <2>6. next.state = "SETTLED" => "VOIDED" \notin visited' /\ {"PUBLISHED", "PARTIAL_FILL"} \subseteq visited'
    BY <1>2, <1>4, <2>3
  <2> QED
    BY <2>4, <2>5, <2>6
<1>8. /\ taken' \in Seq([side : SignalSides \cup {"other"}, outcome : {"rejected", "recorded"}])
      /\ Len(taken') <= 1
      /\ \A i \in 1..Len(taken') : AnswerState(taken'[i].side, taken'[i].outcome) \in visited'
  <2>1. CASE taken' = taken
    BY <1>2, <2>1 DEF ReceiptInv, OutcomesAreDistinct
  <2>2. ASSUME NEW side \in SignalSides \cup {"other"}, NEW outcome \in {"rejected", "recorded"},
               receipt.state = "DATA_UNAVAILABLE",
               taken' = Append(taken, [side |-> side, outcome |-> outcome]),
               next.state = AnswerState(side, outcome)
        PROVE  /\ taken' \in Seq([side : SignalSides \cup {"other"}, outcome : {"rejected", "recorded"}])
               /\ Len(taken') <= 1
               /\ \A i \in 1..Len(taken') : AnswerState(taken'[i].side, taken'[i].outcome) \in visited'
    <3>1. taken' = <<[side |-> side, outcome |-> outcome]>>
      BY <1>4, <2>2
    <3>2. Len(taken') = 1 /\ taken'[1].side = side /\ taken'[1].outcome = outcome
      BY <3>1
    <3>3. AnswerState(side, outcome) \in visited'
      BY <1>2, <2>2
    <3>4. taken' \in Seq([side : SignalSides \cup {"other"}, outcome : {"rejected", "recorded"}])
      BY <2>2 DEF ReceiptInv
    <3> QED
      BY <3>2, <3>3, <3>4
  <2> QED
    BY <2>1, <2>2
<1> QED
  BY <1>2, <1>5, <1>6, <1>7, <1>8 DEF ReceiptInv, OutcomesAreDistinct

\* A call of the receipt keeps its outcomes apart.
LEMMA ReceiptStep == ReceiptInv /\ [ReceiptNext]_receiptVars => ReceiptInv'
<1> SUFFICES ASSUME ReceiptInv, [ReceiptNext]_receiptVars PROVE ReceiptInv'
  OBVIOUS
<1> USE ReceiptAssumption
<1>1. receipt \in ReceiptType
  BY DEF ReceiptInv, OutcomesAreDistinct
<1>2. ASSUME NEW s \in Signals, RejectSignal(s) PROVE ReceiptInv'
  <2> DEFINE next == [receipt EXCEPT !.state = "REJECTED", !.code = ValidateSignal(s)]
  <2>1. ValidateSignal(s) \in Codes
    BY DEF ValidateSignal, Codes
  <2>2. next \in ReceiptType /\ next.state = "REJECTED"
    BY <1>1, <2>1 DEF ReceiptType, States
  <2>3. receipt.state = "DATA_UNAVAILABLE" /\ Give(next)
        /\ taken' = Append(taken, [side |-> s.side, outcome |-> "rejected"])
    BY <1>2 DEF RejectSignal, Recordable, Take
  <2>4. s.side \in SignalSides \cup {"other"} /\ next.state \in Transitions(receipt.state)
    BY <2>2, <2>3 DEF Signals, Transitions
  <2> HIDE DEF next
  <2> QED
    BY <2>2, <2>3, <2>4, ReceiptMoves DEF AnswerState
<1>3. ASSUME NEW s \in Signals, RecordSignal(s) PROVE ReceiptInv'
  <2> DEFINE state == IF s.side = "ABSTAIN" THEN "ABSTAIN" ELSE "PUBLISHED"
             next == [receipt EXCEPT !.state = state, !.signal = [id |-> s.id, side |-> s.side]]
  <2>1. s.id \in SignalIds /\ s.side \in SignalSides
    BY <1>3 DEF RecordSignal, ValidateSignal
  <2>2. next \in ReceiptType /\ next.state = state
    BY <1>1, <2>1 DEF ReceiptType, States
  <2>3. receipt.state = "DATA_UNAVAILABLE" /\ Give(next)
        /\ taken' = Append(taken, [side |-> s.side, outcome |-> "recorded"])
    BY <1>3 DEF RecordSignal, Recordable, Take
  <2>4. next.state \in Transitions(receipt.state) /\ next.state # "PARTIAL_FILL"
    BY <2>2, <2>3 DEF Transitions
  <2>5. next.state = AnswerState(s.side, "recorded")
    BY <2>2 DEF AnswerState
  <2> HIDE DEF next, state
  <2> QED
    BY <2>1, <2>2, <2>3, <2>4, <2>5, ReceiptMoves
<1>4. ASSUME NEW state \in States, NEW changed \in Details, TransitionReceipt(state, changed) PROVE ReceiptInv'
  <2> DEFINE next == [state |-> state, signal |-> changed.signal, filled |-> changed.filled, code |-> changed.code]
  <2>1. next \in ReceiptType /\ next.state = state /\ next.filled = changed.filled
    BY DEF ReceiptType, Details
  <2>2. /\ Give(next) /\ taken' = taken /\ state \in Transitions(receipt.state)
        /\ state = "PARTIAL_FILL" => changed.filled > 0
    BY <1>4 DEF TransitionReceipt
  <2> HIDE DEF next
  <2> QED
    BY <2>1, <2>2, ReceiptMoves
<1>5. CASE UNCHANGED receiptVars
  BY <1>5 DEF ReceiptInv, OutcomesAreDistinct, receiptVars
<1> QED
  BY <1>2, <1>3, <1>4, <1>5 DEF ReceiptNext

\* An abstention, a rejection or a missing signal never becomes a fill or a settlement, and
\* one signal is answered at most, for every set of signals and whatever callers change.
THEOREM ReceiptOutcomes == ReceiptSpec => []OutcomesAreDistinct
<1>1. ReceiptInit => ReceiptInv
  BY ReceiptAssumption
  DEF ReceiptInit, ReceiptInv, OutcomesAreDistinct, ReceiptType, States, NoSignal, Codes
<1>2. ReceiptInv => OutcomesAreDistinct
  BY DEF ReceiptInv
<1> QED
  BY <1>1, <1>2, ReceiptStep, PTL DEF ReceiptSpec

-----------------------------------------------------------------------------
(* The local session                                                       *)

EntriesIn(log, type) == {i \in DOMAIN log : log[i].type = type}

\* The entries of one type name the members of S, each of them once.
OnceIn(log, type, S) ==
  /\ {log[i].subject : i \in EntriesIn(log, type)} = S
  /\ Cardinality(EntriesIn(log, type)) = Cardinality(S)

\* One more entry keeps a list that names every member once, when what it names is new.
LEMMA OnceAppended ==
  ASSUME NEW R, NEW log \in Seq(R), NEW entry \in R, NEW type, NEW S, NEW T,
         OnceIn(log, type, S),
         entry.type = type => T = S \cup {entry.subject} /\ entry.subject \notin S,
         entry.type # type => T = S
  PROVE  OnceIn(Append(log, entry), type, T)
<1> DEFINE next == Append(log, entry)
           old == EntriesIn(log, type)
           new == EntriesIn(next, type)
           n == Len(log) + 1
<1>1. /\ Len(log) \in Nat /\ DOMAIN log = 1..Len(log)
      /\ DOMAIN next = 1..n
      /\ \A i \in 1..Len(log) : next[i] = log[i]
      /\ next[n] = entry
  BY AppendProperties, LenProperties
<1> HIDE DEF next
<1>2. n \notin old /\ n \in Nat /\ \A i \in old : i \in DOMAIN log /\ next[i] = log[i] /\ log[i].type = type
  BY <1>1 DEF EntriesIn
<1>3. new = IF entry.type = type THEN old \cup {n} ELSE old
  <2>1. \A i : i \in DOMAIN next <=> i \in DOMAIN log \/ i = n
    BY <1>1
  <2> QED
    BY <1>1, <2>1 DEF EntriesIn
<1>4. IsFiniteSet(old)
  <2>1. IsFiniteSet(1..Len(log)) /\ old \subseteq 1..Len(log)
    BY <1>1, FS_Interval DEF EntriesIn
  <2> QED
    BY <2>1, FS_Subset
<1>5. IsFiniteSet({log[i].subject : i \in old})
  <2> DEFINE named == [i \in old |-> log[i].subject]
  <2>1. named \in Surjection(old, {log[i].subject : i \in old})
    BY DEF Surjection
  <2> HIDE DEF named
  <2> QED
    BY <1>4, <2>1, FS_Surjection
<1>6. S = {log[i].subject : i \in old} /\ Cardinality(old) = Cardinality(S)
  BY DEF OnceIn
<1> HIDE DEF old, new, n
<1>7. IsFiniteSet(S)
  BY <1>5, <1>6
<1>8. CASE entry.type = type
  <2>1. new = old \cup {n} /\ T = S \cup {entry.subject} /\ entry.subject \notin S
    BY <1>3, <1>8
  <2>2. Cardinality(new) = Cardinality(old) + 1
    BY <1>2, <1>4, <2>1, FS_AddElement
  <2>3. Cardinality(T) = Cardinality(S) + 1
    BY <1>7, <2>1, FS_AddElement
  <2>4. {next[i].subject : i \in new} = T
    BY <1>1, <1>2, <1>6, <2>1 DEF n
  <2> QED
    BY <1>6, <2>2, <2>3, <2>4 DEF OnceIn, next, new
<1>9. CASE entry.type # type
  <2>1. new = old /\ T = S
    BY <1>3, <1>9
  <2>2. {next[i].subject : i \in new} = T
    BY <1>2, <1>6, <2>1
  <2> QED
    BY <1>6, <2>1, <2>2 DEF OnceIn, next, new
<1> QED
  BY <1>8, <1>9

\* What was entered into the log says what the records hold.
LogOnce ==
  /\ OnceIn(events, "ENROLLED", Enrolled)
  /\ OnceIn(events, "SIGNAL_ANCHORED", Signalled)
  /\ OnceIn(events, "ENROLLMENT_REVOKED", {e \in Enrolled : enrollments[e].revoked})
  /\ OnceIn(events, "SESSION_WITHDRAWN", IF withdrawn THEN {"session"} ELSE {})

\* The clock readings that were kept: every enrollment before enrollUntil, every signal
\* between it and the cutoff, so the readings agree with the order of the calls.
ReadingsInWindow ==
  /\ \A e \in Enrolled : enrollments[e].at < manifest.enrollUntil
  /\ \A m \in Signalled : /\ manifest.enrollUntil <= signals[m].at /\ signals[m].at <= manifest.cutoff
                          /\ signals[m].side \in Sides

LocalInv == LocalTypeOK /\ ConsentPrecedesSignal /\ LogOnce /\ WithdrawalStopsAll /\ ReadingsInWindow

\* Entries of a type are there exactly when something was entered.
LEMMA EntriesOfNone ==
  ASSUME NEW log, NEW type, OnceIn(log, type, {})
  PROVE  \A i \in DOMAIN log : log[i].type # type
BY DEF OnceIn, EntriesIn

\* A new session keeps its records and its log in step.
LEMMA LocalInitInv == LocalInit => LocalInv
<1> SUFFICES ASSUME LocalInit PROVE LocalInv
  OBVIOUS
<1>1. /\ manifest = None /\ withdrawn = FALSE /\ events = <<>>
      /\ enrollments = [e \in Enrollments |-> NotEnrolled] /\ signals = [m \in Markets |-> Silent]
  BY DEF LocalInit
<1>2. Enrolled = {} /\ Signalled = {}
  BY <1>1 DEF Enrolled, Signalled
<1>3. LocalTypeOK
  <2>1. NotEnrolled \in EnrollmentType /\ Silent \in SignalType /\ None \in ManifestType
    BY DEF NotEnrolled, EnrollmentType, Silent, SignalType, None, ManifestType
  <2>2. events \in Seq(EventType)
    BY <1>1
  <2> QED
    BY <1>1, <1>2, <2>1, <2>2 DEF LocalTypeOK
<1>4. DOMAIN events = {}
  BY <1>1
<1>5. \A type : OnceIn(events, type, {})
  <2> SUFFICES ASSUME NEW type PROVE OnceIn(events, type, {})
    OBVIOUS
  <2>1. EntriesIn(events, type) = {}
    BY <1>4 DEF EntriesIn
  <2> QED
    BY <2>1 DEF OnceIn
<1>6. {e \in Enrolled : enrollments[e].revoked} = {} /\ (IF withdrawn THEN {"session"} ELSE {}) = {}
  BY <1>1, <1>2
<1>7. LogOnce
  BY <1>2, <1>5, <1>6 DEF LogOnce
<1> QED
  BY <1>2, <1>3, <1>4, <1>7 DEF LocalInv, ConsentPrecedesSignal, WithdrawalStopsAll, ReadingsInWindow

\* Before createSession there is nothing the new manifest could contradict.
LEMMA LocalCreate ==
  ASSUME LocalInv, NEW m \in ManifestType, NEW now, CreateSession(m, now)
  PROVE  LocalInv'
<1>1. /\ manifest = None /\ manifest' = m /\ UNCHANGED <<withdrawn, enrollments, signals, events>>
      /\ LocalTypeOK
  BY DEF CreateSession, LocalInv
<1>2. Signalled = {}
  BY <1>1 DEF LocalTypeOK, None
<1>3. Enrolled = {}
  <2>1. ASSUME NEW e \in Enrolled PROVE FALSE
    <3>1. enrollments[e].at \in Nat
      BY <1>1 DEF LocalTypeOK, Enrolled, EnrollmentType
    <3>2. enrollments[e].at < 0
      BY <1>1 DEF LocalInv, ReadingsInWindow, None
    <3> QED
      BY <3>1, <3>2
  <2> QED
    BY <2>1
<1>4. Enrolled' = {} /\ Signalled' = {}
  BY <1>1, <1>2, <1>3 DEF Enrolled, Signalled
<1>5. LocalTypeOK'
  BY <1>1, <1>4 DEF LocalTypeOK
<1>6. LogOnce'
  <2>1. LogOnce
    BY DEF LocalInv
  <2> QED
    BY <1>1, <1>2, <1>3, <1>4, <2>1 DEF LogOnce, Enrolled, Signalled
<1>7. ConsentPrecedesSignal' /\ WithdrawalStopsAll'
  BY <1>1, <1>4 DEF LocalInv, ConsentPrecedesSignal, WithdrawalStopsAll
<1> QED
  BY <1>4, <1>5, <1>6, <1>7 DEF LocalInv, ReadingsInWindow

\* The shape of the log after one more entry.
LEMMA LocalAppended ==
  ASSUME LocalTypeOK, NEW entry \in EventType, events' = Append(events, entry)
  PROVE  /\ events' \in Seq(EventType) /\ Len(events) \in Nat
         /\ DOMAIN events = 1..Len(events) /\ DOMAIN events' = 1..(Len(events) + 1)
         /\ \A i \in 1..Len(events) : events'[i] = events[i]
         /\ events'[Len(events) + 1] = entry
BY AppendProperties, LenProperties DEF LocalTypeOK

\* An entry that is neither a consent after a signal nor a call after a withdrawal keeps the
\* order of the log.
LEMMA LocalOrder ==
  ASSUME LocalInv, NEW entry \in EventType, events' = Append(events, entry),
         entry.type = "ENROLLED" => \A i \in DOMAIN events : events[i].type # "SIGNAL_ANCHORED",
         entry.type # "ENROLLMENT_REVOKED" => ~withdrawn
  PROVE  /\ \A i, j \in DOMAIN events' :
              events'[i].type = "SIGNAL_ANCHORED" /\ events'[j].type = "ENROLLED" => j < i
         /\ WithdrawalStopsAll'
<1>1. LocalTypeOK /\ ConsentPrecedesSignal /\ WithdrawalStopsAll /\ LogOnce
  BY DEF LocalInv
<1> DEFINE n == Len(events)
<1>2. /\ n \in Nat /\ DOMAIN events = 1..n /\ DOMAIN events' = 1..(n + 1)
      /\ \A i \in 1..n : events'[i] = events[i]
      /\ events'[n + 1] = entry
  BY <1>1, LocalAppended
<1> HIDE DEF n
<1>3. entry.type # "ENROLLMENT_REVOKED" => \A i \in DOMAIN events : events[i].type # "SESSION_WITHDRAWN"
  <2> SUFFICES ASSUME entry.type # "ENROLLMENT_REVOKED" PROVE \A i \in DOMAIN events : events[i].type # "SESSION_WITHDRAWN"
    OBVIOUS
  <2>1. OnceIn(events, "SESSION_WITHDRAWN", {})
    BY <1>1 DEF LogOnce
  <2> QED
    BY <2>1, EntriesOfNone
<1>4. ASSUME NEW i \in 1..(n + 1), NEW j \in 1..(n + 1),
             events'[i].type = "SIGNAL_ANCHORED", events'[j].type = "ENROLLED"
      PROVE  j < i
  <2>1. CASE i \in 1..n /\ j \in 1..n
    BY <1>1, <1>2, <1>4, <2>1 DEF ConsentPrecedesSignal
  <2>2. CASE i = n + 1
    <3>1. j # n + 1
      BY <1>2, <1>4, <2>2
    <3> QED
      BY <1>2, <2>2, <3>1
  <2>3. CASE j = n + 1 /\ i \in 1..n
    BY <1>2, <1>4, <2>3
  <2> QED
    BY <1>2, <2>1, <2>2, <2>3
<1>5. ASSUME NEW i \in 1..(n + 1), NEW j \in 1..(n + 1), events'[i].type = "SESSION_WITHDRAWN", i < j
      PROVE  events'[j].type = "ENROLLMENT_REVOKED"
  <2>1. i \in 1..n
    BY <1>2, <1>5
  <2>2. CASE j \in 1..n
    BY <1>1, <1>2, <1>5, <2>1, <2>2 DEF WithdrawalStopsAll
  <2>3. CASE j = n + 1
    BY <1>2, <1>3, <1>5, <2>1, <2>3
  <2> QED
    BY <1>2, <2>2, <2>3
<1> QED
  BY <1>2, <1>4, <1>5 DEF WithdrawalStopsAll

\* An enrollment comes before every signal, by its place in the log and by its clock.
LEMMA LocalEnroll ==
  ASSUME LocalInv, NEW e \in Enrollments, NEW f \in Followers, NEW v \in Times, NEW now \in Times,
         EnrollFollower(e, f, v, now)
  PROVE  LocalInv'
<1> DEFINE entry == Event("ENROLLED", e)
           row == [follower |-> f, at |-> now, revoked |-> FALSE]
<1>1. /\ ~withdrawn /\ Signalled = {} /\ now < manifest.enrollUntil /\ e \notin Enrolled
      /\ enrollments' = [enrollments EXCEPT ![e] = row] /\ events' = Append(events, entry)
      /\ UNCHANGED <<manifest, withdrawn, signals>>
      /\ LocalTypeOK /\ LogOnce /\ ReadingsInWindow
  BY DEF EnrollFollower, EnrollmentOpen, LocalInv
<1>2. entry \in EventType /\ entry.type = "ENROLLED" /\ entry.subject = e
  BY DEF Event, EventType
<1>3. row \in EnrollmentType /\ row # NotEnrolled
  <2>1. now \in Nat
    BY LocalAssumption DEF Times
  <2>2. row.follower # NotEnrolled.follower
    BY LocalAssumption DEF NotEnrolled
  <2> QED
    BY <2>1, <2>2 DEF EnrollmentType
<1>4. enrollments \in [Enrollments -> EnrollmentType]
  BY <1>1 DEF LocalTypeOK
<1>5. Signalled' = {} /\ Enrolled' = Enrolled \cup {e}
  <2>1. Signalled' = {}
    BY <1>1 DEF Signalled
  <2>2. enrollments'[e] = row /\ \A d \in Enrollments \ {e} : enrollments'[d] = enrollments[d]
    BY <1>1, <1>4
  <2> QED
    BY <1>3, <2>1, <2>2 DEF Enrolled
<1>6. {d \in Enrolled' : enrollments'[d].revoked} = {d \in Enrolled : enrollments[d].revoked}
  <2>1. enrollments'[e].revoked = FALSE /\ \A d \in Enrolled : enrollments'[d] = enrollments[d]
    BY <1>1, <1>4 DEF Enrolled
  <2> QED
    BY <1>1, <1>5, <2>1
<1> HIDE DEF entry, row
<1>7. events \in Seq(EventType)
  BY <1>1 DEF LocalTypeOK
<1>8. LogOnce'
  <2>1. OnceIn(events', "ENROLLED", Enrolled')
    <3>1. OnceIn(events, "ENROLLED", Enrolled)
      BY <1>1 DEF LogOnce
    <3> QED
      BY <1>1, <1>2, <1>5, <1>7, <3>1, OnceAppended
  <2>2. OnceIn(events', "SIGNAL_ANCHORED", Signalled')
    <3>1. OnceIn(events, "SIGNAL_ANCHORED", Signalled')
      BY <1>1, <1>5 DEF LogOnce
    <3> QED
      BY <1>1, <1>2, <1>7, <3>1, OnceAppended
  <2>3. OnceIn(events', "ENROLLMENT_REVOKED", {d \in Enrolled' : enrollments'[d].revoked})
    <3>1. OnceIn(events, "ENROLLMENT_REVOKED", {d \in Enrolled : enrollments[d].revoked})
      BY <1>1 DEF LogOnce
    <3> QED
      BY <1>1, <1>2, <1>6, <1>7, <3>1, OnceAppended
  <2>4. OnceIn(events', "SESSION_WITHDRAWN", IF withdrawn' THEN {"session"} ELSE {})
    <3>1. OnceIn(events, "SESSION_WITHDRAWN", IF withdrawn' THEN {"session"} ELSE {})
      BY <1>1 DEF LogOnce
    <3> QED
      BY <1>1, <1>2, <1>7, <3>1, OnceAppended
  <2> QED
    BY <2>1, <2>2, <2>3, <2>4 DEF LogOnce
<1>9. LocalTypeOK'
  <2>1. events' \in Seq(EventType)
    BY <1>1, <1>2, LocalAppended
  <2>2. enrollments' \in [Enrollments -> EnrollmentType]
    BY <1>1, <1>3, <1>4
  <2> QED
    BY <1>1, <1>5, <2>1, <2>2 DEF LocalTypeOK
<1>10. ReadingsInWindow'
  <2>1. enrollments'[e].at = now /\ \A d \in Enrolled : enrollments'[d] = enrollments[d]
    BY <1>1, <1>4 DEF Enrolled, row
  <2> QED
    BY <1>1, <1>5, <2>1 DEF ReadingsInWindow
<1>11. ConsentPrecedesSignal' /\ WithdrawalStopsAll'
  <2>1. \A i \in DOMAIN events : events[i].type # "SIGNAL_ANCHORED"
    <3>1. OnceIn(events, "SIGNAL_ANCHORED", {})
      BY <1>1 DEF LogOnce
    <3> QED
      BY <3>1, EntriesOfNone
  <2>2. /\ \A i, j \in DOMAIN events' :
             events'[i].type = "SIGNAL_ANCHORED" /\ events'[j].type = "ENROLLED" => j < i
        /\ WithdrawalStopsAll'
    BY <1>1, <1>2, <2>1, LocalOrder
  <2> QED
    BY <1>5, <2>2 DEF ConsentPrecedesSignal
<1> QED
  BY <1>8, <1>9, <1>10, <1>11 DEF LocalInv

\* A signal comes after every consent by its clock too: enrollUntil is between the two.
LEMMA LocalSignal ==
  ASSUME LocalInv, NEW m \in Markets, NEW side \in Sides, NEW v \in Times, NEW now \in Times,
         PublishSignal(m, side, v, now)
  PROVE  LocalInv'
<1> DEFINE entry == Event("SIGNAL_ANCHORED", m)
           row == [side |-> side, at |-> now]
<1>1. /\ ~withdrawn /\ m \in manifest.markets \ Signalled
      /\ manifest.enrollUntil <= now /\ now <= manifest.cutoff
      /\ signals' = [signals EXCEPT ![m] = row] /\ events' = Append(events, entry)
      /\ UNCHANGED <<manifest, withdrawn, enrollments>>
      /\ LocalTypeOK /\ LogOnce /\ ReadingsInWindow
  BY DEF PublishSignal, PublishOpen, LocalInv
<1>2. entry \in EventType /\ entry.type = "SIGNAL_ANCHORED" /\ entry.subject = m
  BY DEF Event, EventType
<1>3. row \in SignalType /\ row # Silent
  <2>1. now \in Nat
    BY LocalAssumption DEF Times
  <2>2. row.side # Silent.side
    BY DEF Silent, Sides
  <2> QED
    BY <2>1, <2>2 DEF SignalType
<1>4. /\ signals \in [Markets -> SignalType] /\ enrollments \in [Enrollments -> EnrollmentType]
      /\ Signalled \subseteq manifest.markets /\ manifest.enrollUntil \in Nat /\ now \in Nat
  BY <1>1, LocalAssumption DEF LocalTypeOK, ManifestType, Times
<1>5. Enrolled' = Enrolled /\ Signalled' = Signalled \cup {m}
  <2>1. Enrolled' = Enrolled
    BY <1>1 DEF Enrolled
  <2>2. signals'[m] = row /\ \A d \in Markets \ {m} : signals'[d] = signals[d]
    BY <1>1, <1>4
  <2> QED
    BY <1>3, <2>1, <2>2 DEF Signalled
<1>6. /\ signals'[m].at = now /\ signals'[m].side = side
      /\ \A d \in Signalled : signals'[d] = signals[d]
  BY <1>1, <1>4 DEF Signalled
<1> HIDE DEF entry, row
<1>7. events \in Seq(EventType)
  BY <1>1 DEF LocalTypeOK
<1>8. LogOnce'
  <2>1. OnceIn(events', "SIGNAL_ANCHORED", Signalled')
    <3>1. OnceIn(events, "SIGNAL_ANCHORED", Signalled)
      BY <1>1 DEF LogOnce
    <3> QED
      BY <1>1, <1>2, <1>5, <1>7, <3>1, OnceAppended
  <2>2. OnceIn(events', "ENROLLED", Enrolled')
    <3>1. OnceIn(events, "ENROLLED", Enrolled')
      BY <1>1, <1>5 DEF LogOnce
    <3> QED
      BY <1>1, <1>2, <1>7, <3>1, OnceAppended
  <2>3. OnceIn(events', "ENROLLMENT_REVOKED", {d \in Enrolled' : enrollments'[d].revoked})
    <3>1. OnceIn(events, "ENROLLMENT_REVOKED", {d \in Enrolled' : enrollments'[d].revoked})
      BY <1>1, <1>5 DEF LogOnce
    <3> QED
      BY <1>1, <1>2, <1>7, <3>1, OnceAppended
  <2>4. OnceIn(events', "SESSION_WITHDRAWN", IF withdrawn' THEN {"session"} ELSE {})
    <3>1. OnceIn(events, "SESSION_WITHDRAWN", IF withdrawn' THEN {"session"} ELSE {})
      BY <1>1 DEF LogOnce
    <3> QED
      BY <1>1, <1>2, <1>7, <3>1, OnceAppended
  <2> QED
    BY <2>1, <2>2, <2>3, <2>4 DEF LogOnce
<1>9. LocalTypeOK'
  <2>1. events' \in Seq(EventType)
    BY <1>1, <1>2, LocalAppended
  <2>2. signals' \in [Markets -> SignalType]
    BY <1>1, <1>3, <1>4
  <2> QED
    BY <1>1, <1>4, <1>5, <2>1, <2>2 DEF LocalTypeOK
<1>10. ReadingsInWindow'
  BY <1>1, <1>5, <1>6 DEF ReadingsInWindow
<1>11. ConsentPrecedesSignal' /\ WithdrawalStopsAll'
  <2>1. /\ \A i, j \in DOMAIN events' :
             events'[i].type = "SIGNAL_ANCHORED" /\ events'[j].type = "ENROLLED" => j < i
        /\ WithdrawalStopsAll'
    BY <1>1, <1>2, LocalOrder
  <2>2. ASSUME NEW e \in Enrolled, NEW d \in Signalled \cup {m}
        PROVE  enrollments[e].at < signals'[d].at
    <3>1. enrollments[e].at < manifest.enrollUntil /\ enrollments[e].at \in Nat
      BY <1>1, <1>4 DEF ReadingsInWindow, Enrolled, EnrollmentType
    <3>2. CASE d = m
      BY <1>1, <1>4, <1>6, <3>1, <3>2
    <3>3. CASE d \in Signalled
      BY <1>6, <3>3 DEF LocalInv, ConsentPrecedesSignal
    <3> QED
      BY <3>2, <3>3
  <2> QED
    BY <1>1, <1>5, <2>1, <2>2 DEF ConsentPrecedesSignal
<1> QED
  BY <1>8, <1>9, <1>10, <1>11 DEF LocalInv

\* A revocation is the one call that is open at any time, and it only marks its record.
LEMMA LocalRevoke ==
  ASSUME LocalInv, NEW e \in Enrollments, NEW f \in Followers, RevokeEnrollment(e, f)
  PROVE  LocalInv'
<1> DEFINE entry == Event("ENROLLMENT_REVOKED", e)
           row == [enrollments[e] EXCEPT !.revoked = TRUE]
<1>1. /\ e \in Enrolled /\ enrollments[e].follower = f /\ ~enrollments[e].revoked
      /\ enrollments' = [enrollments EXCEPT ![e] = row] /\ events' = Append(events, entry)
      /\ UNCHANGED <<manifest, withdrawn, signals>>
      /\ LocalTypeOK /\ LogOnce /\ ReadingsInWindow
  BY DEF RevokeEnrollment, LocalInv
<1>2. entry \in EventType /\ entry.type = "ENROLLMENT_REVOKED" /\ entry.subject = e
  BY DEF Event, EventType
<1>3. /\ enrollments \in [Enrollments -> EnrollmentType] /\ events \in Seq(EventType)
      /\ Signalled \subseteq manifest.markets
  BY <1>1 DEF LocalTypeOK
<1>4. row \in EnrollmentType /\ row # NotEnrolled /\ row.revoked = TRUE /\ row.at = enrollments[e].at
  <2>1. enrollments[e] \in EnrollmentType
    BY <1>3
  <2>2. row \in EnrollmentType /\ row.follower = f /\ row.revoked = TRUE /\ row.at = enrollments[e].at
    BY <1>1, <2>1 DEF EnrollmentType
  <2>3. NotEnrolled.follower # f
    BY LocalAssumption DEF NotEnrolled
  <2> QED
    BY <2>2, <2>3
<1>5. enrollments'[e] = row /\ \A d \in Enrollments \ {e} : enrollments'[d] = enrollments[d]
  BY <1>1, <1>3
<1> HIDE DEF entry, row
<1>6. Enrolled' = Enrolled /\ Signalled' = Signalled
  <2>1. Signalled' = Signalled
    BY <1>1 DEF Signalled
  <2> QED
    BY <1>1, <1>4, <1>5, <2>1 DEF Enrolled
<1>7. {d \in Enrolled' : enrollments'[d].revoked} = {d \in Enrolled : enrollments[d].revoked} \cup {e}
  BY <1>1, <1>4, <1>5, <1>6, Zenon DEF Enrolled
<1>8. LogOnce'
  <2>1. OnceIn(events', "ENROLLED", Enrolled')
    <3>1. OnceIn(events, "ENROLLED", Enrolled')
      BY <1>1, <1>6 DEF LogOnce
    <3> QED
      BY <1>1, <1>2, <1>3, <3>1, OnceAppended
  <2>2. OnceIn(events', "SIGNAL_ANCHORED", Signalled')
    <3>1. OnceIn(events, "SIGNAL_ANCHORED", Signalled')
      BY <1>1, <1>6 DEF LogOnce
    <3> QED
      BY <1>1, <1>2, <1>3, <3>1, OnceAppended
  <2>3. OnceIn(events', "ENROLLMENT_REVOKED", {d \in Enrolled' : enrollments'[d].revoked})
    <3>1. OnceIn(events, "ENROLLMENT_REVOKED", {d \in Enrolled : enrollments[d].revoked})
      BY <1>1 DEF LogOnce
    <3>2. e \notin {d \in Enrolled : enrollments[d].revoked}
      BY <1>1
    <3> QED
      BY <1>1, <1>2, <1>3, <1>7, <3>1, <3>2, OnceAppended
  <2>4. OnceIn(events', "SESSION_WITHDRAWN", IF withdrawn' THEN {"session"} ELSE {})
    <3>1. OnceIn(events, "SESSION_WITHDRAWN", IF withdrawn' THEN {"session"} ELSE {})
      BY <1>1 DEF LogOnce
    <3> QED
      BY <1>1, <1>2, <1>3, <3>1, OnceAppended
  <2> QED
    BY <2>1, <2>2, <2>3, <2>4 DEF LogOnce
<1>9. LocalTypeOK'
  <2>1. events' \in Seq(EventType)
    BY <1>1, <1>2, LocalAppended
  <2>2. enrollments' \in [Enrollments -> EnrollmentType]
    BY <1>1, <1>3, <1>4
  <2> QED
    BY <1>1, <1>3, <1>6, <2>1, <2>2 DEF LocalTypeOK
<1>10. \A d \in Enrolled : enrollments'[d].at = enrollments[d].at
  BY <1>4, <1>5 DEF Enrolled
<1>11. ReadingsInWindow'
  BY <1>1, <1>6, <1>10 DEF ReadingsInWindow
<1>12. ConsentPrecedesSignal' /\ WithdrawalStopsAll'
  <2>1. /\ \A i, j \in DOMAIN events' :
             events'[i].type = "SIGNAL_ANCHORED" /\ events'[j].type = "ENROLLED" => j < i
        /\ WithdrawalStopsAll'
    BY <1>1, <1>2, LocalOrder
  <2>2. \A d \in Enrolled, m \in Signalled : enrollments'[d].at < signals'[m].at
    BY <1>1, <1>10 DEF LocalInv, ConsentPrecedesSignal
  <2> QED
    BY <1>6, <2>1, <2>2 DEF ConsentPrecedesSignal
<1> QED
  BY <1>8, <1>9, <1>11, <1>12 DEF LocalInv

\* A withdrawal is entered once.
LEMMA LocalWithdraw ==
  ASSUME LocalInv, WithdrawSession
  PROVE  LocalInv'
<1> DEFINE entry == Event("SESSION_WITHDRAWN", "session")
<1>1. /\ ~withdrawn /\ withdrawn' = TRUE /\ events' = Append(events, entry)
      /\ UNCHANGED <<manifest, enrollments, signals>>
      /\ LocalTypeOK /\ LogOnce /\ ReadingsInWindow
  BY DEF WithdrawSession, LocalInv
<1>2. entry \in EventType /\ entry.type = "SESSION_WITHDRAWN" /\ entry.subject = "session"
  BY DEF Event, EventType
<1> HIDE DEF entry
<1>3. events \in Seq(EventType) /\ Signalled \subseteq manifest.markets
  BY <1>1 DEF LocalTypeOK
<1>4. Enrolled' = Enrolled /\ Signalled' = Signalled
  BY <1>1 DEF Enrolled, Signalled
<1>5. LogOnce'
  <2>1. OnceIn(events', "ENROLLED", Enrolled')
    <3>1. OnceIn(events, "ENROLLED", Enrolled')
      BY <1>1, <1>4 DEF LogOnce
    <3> QED
      BY <1>1, <1>2, <1>3, <3>1, OnceAppended
  <2>2. OnceIn(events', "SIGNAL_ANCHORED", Signalled')
    <3>1. OnceIn(events, "SIGNAL_ANCHORED", Signalled')
      BY <1>1, <1>4 DEF LogOnce
    <3> QED
      BY <1>1, <1>2, <1>3, <3>1, OnceAppended
  <2>3. OnceIn(events', "ENROLLMENT_REVOKED", {d \in Enrolled' : enrollments'[d].revoked})
    <3>1. OnceIn(events, "ENROLLMENT_REVOKED", {d \in Enrolled' : enrollments'[d].revoked})
      BY <1>1, <1>4 DEF LogOnce
    <3> QED
      BY <1>1, <1>2, <1>3, <3>1, OnceAppended
  <2>4. OnceIn(events', "SESSION_WITHDRAWN", {"session"})
    <3>1. OnceIn(events, "SESSION_WITHDRAWN", {})
      BY <1>1 DEF LogOnce
    <3>2. {"session"} = {} \cup {entry.subject} /\ entry.subject \notin {}
      BY <1>2
    <3> QED
      BY <1>1, <1>2, <1>3, <3>1, <3>2, OnceAppended
  <2> QED
    BY <1>1, <2>1, <2>2, <2>3, <2>4 DEF LogOnce
<1>6. LocalTypeOK'
  <2>1. events' \in Seq(EventType)
    BY <1>1, <1>2, LocalAppended
  <2> QED
    BY <1>1, <1>3, <1>4, <2>1 DEF LocalTypeOK
<1>7. ReadingsInWindow'
  BY <1>1, <1>4 DEF ReadingsInWindow
<1>8. ConsentPrecedesSignal' /\ WithdrawalStopsAll'
  <2>1. /\ \A i, j \in DOMAIN events' :
             events'[i].type = "SIGNAL_ANCHORED" /\ events'[j].type = "ENROLLED" => j < i
        /\ WithdrawalStopsAll'
    BY <1>1, <1>2, LocalOrder
  <2>2. \A d \in Enrolled, m \in Signalled : enrollments'[d].at < signals'[m].at
    BY <1>1 DEF LocalInv, ConsentPrecedesSignal
  <2> QED
    BY <1>4, <2>1, <2>2 DEF ConsentPrecedesSignal
<1> QED
  BY <1>5, <1>6, <1>7, <1>8 DEF LocalInv

\* The invariant of the local session.
LEMMA LocalInvAlways == LocalSpec => []LocalInv
<1>1. LocalInit => LocalInv
  BY LocalInitInv
<1>2. LocalInv /\ [LocalNext]_localVars => LocalInv'
  <2> SUFFICES ASSUME LocalInv, [LocalNext]_localVars PROVE LocalInv'
    OBVIOUS
  <2>1. ASSUME NEW ms \in SUBSET Markets, NEW u \in Times, NEW c \in Times, NEW s \in Times, NEW now \in Times,
               CreateSession([markets |-> ms, enrollUntil |-> u, cutoff |-> c, sessionUntil |-> s], now)
        PROVE  LocalInv'
    <3>1. [markets |-> ms, enrollUntil |-> u, cutoff |-> c, sessionUntil |-> s] \in ManifestType
      BY LocalAssumption DEF ManifestType, Times
    <3> QED
      BY <2>1, <3>1, LocalCreate
  <2>2. CASE UNCHANGED localVars
    <3>1. Enrolled' = Enrolled /\ Signalled' = Signalled
      BY <2>2 DEF localVars, Enrolled, Signalled
    <3>2. LogOnce'
      BY <2>2, <3>1 DEF localVars, LocalInv, LogOnce
    <3> QED
      BY <2>2, <3>1, <3>2
      DEF localVars, LocalInv, LocalTypeOK, ConsentPrecedesSignal, WithdrawalStopsAll, ReadingsInWindow
  <2> QED
    BY <2>1, <2>2, LocalEnroll, LocalSignal, LocalRevoke, LocalWithdraw DEF LocalNext
<1> QED
  BY <1>1, <1>2, PTL DEF LocalSpec

\* For any markets, enrollments and clock readings the log and the records of the local
\* session tell one story: consent before signal, each entry once, only revocations after a
\* withdrawal.
THEOREM LocalSessionLog == LocalSpec => []LogExplainsSession
<1>1. LocalInv => LogExplainsSession
  <2> SUFFICES ASSUME LocalInv PROVE LogExplainsSession
    OBVIOUS
  <2>1. EventsExplainState
    BY DEF LocalInv, LogOnce, OnceIn, EntriesIn, EventsExplainState
  <2> QED
    BY <2>1 DEF LocalInv, LogExplainsSession
<1> QED
  BY <1>1, LocalInvAlways, PTL

\* No observer calls a signalled market NO_SIGNAL, for any clock and any part of the chain
\* that was observed: a kept signal is never later than the cutoff.
THEOREM LocalNoSignal == LocalSpec => []NoSignalIsTrue
<1>1. LocalInv => NoSignalIsTrue
  <2> SUFFICES ASSUME LocalInv, NEW m \in manifest.markets, NEW now \in Times, NEW observedThrough \in Times
               PROVE  LET seen == IF signals[m].at <= observedThrough THEN signals[m].side ELSE "NONE"
                          class == ClassifyWindow(now, observedThrough, seen)
                      IN  /\ class = "NO_SIGNAL" => m \notin Signalled
                          /\ class = "ABSTAIN" => signals[m].side = "ABSTAIN"
                          /\ class = "AWAITING_SIGNAL" => now <= manifest.cutoff
    BY DEF NoSignalIsTrue
  <2> DEFINE seen == IF signals[m].at <= observedThrough THEN signals[m].side ELSE "NONE"
             class == ClassifyWindow(now, observedThrough, seen)
  <2>1. /\ now \in Nat /\ observedThrough \in Nat /\ manifest.cutoff \in Nat
        /\ m \in Markets /\ signals[m] \in SignalType
    BY LocalAssumption DEF LocalInv, LocalTypeOK, ManifestType, Times
  <2>2. signals[m].at \in Nat /\ signals[m].side \in Sides \cup {"NONE"}
    BY <2>1 DEF SignalType
  <2>3. m \in Signalled => signals[m].at <= manifest.cutoff /\ signals[m].side \in Sides
    BY DEF LocalInv, ReadingsInWindow
  <2>4. class = "NO_SIGNAL" => /\ now > manifest.cutoff /\ ~(observedThrough < manifest.cutoff)
                               /\ seen \notin Sides
    BY <2>1 DEF ClassifyWindow, Sides
  <2>5. class = "NO_SIGNAL" => m \notin Signalled
    BY <2>1, <2>2, <2>3, <2>4
  <2>6. class = "ABSTAIN" => signals[m].side = "ABSTAIN"
    BY <2>1, <2>2 DEF ClassifyWindow, Sides
  <2>7. class = "AWAITING_SIGNAL" => now <= manifest.cutoff
    BY <2>1 DEF ClassifyWindow
  <2> QED
    BY <2>5, <2>6, <2>7
<1> QED
  BY <1>1, LocalInvAlways, PTL

-----------------------------------------------------------------------------
(* The owner's console                                                     *)

\* An open tab shows the entry that is stored, and the entry is there for a question to the
\* wallet and for the transaction that may come of it.
TabFollows(t) ==
  /\ ~In(t, "closed") => tabs[t].pending = stored
  /\ In(t, "checking") => stored = "none"
  /\ In(t, "signing") => stored = "signing"
  /\ In(t, "sent") => tabs[t].tx \in Txs /\ ~tabs[t].asked /\ stored = "signing" /\ Unresolved \subseteq {tabs[t].tx}
  /\ In(t, "waiting") => tabs[t].tx \in Txs /\ stored = tabs[t].tx
  /\ tabs[t].asked => stored = "signing" /\ Unresolved = {}

\* One tab is open at a time, one question is open at a time, and it is the open tab's own
\* while that tab is with the wallet.
TabsAlone ==
  \A t, u \in Tabs :
    /\ ~In(t, "closed") /\ ~In(u, "closed") => t = u
    /\ tabs[t].asked /\ tabs[u].asked => t = u
    /\ (In(t, "signing") \/ In(t, "sent")) /\ tabs[u].asked => t = u

EntryFollows ==
  /\ \A x \in Unresolved : stored \in {"signing", x}
  /\ \A x, y \in Unresolved : x = y

ConsoleInv ==
  /\ ConsoleTypeOK
  /\ ~beyond => TabsAlone /\ EntryFollows /\ \A t \in Tabs : TabFollows(t)

\* A tab's own step: what it must establish for itself is enough for all tabs, because the
\* others are closed.
LEMMA TabMoves ==
  ASSUME ConsoleInv, NEW t \in Tabs, NEW r \in TabType, tabs' = [tabs EXCEPT ![t] = r],
         UNCHANGED <<chain, beyond>>, stored' \in PendingEntries,
         ~In(t, "closed"),
         r.phase = "closed" => stored' = stored /\ r.asked = tabs[t].asked,
         ~beyond => EntryFollows',
         ~beyond => TabFollows(t)',
         stored' # stored \/ (r.asked /\ ~tabs[t].asked) \/ r.phase \in {"signing", "sent"}
           => (~beyond => \A u \in Tabs \ {t} : ~tabs[u].asked)
  PROVE  ConsoleInv'
<1>1. tabs \in [Tabs -> TabType] /\ tabs'[t] = r /\ \A u \in Tabs \ {t} : tabs'[u] = tabs[u]
  BY DEF ConsoleInv, ConsoleTypeOK
<1>2. ConsoleTypeOK' /\ Unresolved' = Unresolved
  BY <1>1 DEF ConsoleInv, ConsoleTypeOK, Unresolved
<1>3. ASSUME ~beyond PROVE TabsAlone' /\ \A u \in Tabs : TabFollows(u)'
  <2>1. TabsAlone /\ \A u \in Tabs : TabFollows(u)
    BY <1>3 DEF ConsoleInv
  <2>2. \A u \in Tabs \ {t} : In(u, "closed")
    BY <2>1 DEF TabsAlone
  <2>3. TabsAlone'
    BY <1>1, <1>3, <2>1, <2>2 DEF TabsAlone, In, TabType
  <2>4. ASSUME NEW u \in Tabs \ {t} PROVE TabFollows(u)'
    BY <1>1, <1>2, <1>3, <2>1, <2>2 DEF TabFollows, In
  <2> QED
    BY <1>3, <2>3, <2>4
<1> QED
  BY <1>2, <1>3 DEF ConsoleInv

\* No question is open while the entry says something else.
LEMMA NotAsked ==
  ASSUME ConsoleInv, ~beyond, stored # "signing" PROVE \A u \in Tabs : ~tabs[u].asked
BY DEF ConsoleInv, TabFollows

\* Every step of a tab keeps the invariant.
LEMMA TabStep ==
  ASSUME ConsoleInv, NEW t \in Tabs,
         \/ Open(t) \/ Close(t) \/ Execute(t) \/ CheckFails(t) \/ AskToSign(t) \/ Reject(t) \/ RejectUnheard(t)
         \/ OnSubmitted(t) \/ Fail(t) \/ Succeed(t) \/ ReconcilePending(t)
  PROVE  ConsoleInv'
<1> USE ConsoleAssumption
<1>0. /\ tabs \in [Tabs -> TabType] /\ stored \in PendingEntries /\ tabs[t] \in TabType
      /\ chain \in [Txs -> TxType] /\ beyond \in BOOLEAN
  BY DEF ConsoleInv, ConsoleTypeOK
<1>1. ~beyond => TabsAlone /\ EntryFollows /\ TabFollows(t) /\ (stored # "signing" => \A u \in Tabs : ~tabs[u].asked)
  BY NotAsked DEF ConsoleInv
<1>2. CASE Open(t)
  <2> DEFINE r == [tabs[t] EXCEPT !.phase = "idle", !.pending = stored]
  <2>1. r \in TabType /\ r.phase = "idle" /\ r.pending = stored /\ r.asked = tabs[t].asked
    BY <1>0 DEF TabType, TabPhases
  <2>2. tabs' = [tabs EXCEPT ![t] = r] /\ UNCHANGED <<stored, chain>>
    BY <1>2 DEF Open
  <2>3. tabs'[t] = r /\ \A u \in Tabs \ {t} : tabs'[u] = tabs[u]
    BY <1>0, <2>2
  <2>4. beyond' \in BOOLEAN /\ (~beyond' => ~beyond /\ \A u \in Tabs : In(u, "closed"))
    BY <1>0, <1>2 DEF Open
  <2>5. ConsoleTypeOK' /\ Unresolved' = Unresolved
    BY <1>0, <2>1, <2>2, <2>4 DEF ConsoleInv, ConsoleTypeOK, Unresolved
  <2> HIDE DEF r
  <2>6. ASSUME ~beyond' PROVE TabsAlone' /\ EntryFollows' /\ \A u \in Tabs : TabFollows(u)'
    <3>1. ~beyond /\ TabsAlone /\ EntryFollows /\ \A u \in Tabs : TabFollows(u) /\ In(u, "closed")
      BY <2>4, <2>6 DEF ConsoleInv
    <3>2. EntryFollows'
      BY <2>2, <2>5, <3>1 DEF EntryFollows
    <3>3. TabsAlone'
      BY <2>1, <2>3, <3>1 DEF TabsAlone, In
    <3>4. \A u \in Tabs : TabFollows(u)'
      BY <2>1, <2>2, <2>3, <2>5, <3>1 DEF TabFollows, In
    <3> QED
      BY <3>2, <3>3, <3>4
  <2> QED
    BY <2>5, <2>6 DEF ConsoleInv
<1>3. CASE Close(t)
  <2> DEFINE r == [tabs[t] EXCEPT !.phase = "closed", !.pending = "none", !.tx = "none"]
  <2>1. r \in TabType /\ r.phase = "closed" /\ r.asked = tabs[t].asked
    BY <1>0, <1>1, <1>3 DEF Close, In, TabType, TabPhases, PendingEntries
  <2>2. tabs' = [tabs EXCEPT ![t] = r] /\ stored' = stored /\ UNCHANGED <<chain, beyond>> /\ ~In(t, "closed") /\ stored' \in PendingEntries
    BY <1>0, <1>3 DEF Close, In, TabType, PendingEntries
  <2>3. tabs'[t] = r /\ Unresolved' = Unresolved
    BY <1>0, <2>1, <2>2 DEF Unresolved
  <2> HIDE DEF r
  <2>4. ~beyond => EntryFollows' /\ TabFollows(t)'
    BY <1>0, <1>1, <1>3, <2>1, <2>2, <2>3 DEF Close, EntryFollows, TabFollows, In
  <2>5. stored' # stored \/ (r.asked /\ ~tabs[t].asked) \/ r.phase \in {"signing", "sent"}
          => (~beyond => \A u \in Tabs \ {t} : ~tabs[u].asked)
    BY <1>0, <1>1, <1>3, <2>1, <2>2 DEF Close, TabsAlone, TabFollows, In
  <2> QED
    BY <2>1, <2>2, <2>4, <2>5, TabMoves
<1>4. CASE Execute(t)
  <2> DEFINE r == [tabs[t] EXCEPT !.phase = "checking"]
  <2>1. r \in TabType /\ r.phase = "checking" /\ r.asked = tabs[t].asked /\ r.pending = tabs[t].pending /\ r.tx = tabs[t].tx
    BY <1>0, <1>1, <1>4 DEF Execute, In, TabType, TabPhases, PendingEntries
  <2>2. tabs' = [tabs EXCEPT ![t] = r] /\ stored' = stored /\ UNCHANGED <<chain, beyond>> /\ ~In(t, "closed") /\ stored' \in PendingEntries
    BY <1>0, <1>4 DEF Execute, In, TabType, PendingEntries
  <2>3. tabs'[t] = r /\ Unresolved' = Unresolved
    BY <1>0, <2>1, <2>2 DEF Unresolved
  <2> HIDE DEF r
  <2>4. ~beyond => EntryFollows' /\ TabFollows(t)'
    BY <1>0, <1>1, <1>4, <2>1, <2>2, <2>3 DEF Execute, EntryFollows, TabFollows, In
  <2>5. stored' # stored \/ (r.asked /\ ~tabs[t].asked) \/ r.phase \in {"signing", "sent"}
          => (~beyond => \A u \in Tabs \ {t} : ~tabs[u].asked)
    BY <1>0, <1>1, <1>4, <2>1, <2>2 DEF Execute, TabsAlone, TabFollows, In
  <2> QED
    BY <2>1, <2>2, <2>4, <2>5, TabMoves
<1>5. CASE CheckFails(t)
  <2> DEFINE r == [tabs[t] EXCEPT !.phase = "idle"]
  <2>1. r \in TabType /\ r.phase = "idle" /\ r.asked = tabs[t].asked /\ r.pending = tabs[t].pending
    BY <1>0, <1>1, <1>5 DEF CheckFails, In, TabType, TabPhases, PendingEntries
  <2>2. tabs' = [tabs EXCEPT ![t] = r] /\ stored' = stored /\ UNCHANGED <<chain, beyond>> /\ ~In(t, "closed") /\ stored' \in PendingEntries
    BY <1>0, <1>5 DEF CheckFails, In, TabType, PendingEntries
  <2>3. tabs'[t] = r /\ Unresolved' = Unresolved
    BY <1>0, <2>1, <2>2 DEF Unresolved
  <2> HIDE DEF r
  <2>4. ~beyond => EntryFollows' /\ TabFollows(t)'
    BY <1>0, <1>1, <1>5, <2>1, <2>2, <2>3 DEF CheckFails, EntryFollows, TabFollows, In
  <2>5. stored' # stored \/ (r.asked /\ ~tabs[t].asked) \/ r.phase \in {"signing", "sent"}
          => (~beyond => \A u \in Tabs \ {t} : ~tabs[u].asked)
    BY <1>0, <1>1, <1>5, <2>1, <2>2 DEF CheckFails, TabsAlone, TabFollows, In
  <2> QED
    BY <2>1, <2>2, <2>4, <2>5, TabMoves
<1>6. CASE AskToSign(t)
  <2> DEFINE r == [tabs[t] EXCEPT !.phase = "signing", !.pending = "signing", !.asked = TRUE]
  <2>1. r \in TabType /\ r.phase = "signing" /\ r.asked /\ r.pending = "signing"
    BY <1>0, <1>1, <1>6 DEF AskToSign, In, TabType, TabPhases, PendingEntries
  <2>2. tabs' = [tabs EXCEPT ![t] = r] /\ stored' = "signing" /\ UNCHANGED <<chain, beyond>> /\ ~In(t, "closed") /\ stored' \in PendingEntries
    BY <1>0, <1>6 DEF AskToSign, In, TabType, PendingEntries
  <2>3. tabs'[t] = r /\ Unresolved' = Unresolved
    BY <1>0, <2>1, <2>2 DEF Unresolved
  <2> HIDE DEF r
  <2>4. ~beyond => stored = "none" /\ Unresolved = {}
    <3>1. \A x \in Unresolved : x # "none"
      BY DEF Unresolved
    <3> QED
      BY <1>1, <1>6, <3>1 DEF AskToSign, EntryFollows, TabFollows, In
  <2>5. ~beyond => EntryFollows' /\ TabFollows(t)'
    BY <1>0, <1>1, <1>6, <2>4, <2>1, <2>2, <2>3 DEF AskToSign, EntryFollows, TabFollows, In
  <2>6. stored' # stored \/ (r.asked /\ ~tabs[t].asked) \/ r.phase \in {"signing", "sent"}
          => (~beyond => \A u \in Tabs \ {t} : ~tabs[u].asked)
    BY <1>0, <1>1, <1>6, <2>1, <2>2 DEF AskToSign, TabsAlone, TabFollows, In
  <2> QED
    BY <2>1, <2>2, <2>5, <2>6, TabMoves
<1>7. CASE Reject(t)
  <2> DEFINE r == [tabs[t] EXCEPT !.phase = "idle", !.pending = "none", !.asked = FALSE]
  <2>1. r \in TabType /\ r.phase = "idle" /\ ~r.asked /\ r.pending = "none"
    BY <1>0, <1>1, <1>7 DEF Reject, In, TabType, TabPhases, PendingEntries
  <2>2. tabs' = [tabs EXCEPT ![t] = r] /\ stored' = "none" /\ UNCHANGED <<chain, beyond>> /\ ~In(t, "closed") /\ stored' \in PendingEntries
    BY <1>0, <1>7 DEF Reject, In, TabType, PendingEntries
  <2>3. tabs'[t] = r /\ Unresolved' = Unresolved
    BY <1>0, <2>1, <2>2 DEF Unresolved
  <2> HIDE DEF r
  <2>4. ~beyond => EntryFollows' /\ TabFollows(t)'
    BY <1>0, <1>1, <1>7, <2>1, <2>2, <2>3 DEF Reject, EntryFollows, TabFollows, In
  <2>5. stored' # stored \/ (r.asked /\ ~tabs[t].asked) \/ r.phase \in {"signing", "sent"}
          => (~beyond => \A u \in Tabs \ {t} : ~tabs[u].asked)
    BY <1>0, <1>1, <1>7, <2>1, <2>2 DEF Reject, TabsAlone, TabFollows, In
  <2> QED
    BY <2>1, <2>2, <2>4, <2>5, TabMoves
<1>8. CASE OnSubmitted(t)
  <2> DEFINE r == [tabs[t] EXCEPT !.phase = "waiting", !.pending = tabs[t].tx]
  <2>1. r \in TabType /\ r.phase = "waiting" /\ r.asked = tabs[t].asked /\ r.pending = tabs[t].tx /\ r.tx = tabs[t].tx
    BY <1>0, <1>1, <1>8 DEF OnSubmitted, In, TabType, TabPhases, PendingEntries
  <2>2. tabs' = [tabs EXCEPT ![t] = r] /\ stored' = tabs[t].tx /\ UNCHANGED <<chain, beyond>> /\ ~In(t, "closed") /\ stored' \in PendingEntries
    BY <1>0, <1>8 DEF OnSubmitted, In, TabType, PendingEntries
  <2>3. tabs'[t] = r /\ Unresolved' = Unresolved
    BY <1>0, <2>1, <2>2 DEF Unresolved
  <2> HIDE DEF r
  <2>4. ~beyond => EntryFollows' /\ TabFollows(t)'
    BY <1>0, <1>1, <1>8, <2>1, <2>2, <2>3 DEF OnSubmitted, EntryFollows, TabFollows, In
  <2>5. stored' # stored \/ (r.asked /\ ~tabs[t].asked) \/ r.phase \in {"signing", "sent"}
          => (~beyond => \A u \in Tabs \ {t} : ~tabs[u].asked)
    BY <1>0, <1>1, <1>8, <2>1, <2>2 DEF OnSubmitted, TabsAlone, TabFollows, In
  <2> QED
    BY <2>1, <2>2, <2>4, <2>5, TabMoves
<1>9. CASE Fail(t)
  <2> DEFINE r == [tabs[t] EXCEPT !.phase = "idle", !.tx = "none"]
  <2>1. r \in TabType /\ r.phase = "idle" /\ r.asked = tabs[t].asked /\ r.pending = tabs[t].pending
    BY <1>0, <1>1, <1>9 DEF Fail, In, TabType, TabPhases, PendingEntries
  <2>2. tabs' = [tabs EXCEPT ![t] = r] /\ stored' = stored /\ UNCHANGED <<chain, beyond>> /\ ~In(t, "closed") /\ stored' \in PendingEntries
    BY <1>0, <1>9 DEF Fail, In, TabType, PendingEntries
  <2>3. tabs'[t] = r /\ Unresolved' = Unresolved
    BY <1>0, <2>1, <2>2 DEF Unresolved
  <2> HIDE DEF r
  <2>4. ~beyond => EntryFollows' /\ TabFollows(t)'
    BY <1>0, <1>1, <1>9, <2>1, <2>2, <2>3 DEF Fail, EntryFollows, TabFollows, In
  <2>5. stored' # stored \/ (r.asked /\ ~tabs[t].asked) \/ r.phase \in {"signing", "sent"}
          => (~beyond => \A u \in Tabs \ {t} : ~tabs[u].asked)
    BY <1>0, <1>1, <1>9, <2>1, <2>2 DEF Fail, TabsAlone, TabFollows, In
  <2> QED
    BY <2>1, <2>2, <2>4, <2>5, TabMoves
<1>10. CASE Succeed(t)
  <2> DEFINE r == [tabs[t] EXCEPT !.phase = "idle", !.pending = "none", !.tx = "none"]
  <2>1. r \in TabType /\ r.phase = "idle" /\ r.asked = tabs[t].asked /\ r.pending = "none"
    BY <1>0, <1>1, <1>10 DEF Succeed, In, TabType, TabPhases, PendingEntries
  <2>2. tabs' = [tabs EXCEPT ![t] = r] /\ stored' = "none" /\ UNCHANGED <<chain, beyond>> /\ ~In(t, "closed") /\ stored' \in PendingEntries
    BY <1>0, <1>10 DEF Succeed, In, TabType, PendingEntries
  <2>3. tabs'[t] = r /\ Unresolved' = Unresolved
    BY <1>0, <2>1, <2>2 DEF Unresolved
  <2> HIDE DEF r
  <2>4. ~beyond => EntryFollows' /\ TabFollows(t)'
    BY <1>0, <1>1, <1>10, <2>1, <2>2, <2>3 DEF Succeed, EntryFollows, TabFollows, In, WaitIsOver, Unresolved
  <2>5. stored' # stored \/ (r.asked /\ ~tabs[t].asked) \/ r.phase \in {"signing", "sent"}
          => (~beyond => \A u \in Tabs \ {t} : ~tabs[u].asked)
    BY <1>0, <1>1, <1>10, <2>1, <2>2 DEF Succeed, TabsAlone, TabFollows, In
  <2> QED
    BY <2>1, <2>2, <2>4, <2>5, TabMoves
<1>11. CASE ReconcilePending(t)
  <2> DEFINE r == [tabs[t] EXCEPT !.pending = "none"]
  <2>1. r \in TabType /\ r.phase = "idle" /\ r.asked = tabs[t].asked /\ r.pending = "none"
    BY <1>0, <1>1, <1>11 DEF ReconcilePending, In, TabType, TabPhases, PendingEntries
  <2>2. tabs' = [tabs EXCEPT ![t] = r] /\ stored' = "none" /\ UNCHANGED <<chain, beyond>> /\ ~In(t, "closed") /\ stored' \in PendingEntries
    BY <1>0, <1>11 DEF ReconcilePending, In, TabType, PendingEntries
  <2>3. tabs'[t] = r /\ Unresolved' = Unresolved
    BY <1>0, <2>1, <2>2 DEF Unresolved
  <2> HIDE DEF r
  <2>4. ~beyond => EntryFollows' /\ TabFollows(t)'
    BY <1>0, <1>1, <1>11, <2>1, <2>2, <2>3 DEF ReconcilePending, EntryFollows, TabFollows, In, ReceiptState, Unresolved
  <2>5. stored' # stored \/ (r.asked /\ ~tabs[t].asked) \/ r.phase \in {"signing", "sent"}
          => (~beyond => \A u \in Tabs \ {t} : ~tabs[u].asked)
    BY <1>0, <1>1, <1>11, <2>1, <2>2 DEF ReconcilePending, TabsAlone, TabFollows, In
  <2> QED
    BY <2>1, <2>2, <2>4, <2>5, TabMoves
<1>12. CASE RejectUnheard(t)
  <2> DEFINE r == [tabs[t] EXCEPT !.asked = FALSE]
  <2>1. r \in TabType /\ ~r.asked /\ r.phase = tabs[t].phase /\ r.pending = tabs[t].pending /\ r.tx = tabs[t].tx
    BY <1>0 DEF TabType
  <2>2. tabs' = [tabs EXCEPT ![t] = r] /\ UNCHANGED <<stored, chain, beyond>>
    BY <1>12 DEF RejectUnheard
  <2>3. tabs'[t] = r /\ \A u \in Tabs \ {t} : tabs'[u] = tabs[u]
    BY <1>0, <2>2
  <2>4. ConsoleTypeOK' /\ Unresolved' = Unresolved
    BY <1>0, <2>1, <2>2 DEF ConsoleInv, ConsoleTypeOK, Unresolved
  <2> HIDE DEF r
  <2>5. ASSUME ~beyond PROVE TabsAlone' /\ EntryFollows' /\ \A u \in Tabs : TabFollows(u)'
    <3>1. TabsAlone /\ EntryFollows /\ \A u \in Tabs : TabFollows(u)
      BY <2>5 DEF ConsoleInv
    <3>2. EntryFollows' /\ TabsAlone'
      BY <2>1, <2>2, <2>3, <2>4, <3>1 DEF EntryFollows, TabsAlone, In
    <3>3. \A u \in Tabs : TabFollows(u)'
      BY <2>1, <2>2, <2>3, <2>4, <3>1 DEF TabFollows, In
    <3> QED
      BY <3>2, <3>3
  <2> QED
    BY <2>2, <2>4, <2>5 DEF ConsoleInv
<1> QED
  BY <1>2, <1>3, <1>4, <1>5, <1>6, <1>7, <1>8, <1>9, <1>10, <1>11, <1>12

\* The wallet sends what it was asked for, to a tab that listens or to none.
LEMMA WalletStep ==
  ASSUME ConsoleInv, NEW t \in Tabs, NEW x \in Txs, WalletSends(t, x) PROVE ConsoleInv'
<1> USE ConsoleAssumption
<1> DEFINE r == [tabs[t] EXCEPT !.asked = FALSE,
                                !.phase = IF In(t, "signing") THEN "sent" ELSE @,
                                !.tx = IF In(t, "signing") THEN x ELSE @]
<1>0. /\ tabs \in [Tabs -> TabType] /\ stored \in PendingEntries /\ tabs[t] \in TabType
      /\ chain \in [Txs -> TxType] /\ beyond \in BOOLEAN
  BY DEF ConsoleInv, ConsoleTypeOK
<1>1. /\ r \in TabType /\ ~r.asked /\ r.pending = tabs[t].pending
      /\ In(t, "signing") => r.phase = "sent" /\ r.tx = x
      /\ ~In(t, "signing") => r.phase = tabs[t].phase /\ r.tx = tabs[t].tx
  BY <1>0 DEF In, TabType, TabPhases
<1>2. /\ tabs' = [tabs EXCEPT ![t] = r] /\ tabs[t].asked /\ chain' = [chain EXCEPT ![x] = NotMined("pending")]
      /\ UNCHANGED <<stored, beyond>>
  BY DEF WalletSends
<1>3. tabs'[t] = r /\ \A u \in Tabs \ {t} : tabs'[u] = tabs[u]
  BY <1>0, <1>2
<1>4. ConsoleTypeOK' /\ Unresolved' \subseteq Unresolved \cup {x}
  BY <1>0, <1>1, <1>2 DEF ConsoleInv, ConsoleTypeOK, NotMined, TxType, Unresolved
<1> HIDE DEF r
<1>5. ASSUME ~beyond PROVE TabsAlone' /\ EntryFollows' /\ \A u \in Tabs : TabFollows(u)'
  <2>1. /\ TabsAlone /\ EntryFollows /\ \A u \in Tabs : TabFollows(u)
        /\ stored = "signing" /\ Unresolved = {} /\ \A u \in Tabs \ {t} : ~tabs[u].asked
    BY <1>2, <1>5 DEF ConsoleInv, TabFollows, TabsAlone
  <2>2. TabsAlone'
    BY <1>1, <1>3, <2>1 DEF TabsAlone, In
  <2>3. EntryFollows'
    BY <1>2, <1>4, <2>1 DEF EntryFollows
  <2>4. TabFollows(t)'
    BY <1>1, <1>2, <1>3, <1>4, <2>1 DEF TabFollows, In
  <2>5. ASSUME NEW u \in Tabs \ {t} PROVE TabFollows(u)'
    <3>1. ~In(u, "sent")
      BY <1>2, <2>1 DEF TabsAlone
    <3> QED
      BY <1>2, <1>3, <2>1, <3>1 DEF TabFollows, In
  <2> QED
    BY <2>2, <2>3, <2>4, <2>5
<1> QED
  BY <1>2, <1>4, <1>5 DEF ConsoleInv

\* The chain resolves transactions; it opens the outcome of one again only by a
\* reorganisation of more than the head block.
LEMMA BlockStep ==
  ASSUME ConsoleInv, NEW x \in Txs,
         (\E ok \in BOOLEAN : Include(x, ok)) \/ Replace(x) \/ NextBlock(x) \/ Reorganise(x)
  PROVE  ConsoleInv'
<1>1. chain \in [Txs -> TxType] /\ beyond \in BOOLEAN /\ UNCHANGED <<stored, tabs>>
  BY DEF ConsoleInv, ConsoleTypeOK, Include, Replace, NextBlock, Reorganise
<1>2. /\ chain' \in [Txs -> TxType] /\ beyond' \in BOOLEAN /\ (beyond => beyond')
      /\ ~beyond' => Unresolved' \subseteq Unresolved
  <2>1. CASE \E ok \in BOOLEAN : Include(x, ok)
    BY <1>1, <2>1 DEF Include, TxType, Unresolved
  <2>2. CASE Replace(x)
    BY <1>1, <2>2 DEF Replace, NotMined, TxType, Unresolved
  <2>3. CASE NextBlock(x)
    <3>1. chain[x] \in TxType /\ beyond' = beyond
      BY <1>1, <2>3 DEF NextBlock
    <3>2. chain' = [chain EXCEPT ![x] = [chain[x] EXCEPT !.blocks = @ + 1]]
      BY <2>3 DEF NextBlock
    <3>3. [chain[x] EXCEPT !.blocks = @ + 1] \in TxType
      BY <3>1 DEF TxType
    <3>4. chain'[x].state = "mined" /\ chain'[x].blocks = chain[x].blocks + 1 /\ \A y \in Txs \ {x} : chain'[y] = chain[y]
      BY <1>1, <2>3, <3>1, <3>2 DEF NextBlock, TxType
    <3>5. chain[x].blocks \in Nat
      BY <3>1 DEF TxType
    <3>6. x \notin Unresolved'
      BY <3>4, <3>5 DEF Unresolved
    <3>7. Unresolved' \subseteq Unresolved
      BY <3>4, <3>6 DEF Unresolved
    <3> QED
      BY <1>1, <3>1, <3>2, <3>3, <3>7
  <2>4. CASE Reorganise(x)
    <3>1. chain[x] \in TxType /\ chain[x].blocks \in Nat
      BY <1>1 DEF TxType
    <3>2. /\ chain[x].state = "mined" /\ chain' = [chain EXCEPT ![x] = NotMined("pending")]
          /\ beyond' = (beyond \/ chain[x].blocks > 0)
      BY <2>4 DEF Reorganise
    <3>3. chain' \in [Txs -> TxType] /\ beyond' \in BOOLEAN
      BY <1>1, <3>1, <3>2 DEF NotMined, TxType
    <3>4. ~beyond' => x \in Unresolved
      <4>1. chain[x].blocks = 0 => x \in Unresolved
        BY <3>2 DEF Unresolved
      <4>2. chain[x].blocks # 0 => chain[x].blocks > 0
        BY <3>1
      <4> QED
        BY <3>2, <4>1, <4>2
    <3>5. \A y \in Txs \ {x} : chain'[y] = chain[y]
      BY <1>1, <3>2
    <3>6. Unresolved' \subseteq Unresolved \cup {x}
      BY <3>5 DEF Unresolved
    <3>7. beyond => beyond'
      BY <1>1, <3>2
    <3> QED
      BY <3>3, <3>4, <3>6, <3>7
  <2> QED
    BY <2>1, <2>2, <2>3, <2>4
<1>3. ConsoleTypeOK'
  BY <1>1, <1>2 DEF ConsoleInv, ConsoleTypeOK
<1>4. ASSUME ~beyond' PROVE TabsAlone' /\ EntryFollows' /\ \A t \in Tabs : TabFollows(t)'
  <2>1. TabsAlone /\ EntryFollows /\ \A t \in Tabs : TabFollows(t)
    BY <1>1, <1>2, <1>4 DEF ConsoleInv
  <2> QED
    BY <1>1, <1>2, <1>4, <2>1 DEF TabsAlone, EntryFollows, TabFollows, In
<1> QED
  BY <1>3, <1>4 DEF ConsoleInv

\* The invariant of the console holds in every state, for any number of tabs.
LEMMA ConsoleInvAlways == ConsoleSpec => []ConsoleInv
<1>1. ConsoleInit => ConsoleInv
  <2> SUFFICES ASSUME ConsoleInit PROVE ConsoleInv
    OBVIOUS
  <2>1. /\ tabs \in [Tabs -> TabType] /\ \A t \in Tabs : tabs[t].phase = "closed" /\ tabs[t].asked = FALSE
        /\ stored = "none" /\ Unresolved = {} /\ beyond = FALSE
        /\ chain \in [Txs -> TxType]
    BY DEF ConsoleInit, TabType, TabPhases, PendingEntries, Unresolved, NotMined, TxType
  <2> QED
    BY <2>1 DEF ConsoleInv, ConsoleTypeOK, TabsAlone, EntryFollows, TabFollows, In, PendingEntries
<1>2. ConsoleInv /\ [ConsoleNext]_consoleVars => ConsoleInv'
  <2>1. ASSUME ConsoleInv, UNCHANGED consoleVars PROVE ConsoleInv'
    BY <2>1 DEF consoleVars, ConsoleInv, ConsoleTypeOK, TabsAlone, EntryFollows, TabFollows, In, Unresolved
  <2> QED
    BY <2>1, TabStep, WalletStep, BlockStep DEF ConsoleNext
<1> QED
  BY <1>1, <1>2, PTL DEF ConsoleSpec

\* From one tab after the other, and while reorganisations take no more than the head block,
\* the console never forgets a transaction whose outcome is open.
THEOREM ConsoleRemembers == ConsoleSpec => []UnknownIsRemembered
<1>1. ConsoleInv => UnknownIsRemembered
  BY DEF ConsoleInv, TabFollows, EntryFollows, UnknownIsRemembered
<1> QED
  BY <1>1, ConsoleInvAlways, PTL

\* Under the same conditions there is never a second transaction, or a second question to
\* the wallet, while the outcome of the first is open.
THEOREM ConsoleOneOutstanding == ConsoleSpec => []OneOutstanding
<1>1. ConsoleInv => OneOutstanding
  <2> SUFFICES ASSUME ConsoleInv, ~beyond
               PROVE  Cardinality(Unresolved) + Cardinality({t \in Tabs : tabs[t].asked}) <= 1
    BY DEF OneOutstanding
  <2> DEFINE askers == {t \in Tabs : tabs[t].asked}
  <2>1. Cardinality({}) = 0 /\ \A x : Cardinality({x}) = 1
    BY FS_EmptySet, FS_Singleton
  <2>2. Unresolved = {} \/ \E x : Unresolved = {x}
    BY DEF ConsoleInv, EntryFollows
  <2>3. askers = {} \/ (Unresolved = {} /\ \E t : askers = {t})
    <3>1. ASSUME NEW t \in Tabs, tabs[t].asked PROVE Unresolved = {} /\ askers = {t}
      BY <3>1 DEF ConsoleInv, TabsAlone, TabFollows
    <3> QED
      BY <3>1
  <2> HIDE DEF askers
  <2>4. Cardinality(Unresolved) \in {0, 1} /\ (Unresolved = {} => Cardinality(Unresolved) = 0)
    BY <2>1, <2>2
  <2>5. Cardinality(askers) = 0 \/ (Cardinality(askers) = 1 /\ Unresolved = {})
    BY <2>1, <2>3
  <2>6. Cardinality(Unresolved) + Cardinality(askers) <= 1
    BY <2>4, <2>5
  <2> QED
    BY <2>6 DEF askers
<1> QED
  BY <1>1, ConsoleInvAlways, PTL

-----------------------------------------------------------------------------
(* The operator's script: the invariant                                    *)

\* The parts of the script's state.
Kinds == Labels \cup {"transfer"}
ResultType == [id : Nat, label : Kinds, amount : Nat, ok : BOOLEAN, fill : BOOLEAN, cash : Nat]
SentType == [id : Nat, label : Kinds, amount : Nat]
ProcType ==
  [mode : {"off", "run", "signal", "recover"}, step : Nat,
   stage : {"reconcile", "ready", "read", "sent", "saved", "mined"}, id : Nat, amount : Nat]

ChainTyped ==
  /\ ledger \in Seq(ResultType) /\ mempool \in Seq(SentType)
  /\ final \in Nat /\ resolved \in BOOLEAN /\ sends \in Nat /\ reorgs \in Nat

\* A transaction of the script is in one place.
OneCopy ==
  /\ \A i \in DOMAIN ledger : ledger[i].id <= sends
  /\ \A i \in DOMAIN mempool : 0 < mempool[i].id /\ mempool[i].id <= sends
  /\ \A i, j \in DOMAIN ledger : ledger[i].id = ledger[j].id /\ ledger[i].id # 0 => i = j
  /\ \A i, j \in DOMAIN mempool : mempool[i].id = mempool[j].id => i = j
  /\ \A i \in DOMAIN ledger, j \in DOMAIN mempool : ledger[i].id # mempool[j].id

\* What succeeded had its precondition in the blocks before its own.
Before(i, label) == \E j \in DOMAIN ledger : j < i /\ ledger[j].label = label /\ ledger[j].ok
InOrder ==
  \A i \in DOMAIN ledger : ledger[i].ok =>
    /\ ledger[i].label = "deposit" => Before(i, "create-vault")
    /\ ledger[i].label = "enroll" => Before(i, "create-vault")
    /\ ledger[i].label = "anchor-signal" => Before(i, "enroll")
    /\ ledger[i].label = "native-execute" => Before(i, "anchor-signal")
    /\ ledger[i].label = "recover" => Before(i, "native-execute")

\* An id names the same transaction wherever it is written down.
Named(id, label) ==
  /\ 0 < id /\ id <= sends
  /\ \A i \in DOMAIN ledger : ledger[i].id = id => ledger[i].label = label
  /\ \A i \in DOMAIN mempool : mempool[i].id = id => mempool[i].label = label

\* Where a running script is: only the first command makes a file.
ProcOrder ==
  /\ proc \in ProcType
  /\ proc = Off \/ (proc.mode # "off" /\ proc.step \in DOMAIN Route(proc.mode))
  /\ proc.mode = "run" => proc.stage # "reconcile" /\ file.phase = "DEPLOYING"
  /\ proc.stage = "reconcile" => proc.step = 1
  /\ file.phase = "none" => proc = Off /\ file.transactions = <<>>
  /\ proc.stage \in {"sent", "saved"} => Named(proc.id, StepLabel)

\* What the file holds: entries that name sent transactions, and one pending entry at most
\* while a command takes its steps.
FileOrder ==
  /\ file \in [phase : Phases, transactions : Seq(EntryType)]
  /\ \A i \in DOMAIN file.transactions : Named(file.transactions[i].id, file.transactions[i].label)
  /\ proc # Off /\ proc.stage \in {"ready", "read", "sent", "mined"} => Submitted = {}
  /\ proc.stage = "saved" =>
       LET n == Len(file.transactions) IN
       /\ n > 0 /\ file.transactions[n].id = proc.id /\ file.transactions[n].label = StepLabel
       /\ file.transactions[n].status = "SUBMITTED" /\ Submitted \subseteq {n}
  /\ proc.mode = "run" =>
       \A i \in DOMAIN file.transactions :
         \E k \in 1..3 : /\ file.transactions[i].label = Route("run")[k]
                         /\ k < proc.step \/ (k = proc.step /\ proc.stage \in {"saved", "mined"})
  /\ proc.mode = "recover" /\ proc.stage # "reconcile" => resolved
  /\ proc.mode = "signal" /\ proc.stage # "reconcile" => file.phase \in {"ENROLLED_WAITING_SIGNAL", "SIGNAL_ANCHORED"}
  /\ final <= Len(ledger)

\* The order of the chain, of the script and of its file, whatever is reorganised.
ScriptOrder == ChainTyped /\ OneCopy /\ InOrder /\ ProcOrder /\ FileOrder

\* The steps of the three commands.
LEMMA RouteFacts ==
  /\ DOMAIN Route("run") = 1..3 /\ Len(Route("run")) = 3
  /\ Route("run")[1] = "create-vault" /\ Route("run")[2] = "deposit" /\ Route("run")[3] = "enroll"
  /\ DOMAIN Route("signal") = 1..4 /\ Len(Route("signal")) = 4
  /\ Route("signal")[1] = "anchor-signal" /\ Route("signal")[2] = "native-execute"
  /\ Route("signal")[3] = "revoke" /\ Route("signal")[4] = "withdraw-unused"
  /\ DOMAIN Route("recover") = 1..2 /\ Len(Route("recover")) = 2
  /\ Route("recover")[1] = "recover" /\ Route("recover")[2] = "withdraw"
BY DEF Route

\* The transactions of the three commands.
LEMMA LabelFacts ==
  Labels = {"create-vault", "deposit", "enroll", "anchor-signal", "native-execute", "revoke",
            "withdraw-unused", "recover", "withdraw"}
<1>1. ToSet(Route("run")) = {"create-vault", "deposit", "enroll"}
  BY RouteFacts DEF ToSet
<1>2. ToSet(Route("signal")) = {"anchor-signal", "native-execute", "revoke", "withdraw-unused"}
  BY RouteFacts DEF ToSet
<1>3. ToSet(Route("recover")) = {"recover", "withdraw"}
  BY RouteFacts DEF ToSet
<1>4. Labels = ToSet(Route("run")) \cup ToSet(Route("signal")) \cup ToSet(Route("recover"))
  BY DEF Labels
<1> QED
  BY <1>1, <1>2, <1>3, <1>4

\* Where a running script is.
StepAt(mode, step, label) == proc.mode = mode /\ proc.step = step /\ StepLabel = label

\* A running script is at one step of its command, and sends the transaction of that step.
LEMMA StepCases ==
  ASSUME ProcOrder, proc # Off
  PROVE  /\ \/ StepAt("run", 1, "create-vault") \/ StepAt("run", 2, "deposit") \/ StepAt("run", 3, "enroll")
            \/ StepAt("signal", 1, "anchor-signal") \/ StepAt("signal", 2, "native-execute")
            \/ StepAt("signal", 3, "revoke") \/ StepAt("signal", 4, "withdraw-unused")
            \/ StepAt("recover", 1, "recover") \/ StepAt("recover", 2, "withdraw")
         /\ StepLabel \in Labels
<1>1. proc.mode \in {"run", "signal", "recover"} /\ proc.step \in DOMAIN Route(proc.mode)
  BY DEF ProcOrder, ProcType
<1>2. CASE proc.mode = "run"
  BY <1>1, <1>2, RouteFacts, LabelFacts DEF StepAt, StepLabel
<1>3. CASE proc.mode = "signal"
  BY <1>1, <1>3, RouteFacts, LabelFacts DEF StepAt, StepLabel
<1>4. CASE proc.mode = "recover"
  BY <1>1, <1>4, RouteFacts, LabelFacts DEF StepAt, StepLabel
<1> QED
  BY <1>1, <1>2, <1>3, <1>4

\* After its last step a command is over, after every other one comes the next.
LEMMA NextStepCases ==
  ASSUME ProcOrder, proc # Off
  PROVE  \/ NextStep = Off
         \/ /\ NextStep \in ProcType /\ NextStep.mode = proc.mode /\ NextStep.step = proc.step + 1
            /\ NextStep.stage = "ready" /\ NextStep.step \in DOMAIN Route(NextStep.mode)
<1>1. /\ proc \in ProcType /\ proc.mode \in {"run", "signal", "recover"} /\ proc.step \in Nat
      /\ proc.step \in DOMAIN Route(proc.mode)
  BY DEF ProcOrder, ProcType
<1>2. proc.step # Len(Route(proc.mode)) => proc.step + 1 \in DOMAIN Route(proc.mode)
  <2>1. CASE proc.mode = "run"
    <3>1. Len(Route(proc.mode)) = 3 /\ DOMAIN Route(proc.mode) = 1..3
      BY <2>1, RouteFacts
    <3> QED
      BY <1>1, <3>1
  <2>2. CASE proc.mode = "signal"
    <3>1. Len(Route(proc.mode)) = 4 /\ DOMAIN Route(proc.mode) = 1..4
      BY <2>2, RouteFacts
    <3> QED
      BY <1>1, <3>1
  <2>3. CASE proc.mode = "recover"
    <3>1. Len(Route(proc.mode)) = 2 /\ DOMAIN Route(proc.mode) = 1..2
      BY <2>3, RouteFacts
    <3> QED
      BY <1>1, <3>1
  <2> QED
    BY <1>1, <2>1, <2>2, <2>3
<1>3. ASSUME proc.step # Len(Route(proc.mode))
      PROVE  /\ NextStep.mode = proc.mode /\ NextStep.step = proc.step + 1 /\ NextStep.stage = "ready"
             /\ NextStep \in ProcType
  <2>1. NextStep = [Off EXCEPT !.mode = proc.mode, !.step = proc.step + 1]
    BY <1>3 DEF NextStep
  <2>2. proc.step + 1 \in Nat
    BY <1>1
  <2> QED
    BY <1>1, <2>1, <2>2 DEF ProcType, Off
<1> QED
  BY <1>2, <1>3 DEF NextStep

\* Off is a state of its own.
LEMMA OffFacts == Off \in ProcType /\ Off.mode = "off" /\ Off.stage = "ready" /\ Off.step = 0 /\ Off.id = 0
BY DEF Off, ProcType

\* Before the first command there is no file and nothing was sent.
LEMMA ScriptInitOrder == ScriptInit => ScriptOrder
<1> SUFFICES ASSUME ScriptInit PROVE ScriptOrder
  OBVIOUS
<1>1. /\ file.phase = "none" /\ file.transactions = <<>> /\ proc = Off /\ mempool = <<>> /\ ledger = <<>>
      /\ final = 0 /\ resolved = FALSE /\ sends = 0 /\ reorgs = 0
  BY DEF ScriptInit
<1>2. DOMAIN ledger = {} /\ DOMAIN mempool = {} /\ DOMAIN file.transactions = {} /\ Len(ledger) = 0
  BY <1>1
<1>3. ledger \in Seq(ResultType) /\ mempool \in Seq(SentType) /\ file.transactions \in Seq(EntryType)
  BY <1>1
<1>4. ChainTyped
  BY <1>1, <1>3 DEF ChainTyped
<1>5. OneCopy /\ InOrder
  BY <1>2 DEF OneCopy, InOrder
<1>6. ProcOrder
  BY <1>1, OffFacts DEF ProcOrder
<1>7. FileOrder
  <2>1. file \in [phase : Phases, transactions : Seq(EntryType)]
    BY <1>3 DEF ScriptInit, Phases
  <2> QED
    BY <1>1, <1>2, <2>1, OffFacts DEF FileOrder
<1> QED
  BY <1>4, <1>5, <1>6, <1>7 DEF ScriptOrder

-----------------------------------------------------------------------------
(* The operator's script: the chain                                         *)

\* Every transaction of the next state is one of this state.
Carried ==
  /\ \A i \in DOMAIN ledger' : ledger'[i].id = 0
       \/ (\E j \in DOMAIN ledger : ledger[j].id = ledger'[i].id /\ ledger[j].label = ledger'[i].label)
       \/ (\E j \in DOMAIN mempool : mempool[j].id = ledger'[i].id /\ mempool[j].label = ledger'[i].label)
  /\ \A i \in DOMAIN mempool' :
       \/ (\E j \in DOMAIN ledger : ledger[j].id = mempool'[i].id /\ ledger[j].label = mempool'[i].label)
       \/ (\E j \in DOMAIN mempool : mempool[j].id = mempool'[i].id /\ mempool[j].label = mempool'[i].label)
  /\ sends' = sends

\* Named, in the next state.
NamedNext(id, label) ==
  /\ 0 < id /\ id <= sends'
  /\ \A i \in DOMAIN ledger' : ledger'[i].id = id => ledger'[i].label = label
  /\ \A i \in DOMAIN mempool' : mempool'[i].id = id => mempool'[i].label = label

\* What names a transaction keeps naming it wherever the chain moves it.
LEMMA NamedCarried ==
  ASSUME Carried, NEW id, NEW label, Named(id, label)
  PROVE  NamedNext(id, label)
<1>1. id # 0
  BY DEF Named
<1> QED
  BY <1>1 DEF Carried, Named, NamedNext

\* What the chain does by itself leaves the script's order as it was.
LEMMA ChainKeepsFile ==
  ASSUME ScriptOrder, Carried, UNCHANGED <<file, proc>>, resolved \in BOOLEAN, resolved => resolved',
         (final <= Len(ledger))'
  PROVE  ProcOrder' /\ FileOrder'
<1>1. ProcOrder /\ FileOrder
  BY DEF ScriptOrder
<1>2. ProcOrder'
  <2>1. proc.stage \in {"sent", "saved"} => NamedNext(proc.id, StepLabel)
    BY <1>1, NamedCarried DEF ProcOrder
  <2>2. (proc.stage \in {"sent", "saved"} => Named(proc.id, StepLabel))'
    BY <2>1 DEF Named, NamedNext, StepLabel
  <2> QED
    BY <1>1, <2>2 DEF ProcOrder
<1>3. FileOrder'
  <2>1. \A i \in DOMAIN file.transactions : NamedNext(file.transactions[i].id, file.transactions[i].label)
    BY <1>1, NamedCarried DEF FileOrder
  <2>2. (\A i \in DOMAIN file.transactions : Named(file.transactions[i].id, file.transactions[i].label))'
    BY <2>1 DEF Named, NamedNext
  <2>3. Submitted' = Submitted /\ StepLabel' = StepLabel
    BY DEF Submitted, StepLabel
  <2> QED
    BY <1>1, <2>2, <2>3 DEF FileOrder
<1> QED
  BY <1>2, <1>3

\* What has happened on the chain, by position.
LEMMA HasBefore ==
  ASSUME ledger \in Seq(ResultType), NEW label, Has(label), NEW i, i = Len(ledger) + 1
  PROVE  \E j \in 1..Len(ledger) : j < i /\ ledger[j].label = label /\ ledger[j].ok
BY LenProperties DEF Has

\* A new block at the head of the ledger; only money from outside makes the vault richer.
Grows(r) ==
  /\ ledger' = Append(ledger, r) /\ r \in ResultType
  /\ r.ok => Effective(r.label, r.amount)
  /\ r.cash > Cash => r.ok /\ r.label \in {"deposit", "transfer", "recover"}
  /\ r.ok /\ r.label = "transfer" => r.cash > 0

\* The ledger with one block more.
LEMMA GrowsShape ==
  ASSUME ledger \in Seq(ResultType), NEW r, Grows(r)
  PROVE  /\ Len(ledger) \in Nat /\ Len(ledger') = Len(ledger) + 1
         /\ DOMAIN ledger = 1..Len(ledger) /\ DOMAIN ledger' = 1..(Len(ledger) + 1)
         /\ \A i \in 1..Len(ledger) : ledger'[i] = ledger[i]
         /\ ledger'[Len(ledger) + 1] = r
         /\ ledger' \in Seq(ResultType)
BY AppendProperties, LenProperties DEF Grows

\* What a transaction that succeeds presupposes.
LEMMA EffectiveNeeds ==
  ASSUME NEW label, NEW amount, Effective(label, amount)
  PROVE  /\ label = "deposit" => Has("create-vault")
         /\ label = "enroll" => Has("create-vault") /\ ~Has("enroll")
         /\ label = "anchor-signal" => Has("enroll")
         /\ label = "native-execute" => Has("anchor-signal") /\ ~resolved /\ Cash > 0
         /\ label = "recover" => Position /\ resolved
         /\ label \in Withdrawals => amount <= Cash
BY DEF Effective, Withdrawals

\* Before, in the next state.
BeforeNext(i, label) == \E j \in DOMAIN ledger' : j < i /\ ledger'[j].label = label /\ ledger'[j].ok

\* A block whose transaction found its precondition met keeps the ledger in order.
LEMMA GrowsInOrder ==
  ASSUME ChainTyped, InOrder, NEW r, Grows(r)
  PROVE  InOrder'
<1> DEFINE n == Len(ledger)
<1>1. /\ n \in Nat /\ DOMAIN ledger = 1..n /\ DOMAIN ledger' = 1..(n + 1)
      /\ \A i \in 1..n : ledger'[i] = ledger[i]
      /\ ledger'[n + 1] = r
  BY GrowsShape DEF ChainTyped
<1>2. \A i \in 1..n : \A label : Before(i, label) => BeforeNext(i, label)
  BY <1>1 DEF Before, BeforeNext
<1>3. \A label : Has(label) => BeforeNext(n + 1, label)
  BY <1>1 DEF BeforeNext, Has
<1> HIDE DEF n
<1>5. r.ok => /\ r.label = "deposit" => Has("create-vault")
              /\ r.label = "enroll" => Has("create-vault")
              /\ r.label = "anchor-signal" => Has("enroll")
              /\ r.label = "native-execute" => Has("anchor-signal")
              /\ r.label = "recover" => Has("native-execute")
  <2>1. Position => Has("native-execute")
    BY DEF Position, Filled, Has
  <2> QED
    BY <2>1, EffectiveNeeds DEF Grows
<1>6. ASSUME NEW i \in 1..(n + 1), ledger'[i].ok
      PROVE  /\ ledger'[i].label = "deposit" => BeforeNext(i, "create-vault")
             /\ ledger'[i].label = "enroll" => BeforeNext(i, "create-vault")
             /\ ledger'[i].label = "anchor-signal" => BeforeNext(i, "enroll")
             /\ ledger'[i].label = "native-execute" => BeforeNext(i, "anchor-signal")
             /\ ledger'[i].label = "recover" => BeforeNext(i, "native-execute")
  <2>1. CASE i \in 1..n
    <3>1. ledger'[i] = ledger[i] /\ i \in DOMAIN ledger
      BY <1>1, <2>1
    <3> QED
      BY <1>2, <1>6, <2>1, <3>1 DEF InOrder
  <2>2. CASE i = n + 1
    BY <1>1, <1>3, <1>5, <1>6, <2>2
  <2> QED
    BY <1>1, <2>1, <2>2
<1> QED
  BY <1>1, <1>6 DEF InOrder, Before, BeforeNext

\* The balance is a number.
LEMMA CashType ==
  ASSUME ledger \in Seq(ResultType)
  PROVE  Cash \in Nat /\ (ledger # <<>> => Len(ledger) \in DOMAIN ledger /\ Cash = ledger[Len(ledger)].cash)
<1>1. Len(ledger) \in Nat /\ DOMAIN ledger = 1..Len(ledger) /\ (ledger # <<>> => Len(ledger) # 0)
  BY EmptySeq, LenProperties
<1>2. CASE ledger = <<>>
  BY <1>2 DEF Cash
<1>3. CASE ledger # <<>>
  <2>1. Len(ledger) \in 1..Len(ledger)
    BY <1>1, <1>3
  <2>2. ledger[Len(ledger)] \in ResultType
    BY <2>1, ElementOfSeq
  <2> QED
    BY <1>1, <1>3, <2>1, <2>2 DEF Cash, Last, ResultType
<1> QED
  BY <1>2, <1>3

\* A transaction that fails leaves the balance, one that succeeds was possible.
LEMMA ResultFacts ==
  ASSUME ChainTyped, NEW t, t.id \in Nat, t.label \in Kinds, t.amount \in Nat,
         NEW r, r = Failure(t) \/ (Effective(t.label, t.amount) /\ r \in Success(t)),
         ledger' = Append(ledger, r)
  PROVE  Grows(r) /\ r.id = t.id /\ r.label = t.label
<1>1. Cash \in Nat
  BY CashType DEF ChainTyped
<1>2. CASE r = Failure(t)
  BY <1>1, <1>2 DEF Failure, Grows, ResultType
<1>3. CASE Effective(t.label, t.amount) /\ r \in Success(t)
  <2>1. PICK fill \in BOOLEAN :
               /\ t.label # "native-execute" => ~fill
               /\ r \in [id : {t.id}, label : {t.label}, amount : {t.amount}, ok : {TRUE}, fill : {fill},
                         cash : CashAfter(t.label, fill, t.amount)]
    BY <1>3 DEF Success
  <2>2. /\ r.id = t.id /\ r.label = t.label /\ r.amount = t.amount /\ r.ok = TRUE /\ r.fill = fill
        /\ r.cash \in CashAfter(t.label, fill, t.amount)
        /\ r = [id |-> r.id, label |-> r.label, amount |-> r.amount, ok |-> r.ok, fill |-> r.fill,
                cash |-> r.cash]
    BY <2>1, Zenon
  <2>3. /\ t.label = "native-execute" => Cash > 0
        /\ t.label \in Withdrawals => t.amount <= Cash
    BY <1>3, EffectiveNeeds
  <2>4. /\ r.cash \in Nat /\ (r.cash > Cash => t.label \in {"deposit", "transfer", "recover"})
        /\ t.label = "transfer" => r.cash > 0
    BY <1>1, <2>2, <2>3 DEF CashAfter, Withdrawals
  <2>5. r \in ResultType
    BY <2>2, <2>4 DEF ResultType
  <2> QED
    BY <1>3, <2>2, <2>4, <2>5 DEF Grows
<1> QED
  BY <1>2, <1>3

\* The first waiting transaction is mined.
LEMMA MineShape ==
  ASSUME ChainTyped, Mine
  PROVE  /\ \E r : Grows(r) /\ r.id = mempool[1].id /\ r.label = mempool[1].label
         /\ Len(mempool) \in Nat /\ 1 <= Len(mempool) /\ Len(mempool') = Len(mempool) - 1
         /\ DOMAIN mempool = 1..Len(mempool) /\ DOMAIN mempool' = 1..(Len(mempool) - 1)
         /\ \A i \in 1..(Len(mempool) - 1) : mempool'[i] = mempool[i + 1]
         /\ mempool' \in Seq(SentType)
<1>1. mempool \in Seq(SentType) /\ mempool # <<>> /\ mempool' = Tail(mempool)
  BY DEF ChainTyped, Mine
<1>2. Len(mempool) \in Nat /\ 1 <= Len(mempool) /\ DOMAIN mempool = 1..Len(mempool)
  BY <1>1, EmptySeq, LenProperties
<1>3. Head(mempool) = mempool[1] /\ mempool[1] \in SentType
  BY <1>1, <1>2, HeadTailProperties
<1>4. /\ mempool' \in Seq(SentType) /\ Len(mempool') = Len(mempool) - 1
      /\ \A i \in 1..Len(mempool') : mempool'[i] = mempool[i + 1]
  BY <1>1, HeadTailProperties
<1>5. DOMAIN mempool' = 1..Len(mempool')
  BY <1>4, LenProperties
<1>6. PICK r \in Result(mempool[1]) : ledger' = Append(ledger, r)
  BY <1>3 DEF Mine
<1>7. mempool[1].id \in Nat /\ mempool[1].label \in Kinds /\ mempool[1].amount \in Nat
  BY <1>3 DEF SentType
<1>8. Grows(r) /\ r.id = mempool[1].id /\ r.label = mempool[1].label
  BY <1>6, <1>7, ResultFacts DEF Result
<1> QED
  BY <1>2, <1>4, <1>5, <1>8

\* A mined transaction keeps its id and its label.
LEMMA MineKeepsOrder == ScriptOrder /\ Mine => ScriptOrder' /\ Carried
<1> SUFFICES ASSUME ScriptOrder, Mine PROVE ScriptOrder' /\ Carried
  OBVIOUS
<1> DEFINE n == Len(ledger)
           m == Len(mempool)
<1>1. ChainTyped /\ OneCopy /\ InOrder
  BY DEF ScriptOrder
<1>2. PICK r : Grows(r) /\ r.id = mempool[1].id /\ r.label = mempool[1].label
  BY <1>1, MineShape
<1>3. /\ n \in Nat /\ DOMAIN ledger = 1..n /\ DOMAIN ledger' = 1..(n + 1) /\ Len(ledger') = n + 1
      /\ \A i \in 1..n : ledger'[i] = ledger[i]
      /\ ledger'[n + 1] = r /\ ledger' \in Seq(ResultType)
  BY <1>1, <1>2, GrowsShape DEF ChainTyped
<1>4. /\ m \in Nat /\ 1 <= m /\ DOMAIN mempool = 1..m /\ DOMAIN mempool' = 1..(m - 1)
      /\ \A i \in 1..(m - 1) : mempool'[i] = mempool[i + 1]
      /\ mempool' \in Seq(SentType)
  BY <1>1, MineShape
<1>5. UNCHANGED <<file, proc, final, resolved, sends, reorgs>>
  BY DEF Mine
<1>6. 1 \in 1..m /\ \A i \in 1..(m - 1) : i + 1 \in 1..m /\ i + 1 # 1
  BY <1>4
<1> HIDE DEF n, m
<1>7. ChainTyped'
  BY <1>1, <1>3, <1>4, <1>5 DEF ChainTyped
<1>8. \A i \in 1..(n + 1) : i \in 1..n \/ i = n + 1
  BY <1>3
<1>9. OneCopy'
  <2>1. /\ \A i \in 1..n : ledger[i].id <= sends /\ ledger[i].id # mempool[1].id
        /\ 0 < mempool[1].id /\ mempool[1].id <= sends
        /\ \A i, j \in 1..n : ledger[i].id = ledger[j].id /\ ledger[i].id # 0 => i = j
        /\ \A i \in 1..m : 0 < mempool[i].id /\ mempool[i].id <= sends
        /\ \A i, j \in 1..m : mempool[i].id = mempool[j].id => i = j
        /\ \A i \in 1..n, j \in 1..m : ledger[i].id # mempool[j].id
    BY <1>1, <1>3, <1>4, <1>6 DEF OneCopy
  <2>2. \A i \in 1..(n + 1) : ledger'[i].id <= sends
    BY <1>2, <1>3, <1>8, <2>1
  <2>3. \A i, j \in 1..(n + 1) : ledger'[i].id = ledger'[j].id /\ ledger'[i].id # 0 => i = j
    BY <1>2, <1>3, <1>8, <2>1
  <2>4. \A i \in 1..(m - 1) : 0 < mempool'[i].id /\ mempool'[i].id <= sends
    BY <1>4, <1>6, <2>1
  <2>5. \A i, j \in 1..(m - 1) : mempool'[i].id = mempool'[j].id => i = j
    BY <1>4, <1>6, <2>1
  <2>6. \A i \in 1..(n + 1), j \in 1..(m - 1) : ledger'[i].id # mempool'[j].id
    BY <1>2, <1>3, <1>4, <1>6, <1>8, <2>1
  <2> QED
    BY <1>3, <1>4, <1>5, <2>2, <2>3, <2>4, <2>5, <2>6 DEF OneCopy
<1>11. Carried
  BY <1>2, <1>3, <1>4, <1>5, <1>6, <1>8 DEF Carried
<1>13. (final <= Len(ledger))' /\ resolved \in BOOLEAN
  BY <1>1, <1>3, <1>5 DEF n, ScriptOrder, FileOrder, ChainTyped
<1>14. ProcOrder' /\ FileOrder'
  BY <1>5, <1>11, <1>13, ChainKeepsFile
<1>15. InOrder'
  BY <1>1, <1>2, GrowsInOrder
<1> QED
  BY <1>7, <1>9, <1>11, <1>14, <1>15 DEF ScriptOrder

\* Others execute, recover and transfer; their transactions are not the script's.
LEMMA OthersShape ==
  ASSUME ChainTyped, NEW label \in {"native-execute", "recover", "transfer"}, Others(label)
  PROVE  \E r : Grows(r) /\ r.id = 0 /\ r.label = label /\ r.ok
<1> DEFINE t == [id |-> 0, label |-> label, amount |-> 0]
<1>1. PICK r \in Success(t) : ledger' = Append(ledger, r)
  BY DEF Others
<1>3. r.ok
  <2>1. PICK fill \in BOOLEAN :
               r \in [id : {t.id}, label : {t.label}, amount : {t.amount}, ok : {TRUE}, fill : {fill},
                      cash : CashAfter(t.label, fill, t.amount)]
    BY <1>1 DEF Success
  <2> QED
    BY <2>1
<1>2. t.id = 0 /\ t.label = label /\ t.amount = 0 /\ label \in Kinds /\ Effective(label, 0)
  BY LabelFacts DEF Others, Kinds
<1> HIDE DEF t
<1> QED
  BY <1>1, <1>2, <1>3, ResultFacts

\* A transaction of somebody else takes no id.
LEMMA OthersKeepsOrder ==
  ASSUME ScriptOrder, NEW label \in {"native-execute", "recover", "transfer"}, Others(label)
  PROVE  ScriptOrder' /\ Carried
<1> DEFINE n == Len(ledger)
<1>1. ChainTyped /\ OneCopy /\ InOrder
  BY DEF ScriptOrder
<1>2. PICK r : Grows(r) /\ r.id = 0 /\ r.label = label
  BY <1>1, OthersShape
<1>3. /\ n \in Nat /\ DOMAIN ledger = 1..n /\ DOMAIN ledger' = 1..(n + 1) /\ Len(ledger') = n + 1
      /\ \A i \in 1..n : ledger'[i] = ledger[i]
      /\ ledger'[n + 1] = r /\ ledger' \in Seq(ResultType)
  BY <1>1, <1>2, GrowsShape DEF ChainTyped
<1>4. UNCHANGED <<file, proc, mempool, final, resolved, sends, reorgs>>
  BY DEF Others
<1> HIDE DEF n
<1>5. \A i \in 1..(n + 1) : i \in 1..n \/ i = n + 1
  BY <1>3
<1>6. ChainTyped'
  BY <1>1, <1>3, <1>4 DEF ChainTyped
<1>7. OneCopy'
  <2>1. 0 <= sends
    BY <1>1 DEF ChainTyped
  <2>2. \A i \in 1..(n + 1) : ledger'[i].id <= sends
    BY <1>1, <1>2, <1>3, <1>5, <2>1 DEF OneCopy
  <2>3. \A i, j \in 1..(n + 1) : ledger'[i].id = ledger'[j].id /\ ledger'[i].id # 0 => i = j
    BY <1>1, <1>2, <1>3, <1>5 DEF OneCopy
  <2>4. \A j \in DOMAIN mempool : mempool[j].id # 0
    BY <1>1 DEF OneCopy
  <2>5. \A i \in 1..(n + 1), j \in DOMAIN mempool : ledger'[i].id # mempool[j].id
    BY <1>1, <1>2, <1>3, <1>5, <2>4 DEF OneCopy
  <2> QED
    BY <1>1, <1>3, <1>4, <2>2, <2>3, <2>5 DEF OneCopy
<1>9. Carried
  BY <1>2, <1>3, <1>4, <1>5 DEF Carried
<1>10. (final <= Len(ledger))' /\ resolved \in BOOLEAN
  BY <1>1, <1>3, <1>4 DEF n, ScriptOrder, FileOrder, ChainTyped
<1>11. ProcOrder' /\ FileOrder'
  BY <1>4, <1>9, <1>10, ChainKeepsFile
<1>12. InOrder'
  BY <1>1, <1>2, GrowsInOrder
<1> QED
  BY <1>6, <1>7, <1>9, <1>11, <1>12 DEF ScriptOrder

\* A confirmation, an outcome of the market and a report change no transaction.
LEMMA ConfirmKeepsOrder == ScriptOrder /\ (Confirm \/ Resolve \/ Report) => ScriptOrder' /\ Carried
<1> SUFFICES ASSUME ScriptOrder, Confirm \/ Resolve \/ Report PROVE ScriptOrder' /\ Carried
  OBVIOUS
<1>1. /\ UNCHANGED <<file, proc, mempool, ledger, sends, reorgs>>
      /\ resolved' = resolved \/ resolved' = TRUE
      /\ final' = final \/ (final < Len(ledger) /\ final' = final + 1)
  BY DEF Confirm, Resolve, Report
<1>2. ChainTyped /\ OneCopy /\ InOrder /\ final <= Len(ledger)
  BY DEF ScriptOrder, FileOrder
<1>3. Len(ledger) \in Nat /\ final \in Nat /\ resolved \in BOOLEAN
  BY <1>2, LenProperties DEF ChainTyped
<1>4. ChainTyped'
  <2>1. final' \in Nat
    BY <1>1, <1>3
  <2>2. resolved' \in BOOLEAN
    BY <1>1, <1>3, Zenon
  <2> QED
    BY <1>1, <1>2, <2>1, <2>2 DEF ChainTyped
<1>5. OneCopy'
  BY <1>1, <1>2 DEF OneCopy
<1>6. InOrder'
  BY <1>1, <1>2 DEF InOrder, Before
<1>7. Carried
  BY <1>1 DEF Carried
<1>8. (final <= Len(ledger))' /\ (resolved => resolved')
  BY <1>1, <1>2, <1>3
<1>9. ProcOrder' /\ FileOrder'
  BY <1>1, <1>3, <1>7, <1>8, ChainKeepsFile
<1> QED
  BY <1>4, <1>5, <1>6, <1>7, <1>9 DEF ScriptOrder

\* A replaced block puts its transaction back to where it came from.
LEMMA ReorgShape ==
  ASSUME ScriptOrder, Reorg
  PROVE  LET n == Len(ledger)
             m == Len(mempool) IN
         /\ n \in Nat /\ m \in Nat /\ DOMAIN ledger = 1..n /\ DOMAIN mempool = 1..m /\ final \in Nat
         /\ final < n /\ reorgs' = reorgs + 1 /\ UNCHANGED <<file, proc, final, resolved, reported, sends>>
         /\ 1 <= n /\ ledger' \in Seq(ResultType) /\ Len(ledger') = n - 1 /\ DOMAIN ledger' = 1..(n - 1)
         /\ n \in 1..n /\ \A i \in 1..(n - 1) : i \in 1..n /\ i # n /\ ledger'[i] = ledger[i]
         /\ \E back \in SentType :
              /\ back.id = ledger[n].id /\ back.label = ledger[n].label
              /\ \/ ledger[n].id = 0 /\ mempool' = mempool
                 \/ /\ ledger[n].id # 0 /\ mempool' \in Seq(SentType) /\ DOMAIN mempool' = 1..(m + 1)
                    /\ mempool'[1] = back
                    /\ \A i \in 1..m : mempool'[i + 1] = mempool[i]
                    /\ \A i \in 2..(m + 1) : i - 1 \in 1..m /\ mempool'[i] = mempool[i - 1]
<1> DEFINE n == Len(ledger)
           m == Len(mempool)
           back == [id |-> ledger[n].id, label |-> ledger[n].label, amount |-> ledger[n].amount]
<1>1. ChainTyped /\ OneCopy /\ InOrder
  BY DEF ScriptOrder
<1>2. /\ final < n /\ ledger' = Front(ledger) /\ reorgs' = reorgs + 1
      /\ mempool' = IF ledger[n].id = 0 THEN mempool ELSE <<back>> \o mempool
      /\ UNCHANGED <<file, proc, final, resolved, reported, sends>>
  BY DEF Reorg, Last
<1>3. /\ n \in Nat /\ m \in Nat /\ DOMAIN ledger = 1..n /\ DOMAIN mempool = 1..m /\ final \in Nat
      /\ ledger \in Seq(ResultType) /\ mempool \in Seq(SentType)
  BY <1>1, LenProperties DEF ChainTyped
<1>4. /\ 1 <= n /\ ledger' \in Seq(ResultType) /\ Len(ledger') = n - 1 /\ DOMAIN ledger' = 1..(n - 1)
      /\ \A i \in 1..(n - 1) : ledger'[i] = ledger[i]
  <2>1. 1 <= n
    BY <1>2, <1>3
  <2>2. ledger' = SubSeq(ledger, 1, n - 1)
    BY <1>2 DEF Front
  <2> HIDE DEF n
  <2>3. 1 \in 1..(n + 1) /\ n - 1 \in (1 - 1)..n
    BY <1>3, <2>1
  <2>4. /\ ledger' \in Seq(ResultType) /\ Len(ledger') = n - 1
        /\ \A i \in 1..(n - 1) : ledger'[i] = ledger[i]
    BY <1>3, <2>1, <2>2, <2>3, SubSeqProperties DEF n
  <2>5. DOMAIN ledger' = 1..Len(ledger')
    BY <2>4, LenProperties
  <2> QED
    BY <2>1, <2>4, <2>5
<1>5. n \in 1..n /\ \A i \in 1..(n - 1) : i \in 1..n /\ i # n
  <2>1. n \in Nat /\ 1 <= n
    BY <1>3, <1>4
  <2> HIDE DEF n
  <2> QED
    BY <2>1
<1>6. back \in SentType /\ back.id = ledger[n].id /\ back.label = ledger[n].label
  <2>1. ledger[n] \in ResultType
    BY <1>3, <1>5, ElementOfSeq
  <2> QED
    BY <2>1 DEF ResultType, SentType
<1> HIDE DEF back
<1>7. \/ ledger[n].id = 0 /\ mempool' = mempool
      \/ /\ ledger[n].id # 0 /\ mempool' \in Seq(SentType) /\ DOMAIN mempool' = 1..(m + 1) /\ mempool'[1] = back
         /\ \A i \in 1..m : mempool'[i + 1] = mempool[i]
         /\ \A i \in 2..(m + 1) : i - 1 \in 1..m /\ mempool'[i] = mempool[i - 1]
  <2> SUFFICES ASSUME ledger[n].id # 0
               PROVE  /\ mempool' \in Seq(SentType) /\ DOMAIN mempool' = 1..(m + 1) /\ mempool'[1] = back
                      /\ \A i \in 1..m : mempool'[i + 1] = mempool[i]
                      /\ \A i \in 2..(m + 1) : i - 1 \in 1..m /\ mempool'[i] = mempool[i - 1]
    BY <1>2
  <2>1. mempool' = <<back>> \o mempool
    BY <1>2
  <2>2. <<back>> \in Seq(SentType) /\ Len(<<back>>) = 1 /\ <<back>>[1] = back
    BY <1>6
  <2>3. /\ mempool' \in Seq(SentType) /\ Len(mempool') = 1 + m
        /\ \A i \in 1..(1 + m) : mempool'[i] = IF i <= 1 THEN <<back>>[i] ELSE mempool[i - 1]
    BY <1>3, <2>1, <2>2, ConcatProperties
  <2>4. DOMAIN mempool' = 1..(m + 1)
    BY <1>3, <2>3, LenProperties
  <2> HIDE DEF m
  <2>5. \A i \in 1..m : i + 1 \in 1..(1 + m) /\ ~(i + 1 <= 1) /\ (i + 1) - 1 = i
    BY <1>3
  <2>6. \A i \in 2..(m + 1) : i \in 1..(1 + m) /\ ~(i <= 1) /\ i - 1 \in 1..m
    BY <1>3
  <2>7. 1 \in 1..(1 + m)
    BY <1>3
  <2>8. mempool'[1] = back
    BY <2>2, <2>3, <2>7
  <2>9. \A i \in 1..m : mempool'[i + 1] = mempool[i]
    BY <2>3, <2>5
  <2>10. \A i \in 2..(m + 1) : mempool'[i] = mempool[i - 1]
    BY <2>3, <2>6
  <2> QED
    BY <2>3, <2>4, <2>6, <2>8, <2>9, <2>10
<1> HIDE DEF n, m
<1>8. \E b \in SentType :
        /\ b.id = ledger[n].id /\ b.label = ledger[n].label
        /\ \/ ledger[n].id = 0 /\ mempool' = mempool
           \/ /\ ledger[n].id # 0 /\ mempool' \in Seq(SentType) /\ DOMAIN mempool' = 1..(m + 1)
              /\ mempool'[1] = b
              /\ \A i \in 1..m : mempool'[i + 1] = mempool[i]
              /\ \A i \in 2..(m + 1) : i - 1 \in 1..m /\ mempool'[i] = mempool[i - 1]
  BY <1>6, <1>7
<1> QED
  BY <1>2, <1>3, <1>4, <1>5, <1>8 DEF n, m

\* The transaction of a replaced block waits again, and everything before it stands.
LEMMA ReorgKeepsOrder == ScriptOrder /\ Reorg => ScriptOrder'
<1> SUFFICES ASSUME ScriptOrder, Reorg PROVE ScriptOrder'
  OBVIOUS
<1> DEFINE n == Len(ledger)
           m == Len(mempool)
<1>1. ChainTyped /\ OneCopy /\ InOrder
  BY DEF ScriptOrder
<1>3. /\ n \in Nat /\ m \in Nat /\ DOMAIN ledger = 1..n /\ DOMAIN mempool = 1..m /\ final \in Nat
      /\ final < n /\ reorgs' = reorgs + 1 /\ UNCHANGED <<file, proc, final, resolved, sends>>
      /\ 1 <= n /\ ledger' \in Seq(ResultType) /\ Len(ledger') = n - 1 /\ DOMAIN ledger' = 1..(n - 1)
      /\ n \in 1..n /\ \A i \in 1..(n - 1) : i \in 1..n /\ i # n /\ ledger'[i] = ledger[i]
  BY ReorgShape
<1>6. PICK back \in SentType :
        /\ back.id = ledger[n].id /\ back.label = ledger[n].label
        /\ \/ ledger[n].id = 0 /\ mempool' = mempool
           \/ /\ ledger[n].id # 0 /\ mempool' \in Seq(SentType) /\ DOMAIN mempool' = 1..(m + 1)
              /\ mempool'[1] = back
              /\ \A i \in 1..m : mempool'[i + 1] = mempool[i]
              /\ \A i \in 2..(m + 1) : i - 1 \in 1..m /\ mempool'[i] = mempool[i - 1]
  BY ReorgShape
<1> HIDE DEF n, m
<1>8. \A i \in 1..(m + 1) : i = 1 \/ i \in 2..(m + 1)
  BY <1>3
<1>9. ChainTyped'
  BY <1>1, <1>3, <1>6 DEF ChainTyped
<1>10. OneCopy'
  <2>1. /\ \A i \in 1..n : ledger[i].id <= sends
        /\ \A i, j \in 1..n : ledger[i].id = ledger[j].id /\ ledger[i].id # 0 => i = j
        /\ \A i \in 1..m : 0 < mempool[i].id /\ mempool[i].id <= sends
        /\ \A i, j \in 1..m : mempool[i].id = mempool[j].id => i = j
        /\ \A i \in 1..n, j \in 1..m : ledger[i].id # mempool[j].id
    BY <1>1, <1>3 DEF OneCopy
  <2>2. /\ \A i \in 1..(n - 1) : ledger'[i].id <= sends /\ (ledger[n].id # 0 => ledger'[i].id # ledger[n].id)
        /\ \A i, j \in 1..(n - 1) : ledger'[i].id = ledger'[j].id /\ ledger'[i].id # 0 => i = j
        /\ \A i \in 1..(n - 1), j \in 1..m : ledger'[i].id # mempool[j].id
    BY <1>3, <2>1
  <2>3. CASE ledger[n].id = 0 /\ mempool' = mempool
    BY <1>3, <2>1, <2>2, <2>3 DEF OneCopy
  <2>4. CASE ledger[n].id # 0
    <3>1. /\ DOMAIN mempool' = 1..(m + 1) /\ mempool'[1] = back
          /\ \A i \in 2..(m + 1) : i - 1 \in 1..m /\ mempool'[i] = mempool[i - 1]
      BY <1>6, <2>4
    <3>2. 0 < back.id /\ back.id <= sends
      <4>1. back.id \in Nat
        BY <1>6 DEF SentType
      <4> QED
        BY <1>3, <1>6, <2>1, <2>4, <4>1
    <3>3. \A i \in 1..(m + 1) : 0 < mempool'[i].id /\ mempool'[i].id <= sends
      BY <1>8, <2>1, <3>1, <3>2
    <3>4. \A i, j \in 2..(m + 1) : i - 1 = j - 1 => i = j
      BY <1>3
    <3>5. \A i \in 2..(m + 1) : mempool'[i].id # back.id
      BY <1>3, <1>6, <2>1, <3>1
    <3>6. \A i, j \in 1..(m + 1) : mempool'[i].id = mempool'[j].id => i = j
      BY <1>8, <2>1, <3>1, <3>4, <3>5
    <3>7. \A i \in 1..(n - 1), j \in 1..(m + 1) : ledger'[i].id # mempool'[j].id
      BY <1>6, <1>8, <2>2, <2>4, <3>1
    <3> QED
      BY <1>3, <2>2, <3>1, <3>3, <3>6, <3>7, ZenonT(40) DEF OneCopy
  <2> QED
    BY <1>6, <2>3, <2>4
<1>11. Carried
  <2>1. \A i \in DOMAIN ledger' : i \in DOMAIN ledger /\ ledger'[i] = ledger[i]
    BY <1>3
  <2>2. CASE mempool' = mempool
    BY <1>3, <2>1, <2>2 DEF Carried
  <2>3. CASE mempool' # mempool
    <3>1. /\ DOMAIN mempool' = 1..(m + 1) /\ mempool'[1] = back
          /\ \A i \in 2..(m + 1) : i - 1 \in DOMAIN mempool /\ mempool'[i] = mempool[i - 1]
      BY <1>3, <1>6, <2>3
    <3>2. n \in DOMAIN ledger
      BY <1>3
    <3>3. \A i \in DOMAIN mempool' :
             \/ (\E j \in DOMAIN ledger : ledger[j].id = mempool'[i].id /\ ledger[j].label = mempool'[i].label)
             \/ (\E j \in DOMAIN mempool : mempool[j].id = mempool'[i].id /\ mempool[j].label = mempool'[i].label)
      BY <1>6, <1>8, <3>1, <3>2
    <3> QED
      BY <1>3, <2>1, <3>3 DEF Carried
  <2> QED
    BY <2>2, <2>3
<1>13. InOrder'
  <2>1. \A i \in 1..(n - 1) : \A label : Before(i, label) => BeforeNext(i, label)
    <3> SUFFICES ASSUME NEW i \in 1..(n - 1), NEW label, Before(i, label) PROVE BeforeNext(i, label)
      OBVIOUS
    <3>1. PICK j \in 1..n : j < i /\ ledger[j].label = label /\ ledger[j].ok
      BY <1>3 DEF Before
    <3>2. j \in 1..(n - 1)
      BY <1>3, <3>1
    <3> QED
      BY <1>3, <3>1, <3>2 DEF BeforeNext
  <2>2. ASSUME NEW i \in 1..(n - 1), ledger'[i].ok
        PROVE  /\ ledger'[i].label = "deposit" => BeforeNext(i, "create-vault")
               /\ ledger'[i].label = "enroll" => BeforeNext(i, "create-vault")
               /\ ledger'[i].label = "anchor-signal" => BeforeNext(i, "enroll")
               /\ ledger'[i].label = "native-execute" => BeforeNext(i, "anchor-signal")
               /\ ledger'[i].label = "recover" => BeforeNext(i, "native-execute")
    BY <1>1, <1>3, <2>1, <2>2 DEF InOrder
  <2> QED
    BY <1>3, <2>2 DEF InOrder, Before, BeforeNext
<1>14. (final <= Len(ledger))' /\ resolved \in BOOLEAN
  BY <1>1, <1>3 DEF ChainTyped
<1>15. ProcOrder' /\ FileOrder'
  BY <1>3, <1>11, <1>14, ChainKeepsFile
<1> QED
  BY <1>9, <1>10, <1>13, <1>15 DEF ScriptOrder

-----------------------------------------------------------------------------
(* The operator's script: the commands                                     *)

\* What the script writes down leaves the chain as it is.
LEMMA ScriptKeepsChain ==
  ASSUME ScriptOrder, UNCHANGED chainVars
  PROVE  /\ ChainTyped' /\ OneCopy' /\ InOrder'
         /\ (final <= Len(ledger))'
         /\ \A id, label : Named(id, label) => NamedNext(id, label)
<1>1. UNCHANGED <<mempool, ledger, final, resolved, sends, reorgs>> /\ final <= Len(ledger)
  BY DEF chainVars, ScriptOrder, FileOrder
<1>2. ChainTyped' /\ OneCopy'
  BY <1>1 DEF ScriptOrder, ChainTyped, OneCopy
<1>3. InOrder'
  BY <1>1 DEF ScriptOrder, InOrder, Before
<1>5. \A id, label : Named(id, label) => NamedNext(id, label)
  BY <1>1 DEF Named, NamedNext
<1> QED
  BY <1>1, <1>2, <1>3, <1>5

\* A command begins; only the first one makes a new file.
LEMMA StartKeepsOrder ==
  ASSUME ScriptOrder, NEW mode \in {"run", "signal", "recover"}, Start(mode)
  PROVE  ScriptOrder'
<1>1. ProcOrder /\ FileOrder /\ proc = Off
  BY DEF ScriptOrder, Start
<1>2. UNCHANGED chainVars /\ UNCHANGED resolved
  BY DEF Start, chainVars
<1>3. /\ proc' \in ProcType /\ proc'.mode = mode /\ proc'.step = 1
      /\ proc'.stage = IF mode = "run" THEN "ready" ELSE "reconcile"
  BY OffFacts DEF Start, Off, ProcType
<1>4. 1 \in DOMAIN Route(mode)
  BY RouteFacts
<1>5. /\ file' \in [phase : Phases, transactions : Seq(EntryType)]
      /\ file'.transactions = file.transactions
      /\ file'.phase = IF mode = "run" THEN "DEPLOYING" ELSE file.phase
  BY <1>1 DEF Start, FileOrder, Phases
<1>6. mode = "run" => file.transactions = <<>>
  BY <1>1 DEF Start, ProcOrder
<1>7. mode # "run" => file.phase # "none"
  BY DEF Start
<1>8. ProcOrder'
  BY <1>3, <1>4, <1>5, <1>6, <1>7 DEF ProcOrder
<1>9. FileOrder'
  <2>1. \A i \in DOMAIN file.transactions : NamedNext(file.transactions[i].id, file.transactions[i].label)
    BY <1>1, <1>2, ScriptKeepsChain DEF FileOrder
  <2>2. (\A i \in DOMAIN file.transactions : Named(file.transactions[i].id, file.transactions[i].label))'
    BY <1>5, <2>1 DEF Named, NamedNext
  <2>3. mode = "run" => DOMAIN file'.transactions = {} /\ Submitted' = {}
    BY <1>5, <1>6 DEF Submitted
  <2>4. (final <= Len(ledger))'
    BY <1>2, ScriptKeepsChain
  <2> QED
    BY <1>3, <1>5, <2>2, <2>3, <2>4 DEF FileOrder
<1> QED
  BY <1>2, <1>8, <1>9, ScriptKeepsChain DEF ScriptOrder

\* A script that stops leaves its file behind.
LEMMA StopKeepsOrder == ScriptOrder /\ Stop => ScriptOrder'
<1> SUFFICES ASSUME ScriptOrder, Stop PROVE ScriptOrder'
  OBVIOUS
<1>1. ProcOrder /\ FileOrder
  BY DEF ScriptOrder
<1>2. UNCHANGED chainVars /\ file' = file /\ proc' = Off /\ proc # Off
  BY DEF Stop, chainVars
<1>3. ProcOrder'
  BY <1>1, <1>2, OffFacts DEF ProcOrder
<1>4. FileOrder'
  <2>1. \A i \in DOMAIN file.transactions : NamedNext(file.transactions[i].id, file.transactions[i].label)
    BY <1>1, <1>2, ScriptKeepsChain DEF FileOrder
  <2>2. (\A i \in DOMAIN file.transactions : Named(file.transactions[i].id, file.transactions[i].label))'
    BY <1>2, <2>1 DEF Named, NamedNext
  <2>3. (final <= Len(ledger))'
    BY <1>2, ScriptKeepsChain
  <2> QED
    BY <1>1, <1>2, <2>2, <2>3, OffFacts DEF FileOrder
<1> QED
  BY <1>2, <1>3, <1>4, ScriptKeepsChain DEF ScriptOrder

\* An entry gets what its receipt says.
GetsReceipt(i, block) ==
  /\ i \in DOMAIN file.transactions /\ block \in DOMAIN ledger
  /\ file' \in [phase : Phases, transactions : Seq(EntryType)]
  /\ file'.transactions = [file.transactions EXCEPT ![i] = Settled(file.transactions[i], block)]

\* A receipt changes the status of one entry, and no id or label.
LEMMA ReceiptShape ==
  ASSUME ScriptOrder, NEW i, NEW block, GetsReceipt(i, block)
  PROVE  /\ DOMAIN file'.transactions = DOMAIN file.transactions
         /\ \A j \in DOMAIN file.transactions :
              /\ file'.transactions[j].id = file.transactions[j].id
              /\ file'.transactions[j].label = file.transactions[j].label
              /\ j # i => file'.transactions[j] = file.transactions[j]
         /\ file'.transactions[i].status = IF ledger[block].ok THEN "MINED_SUCCESS" ELSE "REVERTED"
<1>1. file.transactions \in Seq(EntryType) /\ i \in DOMAIN file.transactions
  BY DEF ScriptOrder, FileOrder, GetsReceipt
<1>2. file.transactions[i] \in EntryType
  BY <1>1, LenProperties, ElementOfSeq
<1> DEFINE e == file.transactions[i]
           s == Settled(e, block)
<1>3. /\ s.id = e.id /\ s.label = e.label
      /\ s.status = IF ledger[block].ok THEN "MINED_SUCCESS" ELSE "REVERTED"
  BY <1>2 DEF Settled, EntryType
<1>4. /\ DOMAIN file'.transactions = DOMAIN file.transactions
      /\ file'.transactions[i] = s
      /\ \A j \in DOMAIN file.transactions : j # i => file'.transactions[j] = file.transactions[j]
  BY <1>1 DEF GetsReceipt
<1> QED
  BY <1>3, <1>4

\* The entries with one receipt more are entries.
LEMMA SettledEntry ==
  ASSUME ScriptOrder, NEW i \in DOMAIN file.transactions, NEW block \in DOMAIN ledger
  PROVE  [file.transactions EXCEPT ![i] = Settled(file.transactions[i], block)] \in Seq(EntryType)
<1>1. file.transactions \in Seq(EntryType) /\ i \in 1..Len(file.transactions)
  BY LenProperties DEF ScriptOrder, FileOrder
<1>2. file.transactions[i] \in EntryType
  BY <1>1, ElementOfSeq
<1>3. block \in Nat
  BY LenProperties DEF ScriptOrder, ChainTyped
<1>4. Settled(file.transactions[i], block) \in EntryType
  BY <1>2, <1>3 DEF Settled, EntryType
<1> QED
  BY <1>1, <1>4, ExceptSeq

\* Reconcile writes one receipt and leaves the phase.
LEMMA ReconcileShape ==
  ASSUME ScriptOrder, Reconcile
  PROVE  \E i \in Submitted : \E block \in Receipt(file.transactions[i].id) :
           GetsReceipt(i, block) /\ file'.phase = file.phase
<1>1. PICK i \in Submitted : \E block \in Receipt(file.transactions[i].id) :
             file' = [file EXCEPT !.transactions[i] = Settled(@, block)]
  BY DEF Reconcile
<1>2. PICK block \in Receipt(file.transactions[i].id) :
             file' = [file EXCEPT !.transactions[i] = Settled(@, block)]
  BY <1>1
<1>3. file \in [phase : Phases, transactions : Seq(EntryType)]
  BY DEF ScriptOrder, FileOrder
<1>4. i \in DOMAIN file.transactions /\ block \in DOMAIN ledger
  BY DEF Submitted, Receipt
<1> DEFINE next == [file.transactions EXCEPT ![i] = Settled(file.transactions[i], block)]
<1>5. next \in Seq(EntryType)
  BY <1>4, SettledEntry
<1>6. file' = [file EXCEPT !.transactions = next]
  BY <1>2
<1> HIDE DEF next
<1>7. file' \in [phase : Phases, transactions : Seq(EntryType)] /\ file'.phase = file.phase /\ file'.transactions = next
  BY <1>3, <1>5, <1>6
<1>8. GetsReceipt(i, block)
  BY <1>4, <1>7 DEF GetsReceipt, next
<1> QED
  BY <1>7, <1>8

\* Receipts for the entries of an earlier command.
LEMMA ReconcileKeepsOrder == ScriptOrder /\ Reconcile => ScriptOrder'
<1> SUFFICES ASSUME ScriptOrder, Reconcile PROVE ScriptOrder'
  OBVIOUS
<1>1. ProcOrder /\ FileOrder /\ proc.stage = "reconcile" /\ proc # Off
  BY OffFacts DEF ScriptOrder, Reconcile
<1>2. UNCHANGED chainVars /\ UNCHANGED resolved /\ proc' = proc
  BY DEF Reconcile, chainVars
<1>3. PICK i \in Submitted : \E block \in Receipt(file.transactions[i].id) :
             GetsReceipt(i, block) /\ file'.phase = file.phase
  BY ReconcileShape
<1>4. /\ DOMAIN file'.transactions = DOMAIN file.transactions
      /\ \A j \in DOMAIN file.transactions :
           /\ file'.transactions[j].id = file.transactions[j].id
           /\ file'.transactions[j].label = file.transactions[j].label
      /\ file' \in [phase : Phases, transactions : Seq(EntryType)]
  BY <1>3, ReceiptShape DEF GetsReceipt
<1>5. ProcOrder'
  BY <1>1, <1>2, <1>3 DEF ProcOrder
<1>6. FileOrder'
  <2>1. \A j \in DOMAIN file.transactions : NamedNext(file.transactions[j].id, file.transactions[j].label)
    BY <1>1, <1>2, ScriptKeepsChain DEF FileOrder
  <2>2. (\A j \in DOMAIN file.transactions : Named(file.transactions[j].id, file.transactions[j].label))'
    BY <1>4, <2>1 DEF Named, NamedNext
  <2>3. (final <= Len(ledger))'
    BY <1>2, ScriptKeepsChain
  <2>4. proc'.mode # "run"
    BY <1>1, <1>2 DEF ProcOrder
  <2> QED
    BY <1>1, <1>2, <1>4, <2>2, <2>3, <2>4 DEF FileOrder
<1> QED
  BY <1>2, <1>5, <1>6, ScriptKeepsChain DEF ScriptOrder

\* A file without a pending entry lets the command begin.
LEMMA ReconciledKeepsOrder == ScriptOrder /\ Reconciled => ScriptOrder'
<1> SUFFICES ASSUME ScriptOrder, Reconciled PROVE ScriptOrder'
  OBVIOUS
<1>1. ProcOrder /\ FileOrder /\ proc.stage = "reconcile" /\ proc # Off /\ Submitted = {}
  BY OffFacts DEF ScriptOrder, Reconciled
<1>2. UNCHANGED chainVars /\ UNCHANGED resolved /\ file' = file
  BY DEF Reconciled, chainVars
<1>3. /\ proc' \in ProcType /\ proc'.mode = proc.mode /\ proc'.step = proc.step /\ proc'.stage = "ready"
      /\ proc.step = 1 /\ proc.mode \in {"signal", "recover"}
      /\ proc.mode = "signal" => file.phase \in {"ENROLLED_WAITING_SIGNAL", "SIGNAL_ANCHORED"}
      /\ proc.mode = "recover" => resolved
  BY <1>1 DEF Reconciled, ProcOrder, ProcType
<1>4. ProcOrder'
  BY <1>1, <1>2, <1>3 DEF ProcOrder
<1>5. FileOrder'
  <2>1. \A i \in DOMAIN file.transactions : NamedNext(file.transactions[i].id, file.transactions[i].label)
    BY <1>1, <1>2, ScriptKeepsChain DEF FileOrder
  <2>2. (\A i \in DOMAIN file.transactions : Named(file.transactions[i].id, file.transactions[i].label))'
    BY <1>2, <2>1 DEF Named, NamedNext
  <2>3. (final <= Len(ledger))'
    BY <1>2, ScriptKeepsChain
  <2>4. Submitted' = {}
    BY <1>1, <1>2 DEF Submitted
  <2> QED
    BY <1>1, <1>2, <1>3, <2>2, <2>3, <2>4 DEF FileOrder
<1> QED
  BY <1>2, <1>4, <1>5, ScriptKeepsChain DEF ScriptOrder

\* A command whose file gets no new entry and has none pending may stop.
LEMMA Halt ==
  ASSUME ScriptOrder, proc # Off, UNCHANGED chainVars,
         file' \in [phase : Phases, transactions : Seq(EntryType)], file'.phase = file.phase,
         DOMAIN file'.transactions = DOMAIN file.transactions,
         \A j \in DOMAIN file.transactions : /\ file'.transactions[j].id = file.transactions[j].id
                                             /\ file'.transactions[j].label = file.transactions[j].label,
         proc' = Off
  PROVE  ScriptOrder'
<1>1. ProcOrder /\ FileOrder
  BY DEF ScriptOrder
<1>2. \A i \in DOMAIN file.transactions : NamedNext(file.transactions[i].id, file.transactions[i].label)
  BY <1>1, ScriptKeepsChain DEF FileOrder
<1>3. (\A i \in DOMAIN file.transactions : Named(file.transactions[i].id, file.transactions[i].label))'
  BY <1>2 DEF Named, NamedNext
<1>4. (final <= Len(ledger))'
  BY ScriptKeepsChain
<1>5. file.phase # "none"
  BY <1>1 DEF ProcOrder
<1>6. ProcOrder'
  BY <1>5, OffFacts DEF ProcOrder
<1>7. FileOrder'
  BY <1>3, <1>4, OffFacts DEF FileOrder
<1> QED
  BY <1>6, <1>7, ScriptKeepsChain DEF ScriptOrder

\* The phases that are written are the phases there are.
LEMMA PhaseAfterType ==
  ASSUME file.phase \in Phases, NEW label
  PROVE  PhaseAfter(label) \in Phases
BY DEF PhaseAfter, Phases

\* A step that is over writes its phase and sends nothing.
LEMMA ProceedShape ==
  ASSUME ScriptOrder, Proceed
  PROVE  /\ proc # Off /\ Submitted = {} /\ AssertedAfter(StepLabel)
         /\ proc.stage = "mined" \/ (proc.stage = "ready" /\ proc.mode # "run" /\ ~Wanted)
         /\ UNCHANGED chainVars
         /\ file' \in [phase : Phases, transactions : Seq(EntryType)]
         /\ file'.transactions = file.transactions
         /\ file'.phase = PhaseAfter(StepLabel) /\ proc' = NextStep
<1>1. /\ proc # Off /\ UNCHANGED chainVars /\ proc' = NextStep /\ AssertedAfter(StepLabel)
      /\ proc.stage = "mined" \/ (proc.stage = "ready" /\ ~Wanted)
      /\ file' = [file EXCEPT !.phase = PhaseAfter(StepLabel)]
  BY DEF Proceed, chainVars
<1>2. Submitted = {} /\ file \in [phase : Phases, transactions : Seq(EntryType)]
  BY <1>1 DEF ScriptOrder, FileOrder
<1>3. ~Wanted => proc.mode # "run"
  BY DEF Wanted
<1>4. PhaseAfter(StepLabel) \in Phases
  BY <1>2, PhaseAfterType
<1> QED
  BY <1>1, <1>2, <1>3, <1>4

\* A step that is over, by a receipt or because it was not needed, leads to the next one.
LEMMA ProceedKeepsOrder == ScriptOrder /\ Proceed => ScriptOrder'
<1> SUFFICES ASSUME ScriptOrder, Proceed PROVE ScriptOrder'
  OBVIOUS
<1>1. /\ proc # Off /\ Submitted = {} /\ UNCHANGED chainVars
      /\ proc.stage = "mined" \/ (proc.stage = "ready" /\ proc.mode # "run")
      /\ file' \in [phase : Phases, transactions : Seq(EntryType)]
      /\ file'.transactions = file.transactions
      /\ file'.phase = PhaseAfter(StepLabel) /\ proc' = NextStep
  BY ProceedShape
<1>2. Submitted' = {}
  BY <1>1 DEF Submitted
<1>3. ProcOrder /\ FileOrder
  BY DEF ScriptOrder
<1>4. UNCHANGED resolved /\ UNCHANGED sends
  BY <1>1 DEF chainVars
<1>5. \A i \in DOMAIN file.transactions : NamedNext(file.transactions[i].id, file.transactions[i].label)
  BY <1>1, <1>3, ScriptKeepsChain DEF FileOrder
<1>6. (\A i \in DOMAIN file.transactions : Named(file.transactions[i].id, file.transactions[i].label))'
  BY <1>1, <1>5 DEF Named, NamedNext
<1>7. (final <= Len(ledger))'
  BY <1>1, ScriptKeepsChain
<1>8. file.phase # "none"
  BY <1>1, <1>3 DEF ProcOrder
<1>9. file'.phase # "none"
  BY <1>8, <1>1 DEF PhaseAfter
<1>10. \/ proc' = Off
      \/ /\ proc' \in ProcType /\ proc'.mode = proc.mode /\ proc'.step = proc.step + 1
         /\ proc'.stage = "ready" /\ proc'.step \in DOMAIN Route(proc'.mode)
  BY <1>3, <1>1, NextStepCases
<1>11. CASE proc' = Off
  <2>1. ProcOrder'
    BY <1>1, <1>9, <1>11, OffFacts DEF ProcOrder
  <2>2. FileOrder'
    BY <1>1, <1>6, <1>7, <1>11, OffFacts DEF FileOrder
  <2> QED
    BY <1>1, <2>1, <2>2, ScriptKeepsChain DEF ScriptOrder
<1>12. CASE proc' # Off
  <2>1. /\ proc' \in ProcType /\ proc'.mode = proc.mode /\ proc'.step = proc.step + 1
        /\ proc'.stage = "ready" /\ proc'.step \in DOMAIN Route(proc'.mode)
    BY <1>10, <1>12
  <2>2. /\ proc.step \in Nat /\ proc.step + 1 \in Nat
        /\ proc.mode \in {"run", "signal", "recover"} /\ proc.step \in DOMAIN Route(proc.mode)
    BY <1>1, <1>3, <2>1 DEF ProcOrder, ProcType
  <2>3. proc.step # 0 /\ proc'.step # 1
    <3>1. proc.step # 0
      BY <2>2, RouteFacts, SMTT(40)
    <3> QED
      BY <2>1, <2>2, <3>1
  <2>4. proc.mode = "run" => proc.step \in {1, 2}
    <3>1. DOMAIN Route("run") = 1..3
      BY RouteFacts
    <3> QED
      BY <2>1, <2>2, <3>1
  <2>5. proc.mode = "run" => file'.phase = "DEPLOYING"
    <3>1. proc.mode = "run" => StepLabel \in {"create-vault", "deposit"}
      BY <2>4, RouteFacts DEF StepLabel
    <3> QED
      BY <1>3, <1>1, <3>1 DEF PhaseAfter, ProcOrder
  <2>6. proc.mode = "signal" => file'.phase \in {"ENROLLED_WAITING_SIGNAL", "SIGNAL_ANCHORED"}
    <3> SUFFICES ASSUME proc.mode = "signal"
                 PROVE  file'.phase \in {"ENROLLED_WAITING_SIGNAL", "SIGNAL_ANCHORED"}
      OBVIOUS
    <3>1. DOMAIN Route("signal") = 1..4
      BY RouteFacts
    <3>2. proc.step \in 1..3
      BY <2>1, <2>2, <3>1
    <3>3. StepLabel \in {"anchor-signal", "native-execute", "revoke"}
      BY <3>2, RouteFacts DEF StepLabel
    <3> QED
      BY <1>3, <1>1, <3>3 DEF PhaseAfter, FileOrder
  <2>7. ProcOrder'
    BY <1>1, <1>9, <2>1, <2>2, <2>5 DEF ProcOrder
  <2>8. FileOrder'
    <3>1. proc'.mode = "run" =>
            \A i \in DOMAIN file'.transactions :
              \E k \in 1..3 : /\ file'.transactions[i].label = Route("run")[k]
                              /\ k < proc'.step \/ (k = proc'.step /\ proc'.stage \in {"saved", "mined"})
      <4>1. \A k \in 1..3 : k < proc.step \/ k = proc.step => k < proc'.step
        BY <2>1, <2>2
      <4> QED
        BY <1>1, <1>3, <2>1, <4>1 DEF FileOrder
    <3>2. proc'.mode = "recover" => resolved'
      BY <1>1, <1>3, <1>4, <2>1 DEF FileOrder
    <3> QED
      BY <1>1, <1>2, <1>6, <1>7, <2>1, <2>6, <3>1, <3>2 DEF FileOrder
  <2> QED
    BY <1>1, <2>7, <2>8, ScriptKeepsChain DEF ScriptOrder
<1> QED
  BY <1>11, <1>12

\* A transaction that was mined gets its receipt; one that failed stops the command.
LEMMA MinedShape ==
  ASSUME ScriptOrder, Mined
  PROVE  /\ proc # Off /\ proc.stage = "saved" /\ UNCHANGED chainVars
         /\ \E block \in Receipt(proc.id) :
              /\ GetsReceipt(Len(file.transactions), block) /\ file'.phase = file.phase
              /\ \/ /\ ledger[block].ok /\ proc' \in ProcType /\ proc'.stage = "mined"
                    /\ proc'.mode = proc.mode /\ proc'.step = proc.step /\ StepLabel' = StepLabel
                 \/ proc' = Off
<1>1. proc # Off /\ proc.stage = "saved" /\ UNCHANGED chainVars
  BY OffFacts DEF Mined, chainVars
<1>2. /\ file \in [phase : Phases, transactions : Seq(EntryType)] /\ Len(file.transactions) > 0
      /\ proc \in ProcType
  BY <1>1 DEF ScriptOrder, FileOrder, ProcOrder
<1> DEFINE n == Len(file.transactions)
<1>3. PICK block \in Receipt(proc.id) :
             /\ file' = [file EXCEPT !.transactions[n] = Settled(@, block)]
             /\ proc' = IF ledger[block].ok THEN [proc EXCEPT !.stage = "mined"] ELSE Off
  BY DEF Mined
<1>4. n \in DOMAIN file.transactions /\ block \in DOMAIN ledger
  <2>1. n \in Nat /\ DOMAIN file.transactions = 1..n
    BY <1>2, LenProperties
  <2> QED
    BY <1>2, <2>1 DEF Receipt
<1> DEFINE next == [file.transactions EXCEPT ![n] = Settled(file.transactions[n], block)]
<1>5. next \in Seq(EntryType)
  BY <1>4, SettledEntry
<1>6. file' = [file EXCEPT !.transactions = next]
  BY <1>2, <1>3
<1> HIDE DEF next
<1>7. file' \in [phase : Phases, transactions : Seq(EntryType)] /\ file'.phase = file.phase /\ file'.transactions = next
  BY <1>2, <1>5, <1>6
<1>8. GetsReceipt(n, block)
  BY <1>4, <1>7 DEF GetsReceipt, next
<1>9. ledger[block].ok => /\ proc' \in ProcType /\ proc'.stage = "mined"
                          /\ proc'.mode = proc.mode /\ proc'.step = proc.step
  BY <1>2, <1>3 DEF ProcType
<1> QED
  BY <1>1, <1>3, <1>7, <1>8, <1>9 DEF StepLabel

\* A mined transaction keeps the order, whether the command goes on or stops.
LEMMA MinedKeepsOrder == ScriptOrder /\ Mined => ScriptOrder'
<1> SUFFICES ASSUME ScriptOrder, Mined PROVE ScriptOrder'
  OBVIOUS
<1> DEFINE n == Len(file.transactions)
<1>1. /\ proc # Off /\ proc.stage = "saved" /\ UNCHANGED chainVars
  BY MinedShape
<1>2. PICK block \in Receipt(proc.id) :
             /\ GetsReceipt(n, block) /\ file'.phase = file.phase
             /\ \/ /\ proc' \in ProcType /\ proc'.stage = "mined"
                   /\ proc'.mode = proc.mode /\ proc'.step = proc.step
                \/ proc' = Off
  BY MinedShape
<1>3. /\ DOMAIN file'.transactions = DOMAIN file.transactions
      /\ \A j \in DOMAIN file.transactions :
           /\ file'.transactions[j].id = file.transactions[j].id
           /\ file'.transactions[j].label = file.transactions[j].label
           /\ j # n => file'.transactions[j] = file.transactions[j]
      /\ file'.transactions[n].status = IF ledger[block].ok THEN "MINED_SUCCESS" ELSE "REVERTED"
  BY <1>2, ReceiptShape
<1>4. file' \in [phase : Phases, transactions : Seq(EntryType)]
  BY <1>2 DEF GetsReceipt
<1>5. CASE proc' = Off
  BY <1>1, <1>2, <1>3, <1>4, <1>5, Halt
<1>6. CASE /\ proc' \in ProcType /\ proc'.stage = "mined"
           /\ proc'.mode = proc.mode /\ proc'.step = proc.step
  <2>1. ProcOrder /\ FileOrder /\ Submitted \subseteq {n} /\ UNCHANGED resolved
    BY <1>1 DEF ScriptOrder, FileOrder, chainVars
  <2>2. Submitted' = {}
    BY <1>3, <2>1 DEF Submitted
  <2>3. ProcOrder'
    BY <1>1, <1>2, <1>3, <1>6, <2>1, OffFacts DEF ProcOrder
  <2>4. \A i \in DOMAIN file.transactions : NamedNext(file.transactions[i].id, file.transactions[i].label)
    BY <1>1, <2>1, ScriptKeepsChain DEF FileOrder
  <2>5. (\A i \in DOMAIN file.transactions : Named(file.transactions[i].id, file.transactions[i].label))'
    BY <1>3, <2>4 DEF Named, NamedNext
  <2>6. (final <= Len(ledger))'
    BY <1>1, ScriptKeepsChain
  <2>7. proc'.mode = "run" =>
          \A i \in DOMAIN file'.transactions :
            \E k \in 1..3 : /\ file'.transactions[i].label = Route("run")[k]
                            /\ k < proc'.step \/ (k = proc'.step /\ proc'.stage \in {"saved", "mined"})
    BY <1>1, <1>3, <1>6, <2>1 DEF FileOrder
  <2>8. FileOrder'
    BY <1>1, <1>2, <1>4, <1>6, <2>1, <2>2, <2>5, <2>6, <2>7 DEF FileOrder
  <2> QED
    BY <1>1, <2>3, <2>8, ScriptKeepsChain DEF ScriptOrder
<1> QED
  BY <1>2, <1>5, <1>6

\* Reading the balance changes the stage and the amount only.
LEMMA ReadShape ==
  ASSUME ScriptOrder, ReadBalance
  PROVE  /\ proc # Off /\ proc.stage = "ready" /\ Wanted /\ StepLabel \in Withdrawals
         /\ file' = file /\ UNCHANGED chainVars
         /\ proc' \in ProcType /\ proc'.mode = proc.mode /\ proc'.step = proc.step
         /\ proc'.stage = "read" /\ StepLabel' = StepLabel
<1>1. proc \in ProcType /\ Cash \in Nat
  BY CashType DEF ScriptOrder, ProcOrder, ChainTyped
<1>2. /\ proc # Off /\ proc.stage = "ready" /\ Wanted /\ StepLabel \in Withdrawals
      /\ file' = file /\ UNCHANGED chainVars /\ proc' = [proc EXCEPT !.stage = "read", !.amount = Cash]
  BY DEF ReadBalance, chainVars
<1>3. proc' \in ProcType /\ proc'.mode = proc.mode /\ proc'.step = proc.step /\ proc'.stage = "read"
  BY <1>1, <1>2 DEF ProcType
<1> QED
  BY <1>2, <1>3 DEF StepLabel

\* Reading the balance keeps the order.
LEMMA ReadKeepsOrder == ScriptOrder /\ ReadBalance => ScriptOrder'
<1> SUFFICES ASSUME ScriptOrder, ReadBalance PROVE ScriptOrder'
  OBVIOUS
<1>1. /\ proc # Off /\ proc.stage = "ready" /\ file' = file /\ UNCHANGED chainVars
      /\ proc' \in ProcType /\ proc'.mode = proc.mode /\ proc'.step = proc.step /\ proc'.stage = "read"
  BY ReadShape
<1>2. ProcOrder /\ FileOrder /\ Submitted' = Submitted /\ UNCHANGED resolved
  BY <1>1 DEF ScriptOrder, Submitted, chainVars
<1>3. ProcOrder'
  BY <1>1, <1>2, OffFacts DEF ProcOrder
<1>4. \A i \in DOMAIN file.transactions : NamedNext(file.transactions[i].id, file.transactions[i].label)
  BY <1>1, <1>2, ScriptKeepsChain DEF FileOrder
<1>5. (\A i \in DOMAIN file.transactions : Named(file.transactions[i].id, file.transactions[i].label))'
  BY <1>1, <1>4 DEF Named, NamedNext
<1>6. (final <= Len(ledger))'
  BY <1>1, ScriptKeepsChain
<1>7. proc'.mode = "run" =>
        \A i \in DOMAIN file'.transactions :
          \E k \in 1..3 : /\ file'.transactions[i].label = Route("run")[k]
                          /\ k < proc'.step \/ (k = proc'.step /\ proc'.stage \in {"saved", "mined"})
  BY <1>1, <1>2 DEF FileOrder
<1>8. FileOrder'
  BY <1>1, <1>2, <1>5, <1>6, <1>7 DEF FileOrder
<1> QED
  BY <1>1, <1>3, <1>8, ScriptKeepsChain DEF ScriptOrder

\* A transaction is sent under an id of its own.
LEMMA SendShape ==
  ASSUME ScriptOrder, Send
  PROVE  /\ proc # Off /\ Submitted = {} /\ Effective(StepLabel, proc.amount)
         /\ proc.stage = "read" \/ (proc.stage = "ready" /\ Wanted)
         /\ UNCHANGED <<file, ledger, final, resolved, reorgs>>
         /\ sends \in Nat /\ sends' = sends + 1
         /\ Len(mempool) \in Nat /\ DOMAIN mempool = 1..Len(mempool)
         /\ mempool' \in Seq(SentType) /\ DOMAIN mempool' = 1..(Len(mempool) + 1)
         /\ \A i \in 1..Len(mempool) : mempool'[i] = mempool[i]
         /\ mempool'[Len(mempool) + 1].id = sends' /\ mempool'[Len(mempool) + 1].label = StepLabel
         /\ proc' \in ProcType /\ proc'.mode = proc.mode /\ proc'.step = proc.step
         /\ proc'.stage = "sent" /\ proc'.id = sends' /\ StepLabel' = StepLabel
<1>1. /\ proc # Off /\ Effective(StepLabel, proc.amount)
      /\ proc.stage = "read" \/ (proc.stage = "ready" /\ Wanted)
      /\ UNCHANGED <<file, ledger, final, resolved, reorgs>>
      /\ sends' = sends + 1 /\ mempool' = Append(mempool, [id |-> sends + 1, label |-> StepLabel, amount |-> proc.amount])
      /\ proc' = [proc EXCEPT !.stage = "sent", !.id = sends + 1]
  BY DEF Send
<1>2. sends \in Nat /\ mempool \in Seq(SentType) /\ ProcOrder /\ proc \in ProcType /\ Submitted = {}
  BY <1>1 DEF ScriptOrder, ChainTyped, ProcOrder, FileOrder
<1>3. StepLabel \in Labels
  BY <1>1, <1>2, StepCases
<1> DEFINE item == [id |-> sends + 1, label |-> StepLabel, amount |-> proc.amount]
<1>4. item \in SentType /\ item.id = sends' /\ item.label = StepLabel
  BY <1>1, <1>2, <1>3 DEF SentType, Kinds, ProcType
<1> HIDE DEF item
<1>5. mempool' = Append(mempool, item)
  BY <1>1 DEF item
<1>6. /\ mempool' \in Seq(SentType) /\ Len(mempool') = Len(mempool) + 1
      /\ \A i \in 1..Len(mempool) : mempool'[i] = mempool[i]
      /\ mempool'[Len(mempool) + 1] = item
  BY <1>2, <1>4, <1>5, AppendProperties
<1>7. Len(mempool) \in Nat /\ DOMAIN mempool = 1..Len(mempool) /\ DOMAIN mempool' = 1..Len(mempool')
  BY <1>2, <1>6, LenProperties
<1>8. /\ proc' \in ProcType /\ proc'.mode = proc.mode /\ proc'.step = proc.step
      /\ proc'.stage = "sent" /\ proc'.id = sends'
  <2>1. sends' \in Nat /\ proc' = [proc EXCEPT !.stage = "sent", !.id = sends']
    BY <1>1, <1>2
  <2> QED
    BY <1>2, <2>1 DEF ProcType
<1>9. StepLabel' = StepLabel
  BY <1>8 DEF StepLabel
<1> QED
  BY <1>1, <1>2, <1>4, <1>6, <1>7, <1>8, <1>9

\* A new id is nobody else's.
LEMMA SendKeepsOrder == ScriptOrder /\ Send => ScriptOrder'
<1> SUFFICES ASSUME ScriptOrder, Send PROVE ScriptOrder'
  OBVIOUS
<1> DEFINE m == Len(mempool)
<1>1. /\ proc # Off /\ proc.stage \in {"ready", "read"} /\ Submitted = {}
      /\ UNCHANGED <<file, ledger, final, resolved, reorgs>>
      /\ sends \in Nat /\ sends' = sends + 1
      /\ m \in Nat /\ DOMAIN mempool = 1..m
      /\ mempool' \in Seq(SentType) /\ DOMAIN mempool' = 1..(m + 1)
      /\ \A i \in 1..m : mempool'[i] = mempool[i]
      /\ mempool'[m + 1].id = sends' /\ mempool'[m + 1].label = StepLabel
      /\ proc' \in ProcType /\ proc'.mode = proc.mode /\ proc'.step = proc.step
      /\ proc'.stage = "sent" /\ proc'.id = sends' /\ StepLabel' = StepLabel
  BY SendShape
<1> HIDE DEF m
<1>2. ChainTyped /\ OneCopy /\ InOrder /\ ProcOrder /\ FileOrder
  BY DEF ScriptOrder
<1>3. \A i \in 1..(m + 1) : i \in 1..m \/ i = m + 1
  BY <1>1
<1>4. ChainTyped'
  BY <1>1, <1>2 DEF ChainTyped
<1>5. /\ \A i \in DOMAIN ledger : ledger[i].id \in Nat /\ ledger[i].id <= sends
      /\ \A i \in 1..m : mempool[i].id \in Nat /\ 0 < mempool[i].id /\ mempool[i].id <= sends
  <2>1. \A i \in DOMAIN ledger : ledger[i] \in ResultType
    BY <1>2, LenProperties, ElementOfSeq DEF ChainTyped
  <2>2. \A i \in 1..m : mempool[i] \in SentType
    BY <1>2, ElementOfSeq DEF ChainTyped, m
  <2> QED
    BY <1>1, <1>2, <2>1, <2>2 DEF OneCopy, ResultType, SentType
<1>6. /\ \A i \in DOMAIN ledger : ledger[i].id <= sends' /\ ledger[i].id # sends'
      /\ \A i \in 1..m : mempool[i].id <= sends' /\ mempool[i].id # sends'
      /\ 0 < sends' /\ sends' <= sends' /\ sends <= sends' /\ sends' \in Nat
  BY <1>1, <1>5
<1>7. OneCopy'
  <2>1. \A i \in 1..(m + 1) : 0 < mempool'[i].id /\ mempool'[i].id <= sends'
    BY <1>1, <1>3, <1>5, <1>6
  <2>2. \A i, j \in 1..(m + 1) : mempool'[i].id = mempool'[j].id => i = j
    BY <1>1, <1>2, <1>3, <1>6, SMTT(40) DEF OneCopy
  <2>3. \A i \in DOMAIN ledger, j \in 1..(m + 1) : ledger[i].id # mempool'[j].id
    BY <1>1, <1>2, <1>3, <1>6 DEF OneCopy
  <2> QED
    BY <1>1, <1>2, <1>6, <2>1, <2>2, <2>3 DEF OneCopy
<1>8. InOrder'
  BY <1>1, <1>2 DEF InOrder, Before
<1>11. ASSUME NEW id \in Nat, NEW label, Named(id, label), id # sends'
       PROVE  NamedNext(id, label)
  <2>1. id <= sends'
    BY <1>1, <1>6, <1>11 DEF Named
  <2> QED
    BY <1>1, <1>3, <1>11, <2>1 DEF Named, NamedNext
<1>12. NamedNext(proc'.id, StepLabel')
  BY <1>1, <1>3, <1>6 DEF NamedNext
<1>14. ProcOrder'
  <2>1. (proc.stage \in {"sent", "saved"} => Named(proc.id, StepLabel))'
    BY <1>12 DEF Named, NamedNext
  <2> QED
    BY <1>1, <1>2, <2>1 DEF ProcOrder
<1>15. FileOrder'
  <2>1. \A i \in DOMAIN file.transactions : NamedNext(file.transactions[i].id, file.transactions[i].label)
    <3> SUFFICES ASSUME NEW i \in DOMAIN file.transactions
                 PROVE  NamedNext(file.transactions[i].id, file.transactions[i].label)
      OBVIOUS
    <3>1. Named(file.transactions[i].id, file.transactions[i].label)
      BY <1>2 DEF FileOrder
    <3>2. file.transactions[i] \in EntryType
      BY <1>2, LenProperties, ElementOfSeq DEF FileOrder
    <3>3. file.transactions[i].id \in Nat /\ file.transactions[i].id # sends'
      BY <1>1, <3>1, <3>2 DEF Named, EntryType
    <3> QED
      BY <1>11, <3>1, <3>3
  <2>2. (\A i \in DOMAIN file.transactions : Named(file.transactions[i].id, file.transactions[i].label))'
    BY <1>1, <2>1 DEF Named, NamedNext
  <2>3. Submitted' = {}
    BY <1>1 DEF Submitted
  <2> QED
    BY <1>1, <1>2, <2>2, <2>3 DEF FileOrder
<1> QED
  BY <1>4, <1>7, <1>8, <1>14, <1>15 DEF ScriptOrder

\* The sent transaction is written down before the script waits for it.
LEMMA SaveShape ==
  ASSUME ScriptOrder, Save
  PROVE  LET n == Len(file.transactions) IN
         /\ proc # Off /\ proc.stage = "sent" /\ UNCHANGED chainVars
         /\ n \in Nat /\ DOMAIN file.transactions = 1..n
         /\ file' \in [phase : Phases, transactions : Seq(EntryType)] /\ file'.phase = file.phase
         /\ Len(file'.transactions) = n + 1 /\ DOMAIN file'.transactions = 1..(n + 1)
         /\ \A i \in 1..n : file'.transactions[i] = file.transactions[i]
         /\ file'.transactions[n + 1].id = proc.id /\ file'.transactions[n + 1].label = StepLabel
         /\ file'.transactions[n + 1].status = "SUBMITTED"
         /\ proc' \in ProcType /\ proc'.mode = proc.mode /\ proc'.step = proc.step
         /\ proc'.stage = "saved" /\ proc'.id = proc.id /\ StepLabel' = StepLabel
<1> DEFINE n == Len(file.transactions)
           entry == [id |-> proc.id, label |-> StepLabel, status |-> "SUBMITTED", block |-> 0]
           next == Append(file.transactions, entry)
<1>1. /\ proc # Off /\ proc.stage = "sent" /\ UNCHANGED chainVars
      /\ file' = [file EXCEPT !.transactions = next] /\ proc' = [proc EXCEPT !.stage = "saved"]
  BY OffFacts DEF Save, chainVars
<1>2. /\ ProcOrder /\ proc \in ProcType
      /\ file \in [phase : Phases, transactions : Seq(EntryType)]
  BY DEF ScriptOrder, ProcOrder, FileOrder
<1>3. StepLabel \in Labels
  BY <1>1, <1>2, StepCases
<1>4. /\ entry \in EntryType /\ entry.id = proc.id /\ entry.label = StepLabel /\ entry.status = "SUBMITTED"
  BY <1>2, <1>3 DEF EntryType, ProcType
<1> HIDE DEF entry
<1>5. /\ next \in Seq(EntryType) /\ Len(next) = n + 1 /\ \A i \in 1..n : next[i] = file.transactions[i]
      /\ next[n + 1] = entry
  BY <1>2, <1>4, AppendProperties
<1> HIDE DEF next
<1>6. n \in Nat /\ DOMAIN file.transactions = 1..n /\ DOMAIN next = 1..(n + 1)
  BY <1>2, <1>5, LenProperties
<1>7. /\ file' \in [phase : Phases, transactions : Seq(EntryType)] /\ file'.phase = file.phase
      /\ file'.transactions = next
  BY <1>1, <1>2, <1>5
<1>8. /\ proc' \in ProcType /\ proc'.mode = proc.mode /\ proc'.step = proc.step
      /\ proc'.stage = "saved" /\ proc'.id = proc.id
  BY <1>1, <1>2 DEF ProcType
<1>9. StepLabel' = StepLabel
  BY <1>8 DEF StepLabel
<1> QED
  BY <1>1, <1>4, <1>5, <1>6, <1>7, <1>8, <1>9

\* The new entry is the last one and the only pending one.
LEMMA SaveKeepsOrder == ScriptOrder /\ Save => ScriptOrder'
<1> SUFFICES ASSUME ScriptOrder, Save PROVE ScriptOrder'
  OBVIOUS
<1> DEFINE n == Len(file.transactions)
<1>1. /\ proc # Off /\ proc.stage = "sent" /\ UNCHANGED chainVars
      /\ n \in Nat /\ DOMAIN file.transactions = 1..n
      /\ file' \in [phase : Phases, transactions : Seq(EntryType)] /\ file'.phase = file.phase
      /\ Len(file'.transactions) = n + 1 /\ DOMAIN file'.transactions = 1..(n + 1)
      /\ \A i \in 1..n : file'.transactions[i] = file.transactions[i]
      /\ file'.transactions[n + 1].id = proc.id /\ file'.transactions[n + 1].label = StepLabel
      /\ file'.transactions[n + 1].status = "SUBMITTED"
      /\ proc' \in ProcType /\ proc'.mode = proc.mode /\ proc'.step = proc.step
      /\ proc'.stage = "saved" /\ proc'.id = proc.id /\ StepLabel' = StepLabel
  BY SaveShape
<1>2. ProcOrder /\ FileOrder /\ Submitted = {} /\ UNCHANGED resolved
  BY <1>1 DEF ScriptOrder, FileOrder, chainVars
<1> HIDE DEF n
<1>3. \A i \in 1..(n + 1) : i \in 1..n \/ i = n + 1
  BY <1>1
<1>4. NamedNext(proc.id, StepLabel)
  BY <1>1, <1>2, ScriptKeepsChain DEF ProcOrder
<1>5. ProcOrder'
  <2>1. (proc.stage \in {"sent", "saved"} => Named(proc.id, StepLabel))'
    BY <1>1, <1>4 DEF Named, NamedNext
  <2>3. file.phase # "none"
    BY <1>1, <1>2 DEF ProcOrder
  <2> QED
    BY <1>1, <1>2, <2>1, <2>3 DEF ProcOrder
<1>6. FileOrder'
  <2>1. \A i \in 1..(n + 1) : NamedNext(file'.transactions[i].id, file'.transactions[i].label)
    <3>1. \A i \in 1..n : NamedNext(file.transactions[i].id, file.transactions[i].label)
      BY <1>1, <1>2, ScriptKeepsChain DEF FileOrder
    <3> QED
      BY <1>1, <1>3, <1>4, <3>1
  <2>2. (\A i \in DOMAIN file.transactions : Named(file.transactions[i].id, file.transactions[i].label))'
    BY <1>1, <2>1 DEF Named, NamedNext
  <2>3. Submitted' \subseteq {n + 1}
    BY <1>1, <1>2, <1>3 DEF Submitted
  <2>4. n + 1 > 0
    BY <1>1
  <2>5. proc'.mode = "run" =>
          \A i \in 1..(n + 1) :
            \E k \in 1..3 : /\ file'.transactions[i].label = Route("run")[k]
                            /\ k < proc'.step \/ (k = proc'.step /\ proc'.stage \in {"saved", "mined"})
    <3> SUFFICES ASSUME proc.mode = "run", NEW i \in 1..(n + 1)
                 PROVE  \E k \in 1..3 : /\ file'.transactions[i].label = Route("run")[k]
                                        /\ k < proc'.step \/ (k = proc'.step /\ proc'.stage \in {"saved", "mined"})
      BY <1>1
    <3>1. CASE i \in 1..n
      BY <1>1, <1>2, <3>1 DEF FileOrder
    <3>2. CASE i = n + 1
      <4>1. proc.step \in 1..3
        BY <1>1, <1>2, RouteFacts DEF ProcOrder
      <4>2. file'.transactions[i].label = Route("run")[proc.step]
        BY <1>1, <3>2 DEF StepLabel
      <4> QED
        BY <1>1, <4>1, <4>2
    <3> QED
      BY <1>3, <3>1, <3>2
  <2>6. (final <= Len(ledger))'
    BY <1>1, ScriptKeepsChain
  <2> QED
    BY <1>1, <1>2, <2>2, <2>3, <2>4, <2>5, <2>6 DEF FileOrder
<1> QED
  BY <1>1, <1>5, <1>6, ScriptKeepsChain DEF ScriptOrder

\* Every step keeps the order of the chain, the script and its file, reorganisations included.
LEMMA ScriptStepOrder == ScriptOrder /\ [ScriptNext]_scriptVars => ScriptOrder'
<1> SUFFICES ASSUME ScriptOrder, [ScriptNext]_scriptVars PROVE ScriptOrder'
  OBVIOUS
<1>1. CASE UNCHANGED scriptVars
  <2>1. UNCHANGED chainVars /\ UNCHANGED <<file, proc, resolved>> /\ resolved \in BOOLEAN
    BY <1>1 DEF scriptVars, chainVars, ScriptOrder, ChainTyped
  <2>2. Carried
    BY <1>1 DEF scriptVars, chainVars, Carried
  <2>3. ProcOrder' /\ FileOrder'
    BY <2>1, <2>2, ScriptKeepsChain, ChainKeepsFile
  <2> QED
    BY <2>1, <2>3, ScriptKeepsChain DEF ScriptOrder
<1>2. CASE \E mode \in {"run", "signal", "recover"} : Start(mode)
  BY <1>2, StartKeepsOrder
<1>3. CASE Stop \/ Reconcile \/ Reconciled \/ ReadBalance
  BY <1>3, StopKeepsOrder, ReconcileKeepsOrder, ReconciledKeepsOrder, ReadKeepsOrder
<1>4. CASE Send \/ Save \/ Mined \/ Proceed
  BY <1>4, SendKeepsOrder, SaveKeepsOrder, MinedKeepsOrder, ProceedKeepsOrder
<1>5. CASE Mine \/ Confirm \/ Reorg \/ Resolve \/ Report
  BY <1>5, MineKeepsOrder, ConfirmKeepsOrder, ReorgKeepsOrder
<1>6. CASE \E label \in {"native-execute", "recover", "transfer"} : Others(label)
  BY <1>6, OthersKeepsOrder
<1> QED
  BY <1>1, <1>2, <1>3, <1>4, <1>5, <1>6 DEF ScriptNext

-----------------------------------------------------------------------------
(* The operator's script: what a complete report rests on                   *)

\* Blocks of others, which hold no failures; and what happens only once.
Strangers ==
  /\ \A i \in DOMAIN ledger : ledger[i].id = 0 =>
       ledger[i].ok /\ ledger[i].label \in {"native-execute", "recover", "transfer"}
  /\ \A i \in DOMAIN ledger : ledger[i].ok /\ ledger[i].label = "transfer" => ledger[i].cash > 0
  /\ \A i, j \in DOMAIN ledger :
       ledger[i].ok /\ ledger[j].ok /\ ledger[i].label = ledger[j].label
         /\ ledger[i].label \in {"native-execute", "recover"} => i = j

\* The vault was empty after block i, and only transfers of others came in since.
GiftsAfter(i) ==
  /\ ledger[i].cash = 0
  /\ \A j \in DOMAIN ledger : j > i /\ ledger[j].cash > ledger[j - 1].cash => ledger[j].label = "transfer"

\* What a report that was made rests on: final blocks, and nothing of the script that could
\* still bring the vault money.
Reported ==
  /\ reported \in {"nothing", "complete", "accounted"}
  /\ reported # "nothing" => \E i \in 1..final : ledger[i].label = "recover" /\ ledger[i].ok
  /\ reported = "accounted" =>
       /\ \E i \in 1..final : ledger[i].label = "revoke" /\ ledger[i].ok
       /\ \E i \in 1..final : GiftsAfter(i)
       /\ file.phase = "RECOVERED_AND_WITHDRAWN"
       /\ \A i \in DOMAIN mempool : mempool[i].label \in {"recover", "withdraw"}
       /\ \A i \in DOMAIN ledger : i > final => ledger[i].id = 0 \/ ledger[i].label \in {"recover", "withdraw"}

\* A block is one of others or holds a transaction that waited.
Mineable(r) ==
  /\ Grows(r)
  /\ r.id = 0 => r.ok /\ r.label \in {"native-execute", "recover", "transfer"}
  /\ r.id # 0 => \E j \in DOMAIN mempool : mempool[j].label = r.label

\* How a step moves the ledger: not at all, by a block more, or by one that is not final less.
LEMMA LedgerMoves ==
  ASSUME ScriptOrder, [ScriptNext]_scriptVars
  PROVE  \/ ledger' = ledger
         \/ final' = final /\ file' = file /\ reported' = reported /\ \E r : Mineable(r)
         \/ Reorg
<1>1. CASE Mine
  <2>1. PICK r : Grows(r) /\ r.id = mempool[1].id /\ r.label = mempool[1].label
    BY <1>1, MineShape DEF ScriptOrder
  <2>2. 1 \in DOMAIN mempool
    BY <1>1, MineShape DEF ScriptOrder
  <2>3. r.id # 0
    BY <2>1, <2>2 DEF ScriptOrder, OneCopy
  <2> QED
    BY <1>1, <2>1, <2>2, <2>3 DEF Mine, Mineable
<1>2. CASE \E label \in {"native-execute", "recover", "transfer"} : Others(label)
  <2>1. PICK label \in {"native-execute", "recover", "transfer"} : Others(label)
    BY <1>2
  <2>2. PICK r : Grows(r) /\ r.id = 0 /\ r.label = label /\ r.ok
    BY <2>1, OthersShape DEF ScriptOrder
  <2> QED
    BY <2>1, <2>2 DEF Others, Mineable
<1>3. CASE ScriptNext /\ ~Mine /\ ~Reorg /\ ~\E label \in {"native-execute", "recover", "transfer"} : Others(label)
  BY <1>3 DEF ScriptNext, Start, Stop, Reconcile, Reconciled, ReadBalance, Send, Save, Mined, Proceed,
              Confirm, Resolve, Report, chainVars
<1> QED
  BY <1>1, <1>2, <1>3 DEF scriptVars, chainVars

\* Trades and recoveries succeed once, whoever sends them.
LEMMA StrangersStep ==
  ASSUME ScriptOrder, Strangers, [ScriptNext]_scriptVars
  PROVE  Strangers'
<1>1. CASE ledger' = ledger
  BY <1>1 DEF Strangers
<1>2. CASE \E r : Mineable(r)
  <2> DEFINE n == Len(ledger)
  <2>1. PICK r : Mineable(r)
    BY <1>2
  <2>2. /\ n \in Nat /\ DOMAIN ledger = 1..n /\ DOMAIN ledger' = 1..(n + 1)
        /\ \A i \in 1..n : ledger'[i] = ledger[i]
        /\ ledger'[n + 1] = r
    BY <2>1, GrowsShape DEF ScriptOrder, ChainTyped, Mineable
  <2> HIDE DEF n
  <2>3. \A i \in 1..(n + 1) : i \in 1..n \/ i = n + 1
    BY <2>2
  <2>4. /\ r.ok /\ r.label = "native-execute" => ~Has("native-execute")
        /\ r.ok /\ r.label = "recover" => ~Has("recover")
    BY <2>1 DEF Mineable, Grows, Effective, Position
  <2>5. \A i \in 1..n : ledger[i].ok /\ r.ok /\ r.label \in {"native-execute", "recover"} => ledger[i].label # r.label
    BY <2>2, <2>4 DEF Has
  <2>6. /\ r.id = 0 => r.ok /\ r.label \in {"native-execute", "recover", "transfer"}
        /\ r.ok /\ r.label = "transfer" => r.cash > 0
    BY <2>1 DEF Mineable, Grows
  <2>7. \A i \in 1..(n + 1) : ledger'[i].id = 0 =>
          ledger'[i].ok /\ ledger'[i].label \in {"native-execute", "recover", "transfer"}
    BY <2>2, <2>3, <2>6 DEF Strangers
  <2>8. \A i \in 1..(n + 1) : ledger'[i].ok /\ ledger'[i].label = "transfer" => ledger'[i].cash > 0
    BY <2>2, <2>3, <2>6 DEF Strangers
  <2>9. ASSUME NEW i \in 1..(n + 1), NEW j \in 1..(n + 1), ledger'[i].ok, ledger'[j].ok,
               ledger'[i].label = ledger'[j].label, ledger'[i].label \in {"native-execute", "recover"}
        PROVE  i = j
    <3>1. CASE i \in 1..n /\ j \in 1..n
      BY <2>2, <2>9, <3>1 DEF Strangers
    <3>2. CASE i \in 1..n /\ j = n + 1
      BY <2>2, <2>5, <2>9, <3>2
    <3>3. CASE i = n + 1 /\ j \in 1..n
      BY <2>2, <2>5, <2>9, <3>3
    <3> QED
      BY <2>3, <3>1, <3>2, <3>3
  <2> QED
    BY <2>2, <2>7, <2>8, <2>9 DEF Strangers
<1>3. CASE Reorg
  <2>1. \A i \in DOMAIN ledger' : i \in DOMAIN ledger /\ ledger'[i] = ledger[i]
    BY <1>3, ReorgShape
  <2> QED
    BY <2>1 DEF Strangers
<1> QED
  BY <1>1, <1>2, <1>3, LedgerMoves

\* The trade and the recovery of a complete report, which are final when it is made.
LEMMA CompleteRecovery ==
  ASSUME ScriptOrder, Complete
  PROVE  \E i \in 1..final : ledger[i].label = "recover" /\ ledger[i].ok
<1>1. PICK k \in Entries("recover") : Verified(file.transactions[k])
  BY DEF Complete, Entries
<1>2. PICK i \in DOMAIN ledger : ledger[i].id = file.transactions[k].id /\ ledger[i].ok /\ i <= final
  BY <1>1 DEF Verified, Receipt
<1>3. k \in DOMAIN file.transactions /\ file.transactions[k].label = "recover"
  BY DEF Entries
<1>4. ledger[i].label = "recover"
  BY <1>2, <1>3 DEF ScriptOrder, FileOrder, Named
<1>5. i \in 1..Len(ledger) /\ final \in Nat /\ Len(ledger) \in Nat
  BY LenProperties DEF ScriptOrder, ChainTyped
<1> QED
  BY <1>2, <1>4, <1>5

\* When the file holds everything that was sent, a complete report leaves nothing to wait for:
\* what is not final is of others, and the vault was empty after the last block.
LEMMA AccountedHead ==
  ASSUME ScriptOrder, Strangers, Complete, \A id \in 1..sends : OnRecord(id)
  PROVE  DOMAIN mempool = {} /\ final = Len(ledger) /\ Len(ledger) \in DOMAIN ledger /\ Cash = 0
         /\ ledger[Len(ledger)].cash = 0
<1> DEFINE n == Len(ledger)
<1>1. /\ n \in Nat /\ DOMAIN ledger = 1..n /\ final \in Nat /\ final <= n /\ sends \in Nat
      /\ \A i \in 1..n : ledger[i].id \in Nat /\ ledger[i].cash \in Nat
  <2>1. \A i \in DOMAIN ledger : ledger[i] \in ResultType
    BY ElementOfSeq, LenProperties DEF ScriptOrder, ChainTyped
  <2> QED
    BY <2>1, LenProperties DEF ScriptOrder, ChainTyped, FileOrder, ResultType
<1>2. \A id \in 1..sends : \E i \in 1..n : ledger[i].id = id /\ i <= final
  <2> SUFFICES ASSUME NEW id \in 1..sends PROVE \E i \in 1..n : ledger[i].id = id /\ i <= final
    OBVIOUS
  <2>1. PICK k \in DOMAIN file.transactions : file.transactions[k].id = id
    BY DEF OnRecord
  <2>2. Verified(file.transactions[k])
    BY DEF Complete
  <2> QED
    BY <1>1, <2>1, <2>2 DEF Verified, Receipt
<1>3. DOMAIN mempool = {}
  <2> SUFFICES ASSUME NEW j \in DOMAIN mempool PROVE FALSE
    OBVIOUS
  <2>1. mempool[j] \in SentType
    BY ElementOfSeq, LenProperties DEF ScriptOrder, ChainTyped
  <2>2. mempool[j].id \in 1..sends
    BY <1>1, <2>1 DEF ScriptOrder, OneCopy, SentType
  <2>3. PICK i \in DOMAIN ledger : ledger[i].id = mempool[j].id
    BY <1>1, <1>2, <2>2
  <2> QED
    BY <2>3 DEF ScriptOrder, OneCopy
<1>4. ledger # <<>> /\ Cash = 0
  BY DEF Complete, Has
<1>5. n \in 1..n /\ ledger[n].cash = 0
  BY <1>1, <1>4, CashType DEF ScriptOrder, ChainTyped
<1>6. PICK i \in 1..final : ledger[i].label = "recover" /\ ledger[i].ok
  BY CompleteRecovery
<1> HIDE DEF n
<1>7. PICK j \in DOMAIN ledger : j < i /\ ledger[j].label = "native-execute" /\ ledger[j].ok
  <2>1. i \in DOMAIN ledger
    BY <1>1, <1>6
  <2> QED
    BY <1>6, <2>1 DEF ScriptOrder, InOrder, Before
<1>8. final = n
  <2> SUFFICES ASSUME final < n PROVE FALSE
    BY <1>1
  <2>1. ledger[n].id = 0
    <3> SUFFICES ASSUME ledger[n].id # 0 PROVE FALSE
      OBVIOUS
    <3>1. ledger[n].id \in 1..sends
      BY <1>1, <1>5 DEF ScriptOrder, OneCopy
    <3>2. PICK b \in 1..n : ledger[b].id = ledger[n].id /\ b <= final
      BY <1>2, <3>1
    <3>3. b = n
      BY <1>1, <1>5, <3>2 DEF ScriptOrder, OneCopy
    <3> QED
      BY <1>1, <3>2, <3>3
  <2>2. ledger[n].ok /\ ledger[n].label \in {"native-execute", "recover", "transfer"}
    BY <1>1, <1>5, <2>1 DEF Strangers
  <2>3. i \in 1..n /\ i # n /\ j \in 1..n /\ j # n
    BY <1>1, <1>6, <1>7
  <2>4. ledger[n].label \notin {"native-execute", "recover"}
    BY <1>1, <1>5, <1>6, <1>7, <2>2, <2>3 DEF Strangers
  <2>5. ledger[n].cash > 0
    BY <1>1, <1>5, <2>2, <2>4 DEF Strangers
  <2> QED
    BY <1>5, <2>5
<1> QED
  BY <1>1, <1>3, <1>4, <1>5, <1>8 DEF n

\* The report that is made now.
LEMMA ReportHolds ==
  ASSUME ScriptOrder, Strangers, Report
  PROVE  Reported'
<1>1. /\ Complete /\ UNCHANGED <<file, proc, mempool, ledger, final, resolved, sends, reorgs>>
      /\ reported' = IF \A id \in 1..sends : OnRecord(id) THEN "accounted" ELSE "complete"
  BY DEF Report
<1>2. \E i \in 1..final : ledger[i].label = "recover" /\ ledger[i].ok
  BY <1>1, CompleteRecovery
<1>3. CASE \A id \in 1..sends : OnRecord(id)
  <2>1. DOMAIN mempool = {} /\ final = Len(ledger) /\ Len(ledger) \in DOMAIN ledger /\ ledger[Len(ledger)].cash = 0
    BY <1>1, <1>3, AccountedHead
  <2>2. /\ Len(ledger) \in Nat /\ DOMAIN ledger = 1..Len(ledger)
        /\ \A i \in DOMAIN ledger : ~(i > Len(ledger))
    BY LenProperties DEF ScriptOrder, ChainTyped
  <2>3. \E i \in 1..final : ledger[i].label = "revoke" /\ ledger[i].ok
    BY <1>1, <2>1, <2>2 DEF Complete, Has
  <2>4. \E i \in 1..final : GiftsAfter(i)
    BY <2>1, <2>2 DEF GiftsAfter
  <2>5. file.phase = "RECOVERED_AND_WITHDRAWN"
    BY <1>1 DEF Complete
  <2> QED
    BY <1>1, <1>2, <1>3, <2>1, <2>2, <2>3, <2>4, <2>5 DEF Reported, GiftsAfter
<1>4. CASE ~\A id \in 1..sends : OnRecord(id)
  BY <1>1, <1>2, <1>4 DEF Reported
<1> QED
  BY <1>3, <1>4

\* The label of a transaction that waits is one that waited, or of a replaced block, or of the
\* step that sent it.
LEMMA LabelsWaiting ==
  ASSUME ScriptOrder, [ScriptNext]_scriptVars
  PROVE  \A i \in DOMAIN mempool' :
           \/ \E j \in DOMAIN mempool : mempool[j].label = mempool'[i].label
           \/ \E j \in DOMAIN ledger : j > final /\ ledger[j].id # 0 /\ ledger[j].label = mempool'[i].label
           \/ Send /\ mempool'[i].label = StepLabel
<1>1. CASE Mine
  <2>1. /\ Len(mempool) \in Nat /\ DOMAIN mempool = 1..Len(mempool) /\ DOMAIN mempool' = 1..(Len(mempool) - 1)
        /\ \A i \in 1..(Len(mempool) - 1) : mempool'[i] = mempool[i + 1]
    BY <1>1, MineShape DEF ScriptOrder
  <2>2. \A i \in DOMAIN mempool' : i + 1 \in DOMAIN mempool /\ mempool'[i] = mempool[i + 1]
    BY <2>1
  <2> QED
    BY <2>2
<1>2. CASE Send
  <2>1. /\ Len(mempool) \in Nat /\ DOMAIN mempool = 1..Len(mempool) /\ DOMAIN mempool' = 1..(Len(mempool) + 1)
        /\ \A i \in 1..Len(mempool) : mempool'[i] = mempool[i]
        /\ mempool'[Len(mempool) + 1].label = StepLabel
    BY <1>2, SendShape
  <2>2. \A i \in DOMAIN mempool' : i \in DOMAIN mempool \/ i = Len(mempool) + 1
    BY <2>1
  <2> QED
    BY <1>2, <2>1, <2>2
<1>3. CASE Reorg
  <2> DEFINE n == Len(ledger)
             m == Len(mempool)
  <2>1. /\ n \in Nat /\ m \in Nat /\ DOMAIN ledger = 1..n /\ DOMAIN mempool = 1..m /\ final < n /\ n \in 1..n
        /\ \E back \in SentType :
             /\ back.id = ledger[n].id /\ back.label = ledger[n].label
             /\ \/ ledger[n].id = 0 /\ mempool' = mempool
                \/ /\ ledger[n].id # 0 /\ DOMAIN mempool' = 1..(m + 1) /\ mempool'[1] = back
                   /\ \A i \in 2..(m + 1) : i - 1 \in 1..m /\ mempool'[i] = mempool[i - 1]
    BY <1>3, ReorgShape
  <2>2. final \in Nat
    BY DEF ScriptOrder, ChainTyped
  <2> HIDE DEF n, m
  <2>3. \A i \in 1..(m + 1) : i = 1 \/ i \in 2..(m + 1)
    BY <2>1
  <2>4. n \in DOMAIN ledger /\ n > final
    BY <2>1, <2>2
  <2> QED
    BY <2>1, <2>3, <2>4
<1>4. CASE ScriptNext /\ ~Mine /\ ~Send /\ ~Reorg
  <2>1. mempool' = mempool
    BY <1>4 DEF ScriptNext, Start, Stop, Reconcile, Reconciled, ReadBalance, Save, Mined, Proceed,
                Confirm, Resolve, Report, Others, chainVars
  <2> QED
    BY <2>1
<1> QED
  BY <1>1, <1>2, <1>3, <1>4 DEF scriptVars, chainVars

\* After the last phase the script can only recover and withdraw, and keeps the phase.
LEMMA LastPhase ==
  ASSUME ScriptOrder, file.phase = "RECOVERED_AND_WITHDRAWN", [ScriptNext]_scriptVars
  PROVE  /\ file'.phase = "RECOVERED_AND_WITHDRAWN"
         /\ Send => StepLabel \in {"recover", "withdraw"}
<1>1. ProcOrder /\ FileOrder
  BY DEF ScriptOrder
<1>2. proc # Off /\ proc.stage # "reconcile" => proc.mode = "recover"
  BY <1>1 DEF ProcOrder, FileOrder, ProcType
<1>3. Send => StepLabel \in {"recover", "withdraw"}
  <2> SUFFICES ASSUME Send PROVE StepLabel \in {"recover", "withdraw"}
    OBVIOUS
  <2>1. proc # Off /\ proc.stage # "reconcile"
    BY DEF Send
  <2> QED
    BY <1>1, <1>2, <2>1, StepCases DEF StepAt
<1>4. CASE Proceed
  <2>1. proc # Off /\ proc.stage # "reconcile" /\ file'.phase = PhaseAfter(StepLabel)
    BY <1>4, ProceedShape
  <2>2. StepLabel \in {"recover", "withdraw"}
    BY <1>1, <1>2, <2>1, StepCases DEF StepAt
  <2> QED
    BY <1>3, <2>1, <2>2 DEF PhaseAfter
<1>5. CASE Reconcile
  BY <1>3, <1>5, ReconcileShape
<1>6. CASE Mined
  BY <1>3, <1>6, MinedShape
<1>7. CASE Save
  BY <1>3, <1>7, SaveShape
<1>8. CASE \E mode \in {"run", "signal", "recover"} : Start(mode)
  BY <1>3, <1>8 DEF Start
<1>9. CASE ScriptNext /\ ~Proceed /\ ~Reconcile /\ ~Mined /\ ~Save
             /\ ~\E mode \in {"run", "signal", "recover"} : Start(mode)
  <2>1. file' = file
    BY <1>9 DEF ScriptNext, Stop, Reconciled, ReadBalance, Send, Mine, Confirm, Reorg, Resolve, Report, Others
  <2> QED
    BY <1>3, <2>1
<1>10. CASE UNCHANGED scriptVars
  BY <1>3, <1>10 DEF scriptVars
<1> QED
  BY <1>4, <1>5, <1>6, <1>7, <1>8, <1>9, <1>10

\* Final blocks stay, and the others only grow in number beyond them.
LEMMA FinalStays ==
  ASSUME ScriptOrder, [ScriptNext]_scriptVars
  PROVE  /\ final \in Nat /\ final' \in Nat /\ final <= final' /\ (final' # final => ledger' = ledger)
         /\ \A i \in 1..final : i \in DOMAIN ledger /\ ledger'[i] = ledger[i] /\ i \in 1..final'
<1>1. /\ final \in Nat /\ Len(ledger) \in Nat /\ DOMAIN ledger = 1..Len(ledger) /\ final <= Len(ledger)
  BY LenProperties DEF ScriptOrder, ChainTyped, FileOrder
<1>2. final' = final \/ (final' = final + 1 /\ ledger' = ledger)
  BY DEF ScriptNext, Start, Stop, Reconcile, Reconciled, ReadBalance, Send, Save, Mined, Proceed, Mine, Confirm,
         Reorg, Resolve, Report, Others, chainVars, scriptVars
<1>3. \A i \in 1..final : i \in DOMAIN ledger /\ i \in 1..final'
  BY <1>1, <1>2
<1>4. \A i \in 1..final : ledger'[i] = ledger[i]
  <2>1. CASE \E r : Mineable(r)
    BY <1>1, <2>1, GrowsShape DEF Mineable, ScriptOrder, ChainTyped
  <2>2. CASE Reorg
    <3>1. final < Len(ledger) /\ \A i \in 1..(Len(ledger) - 1) : ledger'[i] = ledger[i]
      BY <2>2, ReorgShape
    <3> QED
      BY <1>1, <3>1
  <2> QED
    BY <2>1, <2>2, LedgerMoves
<1> QED
  BY <1>1, <1>2, <1>3, <1>4

\* Once everything sent is accounted for, only transfers of others bring the vault money.
LEMMA GiftsStay ==
  ASSUME ScriptOrder, Reported, reported = "accounted", [ScriptNext]_scriptVars,
         NEW i \in 1..final, GiftsAfter(i)
  PROVE  GiftsAfter(i)'
<1> DEFINE n == Len(ledger)
<1>1. /\ n \in Nat /\ DOMAIN ledger = 1..n /\ final \in Nat /\ final <= n
  BY LenProperties DEF ScriptOrder, ChainTyped, FileOrder
<1>2. i \in 1..n /\ ledger'[i] = ledger[i]
  BY <1>1, FinalStays
<1>3. CASE ledger' = ledger
  BY <1>3 DEF GiftsAfter
<1>4. CASE \E r : Mineable(r)
  <2>1. PICK r : Mineable(r)
    BY <1>4
  <2>2. /\ DOMAIN ledger' = 1..(n + 1) /\ ledger'[n + 1] = r
        /\ \A j \in 1..n : ledger'[j] = ledger[j]
    BY <2>1, GrowsShape DEF ScriptOrder, ChainTyped, Mineable
  <2>3. ledger # <<>>
    BY <1>2
  <2>4. Cash = ledger[n].cash
    BY <2>3, CashType DEF ScriptOrder, ChainTyped
  <2> HIDE DEF n
  <2>5. Has("recover")
    BY <1>1 DEF Reported, Has
  <2>6. r.label = "recover" => ~r.ok
    BY <2>1, <2>5 DEF Mineable, Grows, Effective, Position
  <2>7. r.label # "deposit"
    <3>1. r.id = 0 => r.label # "deposit"
      BY <2>1 DEF Mineable
    <3>2. r.id # 0 => r.label \in {"recover", "withdraw"}
      BY <2>1 DEF Mineable, Reported
    <3> QED
      BY <3>1, <3>2
  <2>8. r.cash > Cash => r.label = "transfer"
    BY <2>1, <2>6, <2>7 DEF Mineable, Grows
  <2>9. ASSUME NEW j \in 1..(n + 1), j > i, ledger'[j].cash > ledger'[j - 1].cash
        PROVE  ledger'[j].label = "transfer"
    <3>1. j - 1 \in 1..n
      BY <1>1, <1>2, <2>9
    <3>2. CASE j \in 1..n
      BY <1>1, <2>2, <2>9, <3>1, <3>2 DEF GiftsAfter
    <3>3. CASE j = n + 1
      <4>1. j - 1 = n
        BY <1>1, <3>3
      <4> QED
        BY <2>2, <2>4, <2>8, <2>9, <3>1, <3>3, <4>1
    <3> QED
      BY <1>1, <3>2, <3>3
  <2> QED
    BY <1>2, <2>2, <2>9 DEF GiftsAfter
<1>5. CASE Reorg
  <2>1. /\ DOMAIN ledger' = 1..(n - 1)
        /\ \A j \in 1..(n - 1) : j \in 1..n /\ ledger'[j] = ledger[j]
    BY <1>5, ReorgShape
  <2> HIDE DEF n
  <2>2. \A j \in 1..(n - 1) : j > i => j - 1 \in 1..(n - 1)
    BY <1>1, <1>2
  <2> QED
    BY <1>1, <1>2, <2>1, <2>2 DEF GiftsAfter
<1> QED
  BY <1>3, <1>4, <1>5, LedgerMoves

\* What a report rests on stays where it is.
LEMMA ReportedStep ==
  ASSUME ScriptOrder, Strangers, Reported, [ScriptNext]_scriptVars
  PROVE  Reported'
<1>1. CASE Report
  BY <1>1, ReportHolds
<1>2. CASE reported' = reported
  <2>1. /\ final \in Nat /\ final' \in Nat /\ final <= final' /\ (final' # final => ledger' = ledger)
        /\ \A i \in 1..final : i \in DOMAIN ledger /\ ledger'[i] = ledger[i] /\ i \in 1..final'
    BY FinalStays
  <2>2. \A label : (\E i \in 1..final : ledger[i].label = label /\ ledger[i].ok)
                     => \E i \in 1..final' : ledger'[i].label = label /\ ledger'[i].ok
    BY <2>1
  <2>3. reported' # "nothing" => \E i \in 1..final' : ledger'[i].label = "recover" /\ ledger'[i].ok
    BY <1>2, <2>2 DEF Reported
  <2>4. ASSUME reported = "accounted"
        PROVE  /\ \E i \in 1..final' : ledger'[i].label = "revoke" /\ ledger'[i].ok
               /\ \E i \in 1..final' : GiftsAfter(i)'
               /\ file'.phase = "RECOVERED_AND_WITHDRAWN"
               /\ \A i \in DOMAIN mempool' : mempool'[i].label \in {"recover", "withdraw"}
               /\ \A i \in DOMAIN ledger' : i > final' =>
                    ledger'[i].id = 0 \/ ledger'[i].label \in {"recover", "withdraw"}
    <3>1. \E i \in 1..final' : ledger'[i].label = "revoke" /\ ledger'[i].ok
      BY <2>2, <2>4 DEF Reported
    <3>2. \E i \in 1..final' : GiftsAfter(i)'
      <4>1. PICK i \in 1..final : GiftsAfter(i)
        BY <2>4 DEF Reported
      <4>2. GiftsAfter(i)'
        BY <2>4, <4>1, GiftsStay
      <4> QED
        BY <2>1, <4>1, <4>2
    <3>3. file'.phase = "RECOVERED_AND_WITHDRAWN" /\ (Send => StepLabel \in {"recover", "withdraw"})
      BY <2>4, LastPhase DEF Reported
    <3>4. \A i \in DOMAIN mempool' : mempool'[i].label \in {"recover", "withdraw"}
      BY <2>4, <3>3, LabelsWaiting DEF Reported
    <3>5. \A i \in DOMAIN ledger' : i > final' =>
            ledger'[i].id = 0 \/ ledger'[i].label \in {"recover", "withdraw"}
      <4> DEFINE n == Len(ledger)
      <4>1. n \in Nat /\ DOMAIN ledger = 1..n
        BY LenProperties DEF ScriptOrder, ChainTyped
      <4>2. \A i \in DOMAIN ledger : i > final => ledger[i].id = 0 \/ ledger[i].label \in {"recover", "withdraw"}
        BY <2>4 DEF Reported
      <4>3. CASE ledger' = ledger
        <5>1. \A i \in DOMAIN ledger' : i > final' => i > final
          BY <2>1, <4>1, <4>3
        <5> QED
          BY <4>2, <4>3, <5>1
      <4>4. CASE final' = final /\ \E r : Mineable(r)
        <5>1. PICK r : Mineable(r)
          BY <4>4
        <5>2. /\ DOMAIN ledger' = 1..(n + 1) /\ ledger'[n + 1] = r
              /\ \A j \in 1..n : ledger'[j] = ledger[j]
          BY <5>1, GrowsShape DEF ScriptOrder, ChainTyped, Mineable
        <5> HIDE DEF n
        <5>3. \A j \in 1..(n + 1) : j \in 1..n \/ j = n + 1
          BY <4>1
        <5>4. r.id = 0 \/ r.label \in {"recover", "withdraw"}
          BY <2>4, <5>1 DEF Mineable, Reported
        <5> QED
          BY <4>1, <4>2, <4>4, <5>2, <5>3, <5>4
      <4>5. CASE Reorg
        <5>1. \A j \in DOMAIN ledger' : j \in DOMAIN ledger /\ ledger'[j] = ledger[j]
          BY <4>5, ReorgShape
        <5>2. final' = final
          BY <4>5 DEF Reorg
        <5> QED
          BY <4>2, <5>1, <5>2
      <4> QED
        BY <4>3, <4>4, <4>5, LedgerMoves
    <3> QED
      BY <3>1, <3>2, <3>3, <3>4, <3>5
  <2> QED
    BY <1>2, <2>3, <2>4, Zenon DEF Reported
<1>3. Report \/ reported' = reported
  BY DEF ScriptNext, Start, Stop, Reconcile, Reconciled, ReadBalance, Send, Save, Mined, Proceed, Mine, Confirm,
         Reorg, Resolve, Report, Others, chainVars, scriptVars
<1> QED
  BY <1>1, <1>2, <1>3

-----------------------------------------------------------------------------
(* The operator's script: what the file claims when no block was replaced  *)

\* A transaction that was sent, is not on record and never will be.
Lost(id) ==
  /\ id \in 1..sends
  /\ \A i \in DOMAIN file.transactions : file.transactions[i].id # id
  /\ proc.stage = "sent" => proc.id # id

\* Lost, in the next state.
LostNext(id) ==
  /\ id \in 1..sends'
  /\ \A i \in DOMAIN file'.transactions : file'.transactions[i].id # id
  /\ proc'.stage = "sent" => proc'.id # id

\* An entry with a receipt has one on the chain, and a success happened.
Recorded ==
  \A i \in DOMAIN file.transactions :
    /\ file.transactions[i].status # "SUBMITTED" => Receipt(file.transactions[i].id) # {}
    /\ file.transactions[i].status = "MINED_SUCCESS" => Has(file.transactions[i].label)

\* Of every kind but the last withdrawal one entry at most is pending or has succeeded, also
\* after the next Save.
OneLive ==
  /\ \A i, j \in DOMAIN file.transactions :
       file.transactions[i].label = file.transactions[j].label /\ file.transactions[i].label # "withdraw"
         /\ file.transactions[i].status # "REVERTED" /\ file.transactions[j].status # "REVERTED" => i = j
  /\ proc.stage \in {"read", "sent"} /\ StepLabel # "withdraw" => MaySubmit(StepLabel)

\* What a command has done, by the phase of the file and by its step.
Progress ==
  /\ file.phase = "ENROLLED_WAITING_SIGNAL" => Has("enroll")
  /\ file.phase = "SIGNAL_ANCHORED" => Has("anchor-signal")
  /\ file.phase = "AWAITING_SETTLEMENT" => Filled /\ Has("revoke") /\ Has("withdraw-unused")
  /\ proc.mode = "signal" /\ proc.step >= 2 => file.phase = "SIGNAL_ANCHORED"
  /\ proc.mode = "signal" /\ proc.step >= 3 => Filled
  /\ proc.mode = "signal" /\ proc.step >= 4 => Has("revoke")
  /\ proc.mode = "recover" /\ proc.stage # "reconcile" => Has("create-vault")
  /\ proc.mode = "recover" /\ proc.step = 2 => ~Position
  /\ proc.stage = "mined" => Has(StepLabel)

\* The vault was empty after block i, and only transfers of others and lost deposits came in
\* since.
EmptyButLost(i) ==
  /\ ledger[i].cash = 0
  /\ \A j \in DOMAIN ledger : j > i /\ ledger[j].cash > ledger[j - 1].cash =>
       ledger[j].label = "transfer" \/ (ledger[j].label = "deposit" /\ Lost(ledger[j].id))

\* The last phase: no position, nothing to recover, and an emptied vault.
Emptied ==
  file.phase = "RECOVERED_AND_WITHDRAWN" =>
    /\ resolved /\ ~Position
    /\ \E i \in DOMAIN ledger : EmptyButLost(i)
    /\ \A i \in DOMAIN mempool : mempool[i].label = "deposit" => Lost(mempool[i].id)

\* What the file claims of the chain.
Claims == Recorded /\ OneLive /\ Progress /\ Emptied

\* The inductive invariant of the script.
ScriptInv == ScriptOrder /\ Strangers /\ Reported /\ (reorgs = 0 => Claims)

\* A trade presupposes the whole story before it.
LEMMA HasChain ==
  ASSUME InOrder
  PROVE  /\ Has("recover") => Has("native-execute")
         /\ Has("native-execute") => Has("anchor-signal")
         /\ Has("anchor-signal") => Has("enroll")
         /\ Has("enroll") => Has("create-vault")
BY DEF InOrder, Before, Has

\* Has, in the next state.
HasNext(label) == \E i \in DOMAIN ledger' : ledger'[i].label = label /\ ledger'[i].ok

\* What one more block changes: everything that has happened stays so, and a market with an
\* outcome takes no order.
LEMMA GrowsClaims ==
  ASSUME ScriptOrder, NEW r, Grows(r), UNCHANGED resolved
  PROVE  /\ \A label : Has(label) => HasNext(label)
         /\ \A id : Receipt(id) # {} => \E i \in DOMAIN ledger' : ledger'[i].id = id
         /\ Filled => Filled'
         /\ resolved /\ ~Position => ~Position'
<1> DEFINE n == Len(ledger)
<1>1. /\ n \in Nat /\ DOMAIN ledger = 1..n /\ DOMAIN ledger' = 1..(n + 1)
      /\ \A i \in 1..n : ledger'[i] = ledger[i]
      /\ ledger'[n + 1] = r
  BY GrowsShape DEF ScriptOrder, ChainTyped
<1> HIDE DEF n
<1>2. /\ \A i \in 1..(n + 1) : i \in 1..n \/ i = n + 1
      /\ \A i \in 1..n : i \in 1..(n + 1)
  BY <1>1
<1>3. \A label : Has(label) => HasNext(label)
  BY <1>1, <1>2 DEF Has, HasNext
<1>4. \A id : Receipt(id) # {} => \E i \in DOMAIN ledger' : ledger'[i].id = id
  BY <1>1, <1>2 DEF Receipt
<1>5. Filled => Filled'
  BY <1>1, <1>2 DEF Filled
<1>6. resolved /\ ~Position => ~Position'
  <2> SUFFICES ASSUME resolved, Position' PROVE Position
    OBVIOUS
  <2>1. ~HasNext("recover")
    BY DEF Position, Has, HasNext
  <2>2. r.label = "native-execute" => ~r.ok
    BY DEF Grows, Effective
  <2>3. Filled
    BY <1>1, <1>2, <2>2 DEF Position, Filled
  <2> QED
    BY <1>3, <2>1, <2>3 DEF Position
<1> QED
  BY <1>3, <1>4, <1>5, <1>6

\* Money comes back to an emptied vault only by a transfer, or by a deposit that was never
\* recorded.
LEMMA GrowsKeepsEmpty ==
  ASSUME ScriptOrder, NEW r, Grows(r), UNCHANGED <<file, proc, sends>>, ~Position,
         r.label = "deposit" => Lost(r.id),
         NEW i \in DOMAIN ledger, EmptyButLost(i)
  PROVE  i \in DOMAIN ledger' /\ EmptyButLost(i)'
<1> DEFINE n == Len(ledger)
<1>1. /\ n \in Nat /\ DOMAIN ledger = 1..n /\ DOMAIN ledger' = 1..(n + 1)
      /\ \A j \in 1..n : j \in 1..(n + 1) /\ ledger'[j] = ledger[j]
      /\ ledger'[n + 1] = r
  BY GrowsShape DEF ScriptOrder, ChainTyped
<1>2. Cash = ledger[n].cash
  <2>1. ledger # <<>>
    BY <1>1
  <2> QED
    BY <2>1, CashType DEF ScriptOrder, ChainTyped
<1> HIDE DEF n
<1>3. \A id : Lost(id) => LostNext(id)
  BY DEF Lost, LostNext
<1>4. r.cash > Cash => r.label = "transfer" \/ (r.label = "deposit" /\ Lost(r.id))
  BY DEF Grows, Effective
<1>5. ASSUME NEW j \in 1..(n + 1), j > i, ledger'[j].cash > ledger'[j - 1].cash
      PROVE  ledger'[j].label = "transfer" \/ (ledger'[j].label = "deposit" /\ Lost(ledger'[j].id))
  <2>1. j - 1 \in 1..n
    BY <1>1, <1>5
  <2>2. CASE j \in 1..n
    BY <1>1, <1>5, <2>1, <2>2 DEF EmptyButLost
  <2>3. CASE j = n + 1
    <3>1. j - 1 = n
      BY <1>1, <2>3
    <3> QED
      BY <1>1, <1>2, <1>4, <1>5, <2>1, <2>3, <3>1
  <2> QED
    BY <1>1, <2>2, <2>3
<1>6. \A j \in DOMAIN ledger' : j > i /\ ledger'[j].cash > ledger'[j - 1].cash =>
        ledger'[j].label = "transfer" \/ (ledger'[j].label = "deposit" /\ LostNext(ledger'[j].id))
  BY <1>1, <1>3, <1>5
<1> QED
  BY <1>1, <1>6 DEF EmptyButLost, Lost, LostNext

\* A block can only confirm what the file says.
LEMMA GrowsKeepsClaims ==
  ASSUME ScriptOrder, Claims, NEW r, Grows(r), UNCHANGED <<file, proc, resolved, sends>>,
         r.label = "deposit" /\ file.phase = "RECOVERED_AND_WITHDRAWN" => Lost(r.id),
         \A i \in DOMAIN mempool' : \E j \in DOMAIN mempool :
           mempool[j].id = mempool'[i].id /\ mempool[j].label = mempool'[i].label
  PROVE  Claims'
<1>1. /\ \A label : Has(label) => HasNext(label)
      /\ \A id : Receipt(id) # {} => \E i \in DOMAIN ledger' : ledger'[i].id = id
      /\ Filled => Filled'
      /\ resolved /\ ~Position => ~Position'
  BY GrowsClaims
<1>2. Recorded /\ OneLive /\ Progress /\ Emptied /\ ProcOrder /\ FileOrder
  BY DEF Claims, ScriptOrder
<1>3. Recorded'
  <2>1. \A i \in DOMAIN file.transactions :
          /\ file.transactions[i].status # "SUBMITTED" =>
               \E b \in DOMAIN ledger' : ledger'[b].id = file.transactions[i].id
          /\ file.transactions[i].status = "MINED_SUCCESS" => HasNext(file.transactions[i].label)
    BY <1>1, <1>2 DEF Recorded
  <2> QED
    BY <2>1 DEF Recorded, Receipt, Has, HasNext
<1>4. OneLive'
  BY <1>2 DEF OneLive, MaySubmit, Entries, StepLabel
<1>5. Progress'
  <2>1. \A label : Has(label)' <=> HasNext(label)
    BY DEF Has, HasNext
  <2>2. /\ Has("enroll") => Has("enroll")'
        /\ Has("anchor-signal") => Has("anchor-signal")'
        /\ Has("revoke") => Has("revoke")'
        /\ Has("withdraw-unused") => Has("withdraw-unused")'
        /\ Has("create-vault") => Has("create-vault")'
    BY <1>1, SMTT(40) DEF Has, HasNext
  <2>3. proc.mode = "recover" /\ proc.step = 2 => ~Position'
    <3>1. proc.mode = "recover" /\ proc.step = 2 => resolved
      BY <1>2 DEF ProcOrder, FileOrder
    <3> QED
      BY <1>1, <1>2, <3>1 DEF Progress
  <2>4. proc.stage = "mined" => HasNext(StepLabel)
    BY <1>1, <1>2 DEF Progress
  <2>5. (proc.stage = "mined" => Has(StepLabel))'
    BY <2>4 DEF Has, HasNext, StepLabel
  <2> QED
    BY <1>1, <1>2, <2>2, <2>3, <2>5 DEF Progress
<1>6. Emptied'
  <2> SUFFICES ASSUME file.phase = "RECOVERED_AND_WITHDRAWN"
               PROVE  /\ resolved' /\ ~Position'
                      /\ \E i \in DOMAIN ledger' : EmptyButLost(i)'
                      /\ \A i \in DOMAIN mempool' : mempool'[i].label = "deposit" => Lost(mempool'[i].id)
    BY DEF Emptied, Lost
  <2>1. resolved /\ ~Position
    BY <1>2 DEF Emptied
  <2>2. PICK i \in DOMAIN ledger : EmptyButLost(i)
    BY <1>2 DEF Emptied
  <2>3. i \in DOMAIN ledger' /\ EmptyButLost(i)'
    BY <2>1, <2>2, GrowsKeepsEmpty
  <2>4. \A j \in DOMAIN mempool' : mempool'[j].label = "deposit" => Lost(mempool'[j].id)
    BY <1>2 DEF Emptied
  <2> QED
    BY <1>1, <2>1, <2>3, <2>4
<1> QED
  BY <1>3, <1>4, <1>5, <1>6 DEF Claims

\* A mined transaction of the script keeps the claims of the file.
LEMMA MineKeepsClaims == ScriptOrder /\ Claims /\ Mine => Claims'
<1> SUFFICES ASSUME ScriptOrder, Claims, Mine PROVE Claims'
  OBVIOUS
<1>1. ChainTyped /\ Emptied
  BY DEF ScriptOrder, Claims
<1>2. PICK r : Grows(r) /\ r.id = mempool[1].id /\ r.label = mempool[1].label
  BY <1>1, MineShape
<1>3. /\ Len(mempool) \in Nat /\ 1 <= Len(mempool)
      /\ DOMAIN mempool = 1..Len(mempool) /\ DOMAIN mempool' = 1..(Len(mempool) - 1)
      /\ \A i \in 1..(Len(mempool) - 1) : mempool'[i] = mempool[i + 1]
  BY <1>1, MineShape
<1>4. 1 \in DOMAIN mempool /\ \A i \in DOMAIN mempool' : i + 1 \in DOMAIN mempool /\ mempool'[i] = mempool[i + 1]
  BY <1>3
<1>5. UNCHANGED <<file, proc, resolved, sends>>
  BY DEF Mine
<1>6. r.label = "deposit" /\ file.phase = "RECOVERED_AND_WITHDRAWN" => Lost(r.id)
  BY <1>1, <1>2, <1>4 DEF Emptied
<1>7. \A i \in DOMAIN mempool' : \E j \in DOMAIN mempool :
        mempool[j].id = mempool'[i].id /\ mempool[j].label = mempool'[i].label
  BY <1>4
<1> QED
  BY <1>2, <1>5, <1>6, <1>7, GrowsKeepsClaims

\* What others send keeps the claims of the file.
LEMMA OthersKeepsClaims ==
  ASSUME ScriptOrder, Claims, NEW label \in {"native-execute", "recover", "transfer"}, Others(label)
  PROVE  Claims'
<1>1. PICK r : Grows(r) /\ r.id = 0 /\ r.label = label
  BY OthersShape DEF ScriptOrder
<1>2. UNCHANGED <<file, proc, resolved, sends, mempool>>
  BY DEF Others
<1>3. r.label # "deposit"
  BY <1>1
<1> QED
  BY <1>1, <1>2, <1>3, GrowsKeepsClaims

\* What the script writes down leaves what has happened as it was.
LEMMA SameLedger ==
  ASSUME UNCHANGED ledger
  PROVE  /\ \A label : HasNext(label) <=> Has(label)
         /\ Has("create-vault")' <=> Has("create-vault")
         /\ Has("enroll")' <=> Has("enroll")
         /\ Has("anchor-signal")' <=> Has("anchor-signal")
         /\ Has("revoke")' <=> Has("revoke")
         /\ Has("withdraw-unused")' <=> Has("withdraw-unused")
         /\ Filled' <=> Filled
         /\ Position' <=> Position
<1>1. \A label : HasNext(label) <=> Has(label)
  BY DEF Has, HasNext
<1>2. /\ Has("create-vault")' <=> Has("create-vault")
      /\ Has("enroll")' <=> Has("enroll")
      /\ Has("anchor-signal")' <=> Has("anchor-signal")
      /\ Has("revoke")' <=> Has("revoke")
      /\ Has("withdraw-unused")' <=> Has("withdraw-unused")
  BY DEF Has
<1>3. (Filled' <=> Filled) /\ (Has("recover")' <=> Has("recover"))
  BY DEF Filled, Has
<1>4. Position' <=> Position
  BY <1>3 DEF Position
<1> QED
  BY <1>1, <1>2, <1>3, <1>4

\* The claim about an emptied vault, when neither it nor the waiting transactions changed.
LEMMA EmptiedKept ==
  ASSUME Emptied, UNCHANGED ledger, resolved => resolved',
         \A id : Lost(id) => LostNext(id),
         \A i \in DOMAIN mempool' : mempool'[i].label = "deposit" =>
           LostNext(mempool'[i].id) \/ \E j \in DOMAIN mempool : mempool[j] = mempool'[i],
         file'.phase = "RECOVERED_AND_WITHDRAWN" => file.phase = "RECOVERED_AND_WITHDRAWN"
  PROVE  Emptied'
<1> SUFFICES ASSUME file'.phase = "RECOVERED_AND_WITHDRAWN"
             PROVE  /\ resolved' /\ ~Position'
                    /\ \E i \in DOMAIN ledger : EmptyButLost(i)'
                    /\ \A i \in DOMAIN mempool' : mempool'[i].label = "deposit" => LostNext(mempool'[i].id)
  BY DEF Emptied, Lost, LostNext
<1>1. resolved' /\ ~Position'
  BY SameLedger DEF Emptied
<1>2. PICK i \in DOMAIN ledger : EmptyButLost(i)
  BY DEF Emptied
<1>3. EmptyButLost(i)'
  <2>1. \A j \in DOMAIN ledger : j > i /\ ledger[j].cash > ledger[j - 1].cash =>
          ledger[j].label = "transfer" \/ (ledger[j].label = "deposit" /\ LostNext(ledger[j].id))
    BY <1>2 DEF EmptyButLost
  <2> QED
    BY <1>2, <2>1 DEF EmptyButLost, Lost, LostNext
<1>4. \A j \in DOMAIN mempool' : mempool'[j].label = "deposit" => LostNext(mempool'[j].id)
  BY DEF Emptied
<1> QED
  BY <1>1, <1>2, <1>3, <1>4

\* Confirmations, an outcome of the market and a report keep the claims of the file.
LEMMA ConfirmKeepsClaims == ScriptOrder /\ Claims /\ (Confirm \/ Resolve \/ Report) => Claims'
<1> SUFFICES ASSUME ScriptOrder, Claims, Confirm \/ Resolve \/ Report PROVE Claims'
  OBVIOUS
<1>1. UNCHANGED <<file, proc, mempool, ledger, sends>> /\ (resolved => resolved')
  BY DEF Confirm, Resolve, Report
<1>2. Recorded /\ OneLive /\ Progress /\ Emptied
  BY DEF Claims
<1>3. Recorded' /\ OneLive'
  BY <1>1, <1>2 DEF Recorded, OneLive, MaySubmit, Entries, StepLabel, Receipt, Has
<1>4. Progress'
  <2>1. (proc.stage = "mined" => Has(StepLabel))'
    BY <1>1, <1>2 DEF Progress, Has, StepLabel
  <2> QED
    BY <1>1, <1>2, <2>1, SameLedger DEF Progress
<1>5. \A id : Lost(id) => LostNext(id)
  BY <1>1 DEF Lost, LostNext
<1>6. Emptied'
  BY <1>1, <1>2, <1>5, EmptiedKept
<1> QED
  BY <1>3, <1>4, <1>6 DEF Claims

\* A command that begins claims nothing.
LEMMA StartKeepsClaims ==
  ASSUME ScriptOrder, Claims, NEW mode \in {"run", "signal", "recover"}, Start(mode)
  PROVE  Claims'
<1>1. Recorded /\ OneLive /\ Progress /\ Emptied /\ file \in [phase : Phases, transactions : Seq(EntryType)]
  BY DEF Claims, ScriptOrder, FileOrder
<1>2. UNCHANGED <<ledger, resolved, mempool, sends>>
  BY DEF Start, chainVars
<1>3. /\ file'.transactions = file.transactions
      /\ file'.phase = IF mode = "run" THEN "DEPLOYING" ELSE file.phase
      /\ proc'.step = 1 /\ proc'.mode = mode
      /\ proc'.stage = IF mode = "run" THEN "ready" ELSE "reconcile"
  BY <1>1 DEF Start, Off
<1>4. Recorded' /\ OneLive'
  BY <1>1, <1>2, <1>3 DEF Recorded, OneLive, Receipt, Has
<1>5. Progress'
  BY <1>1, <1>2, <1>3, SameLedger DEF Progress
<1>6. \A id : Lost(id) => LostNext(id)
  BY <1>2, <1>3 DEF Lost, LostNext
<1>7. Emptied'
  BY <1>1, <1>2, <1>3, <1>6, EmptiedKept
<1> QED
  BY <1>4, <1>5, <1>7 DEF Claims

\* A command that stops, or begins its steps, claims nothing.
LEMMA StopKeepsClaims == ScriptOrder /\ Claims /\ (Stop \/ Reconciled) => Claims'
<1> SUFFICES ASSUME ScriptOrder, Claims, Stop \/ Reconciled PROVE Claims'
  OBVIOUS
<1>1. Recorded /\ OneLive /\ Progress /\ Emptied /\ proc \in ProcType
  BY DEF Claims, ScriptOrder, ProcOrder
<1>2. UNCHANGED <<ledger, resolved, mempool, sends, file>>
  BY DEF Stop, Reconciled, chainVars
<1>3. /\ proc'.stage = "ready"
      /\ \/ proc'.mode = "off"
         \/ /\ proc'.mode = proc.mode /\ proc'.step = proc.step
            /\ proc.mode = "recover" => Has("create-vault")
  <2>1. CASE Stop
    BY <2>1, OffFacts DEF Stop
  <2>2. CASE Reconciled
    BY <1>1, <2>2 DEF Reconciled, ProcType
  <2> QED
    BY <2>1, <2>2
<1>4. Recorded' /\ OneLive'
  BY <1>1, <1>2, <1>3 DEF Recorded, OneLive, Receipt, Has
<1>5. Progress'
  BY <1>1, <1>2, <1>3, SameLedger DEF Progress
<1>6. \A id : Lost(id) => LostNext(id)
  BY <1>2, <1>3 DEF Lost, LostNext
<1>7. Emptied'
  BY <1>1, <1>2, <1>6, EmptiedKept
<1> QED
  BY <1>4, <1>5, <1>7 DEF Claims

\* A receipt is there for what it is written down for, and only ends what was pending.
LEMMA ReceiptClaims ==
  ASSUME ScriptOrder, Recorded, UNCHANGED ledger, NEW i \in Submitted,
         NEW block \in Receipt(file.transactions[i].id), GetsReceipt(i, block)
  PROVE  /\ Recorded'
         /\ \A j \in DOMAIN file.transactions :
              file'.transactions[j].status # "REVERTED" => file.transactions[j].status # "REVERTED"
<1>1. /\ DOMAIN file'.transactions = DOMAIN file.transactions
      /\ \A j \in DOMAIN file.transactions :
           /\ file'.transactions[j].id = file.transactions[j].id
           /\ file'.transactions[j].label = file.transactions[j].label
           /\ j # i => file'.transactions[j] = file.transactions[j]
      /\ file'.transactions[i].status = IF ledger[block].ok THEN "MINED_SUCCESS" ELSE "REVERTED"
  BY ReceiptShape
<1>2. block \in DOMAIN ledger /\ ledger[block].id = file.transactions[i].id
  BY DEF Receipt
<1>3. i \in DOMAIN file.transactions /\ file.transactions[i].status = "SUBMITTED"
  BY DEF Submitted
<1>4. ledger[block].label = file.transactions[i].label
  BY <1>2, <1>3 DEF ScriptOrder, FileOrder, Named
<1>5. ledger[block].ok => Has(file.transactions[i].label)
  BY <1>2, <1>4 DEF Has
<1>6. \A j \in DOMAIN file.transactions :
        /\ file'.transactions[j].status # "SUBMITTED" => Receipt(file.transactions[j].id) # {}
        /\ file'.transactions[j].status = "MINED_SUCCESS" => Has(file.transactions[j].label)
  <2> SUFFICES ASSUME NEW j \in DOMAIN file.transactions
               PROVE  /\ file'.transactions[j].status # "SUBMITTED" => Receipt(file.transactions[j].id) # {}
                      /\ file'.transactions[j].status = "MINED_SUCCESS" => Has(file.transactions[j].label)
    OBVIOUS
  <2>1. CASE j = i
    BY <1>1, <1>5, <2>1
  <2>2. CASE j # i
    BY <1>1, <2>2 DEF Recorded
  <2> QED
    BY <2>1, <2>2
<1>7. Recorded'
  BY <1>1, <1>6 DEF Recorded, Receipt, Has
<1>8. \A j \in DOMAIN file.transactions :
        file'.transactions[j].status # "REVERTED" => file.transactions[j].status # "REVERTED"
  BY <1>1, <1>3
<1> QED
  BY <1>7, <1>8

\* A receipt for an entry of an earlier command keeps the claims.
LEMMA ReconcileKeepsClaims == ScriptOrder /\ Claims /\ Reconcile => Claims'
<1> SUFFICES ASSUME ScriptOrder, Claims, Reconcile PROVE Claims'
  OBVIOUS
<1>1. Recorded /\ OneLive /\ Progress /\ Emptied
  BY DEF Claims
<1>2. UNCHANGED <<ledger, resolved, mempool, sends, proc>> /\ proc.stage = "reconcile"
  BY DEF Reconcile, chainVars
<1>3. PICK i \in Submitted : \E block \in Receipt(file.transactions[i].id) :
             GetsReceipt(i, block) /\ file'.phase = file.phase
  BY ReconcileShape
<1>4. PICK block \in Receipt(file.transactions[i].id) : GetsReceipt(i, block) /\ file'.phase = file.phase
  BY <1>3
<1>5. /\ DOMAIN file'.transactions = DOMAIN file.transactions
      /\ \A j \in DOMAIN file.transactions :
           /\ file'.transactions[j].id = file.transactions[j].id
           /\ file'.transactions[j].label = file.transactions[j].label
  BY <1>4, ReceiptShape
<1>6. /\ Recorded'
      /\ \A j \in DOMAIN file.transactions :
           file'.transactions[j].status # "REVERTED" => file.transactions[j].status # "REVERTED"
  BY <1>1, <1>2, <1>4, ReceiptClaims
<1>7. OneLive'
  BY <1>1, <1>2, <1>5, <1>6 DEF OneLive
<1>8. Progress'
  BY <1>1, <1>2, <1>4, SameLedger DEF Progress
<1>9. \A id : Lost(id) => LostNext(id)
  BY <1>2, <1>5 DEF Lost, LostNext
<1>10. Emptied'
  BY <1>1, <1>2, <1>4, <1>9, EmptiedKept
<1> QED
  BY <1>6, <1>7, <1>8, <1>10 DEF Claims

\* A receipt for the transaction of this step keeps the claims; its success is the step's.
LEMMA MinedKeepsClaims == ScriptOrder /\ Claims /\ Mined => Claims'
<1> SUFFICES ASSUME ScriptOrder, Claims, Mined PROVE Claims'
  OBVIOUS
<1> DEFINE n == Len(file.transactions)
<1>1. /\ proc # Off /\ proc.stage = "saved" /\ UNCHANGED chainVars
  BY MinedShape
<1>2. PICK block \in Receipt(proc.id) :
             /\ GetsReceipt(n, block) /\ file'.phase = file.phase
             /\ \/ /\ ledger[block].ok /\ proc'.stage = "mined"
                   /\ proc'.mode = proc.mode /\ proc'.step = proc.step /\ StepLabel' = StepLabel
                \/ proc' = Off
  BY MinedShape
<1>3. /\ DOMAIN file'.transactions = DOMAIN file.transactions
      /\ \A j \in DOMAIN file.transactions :
           /\ file'.transactions[j].id = file.transactions[j].id
           /\ file'.transactions[j].label = file.transactions[j].label
  BY <1>2, ReceiptShape
<1>4. /\ Recorded /\ OneLive /\ Progress /\ Emptied /\ ProcOrder /\ FileOrder
      /\ file.transactions[n].id = proc.id /\ file.transactions[n].status = "SUBMITTED"
  BY <1>1 DEF Claims, ScriptOrder, FileOrder
<1>5. n \in Submitted
  BY <1>2, <1>4 DEF Submitted, GetsReceipt
<1>6. UNCHANGED <<ledger, resolved, mempool, sends>>
  BY <1>1 DEF chainVars
<1>7. /\ Recorded'
      /\ \A j \in DOMAIN file.transactions :
           file'.transactions[j].status # "REVERTED" => file.transactions[j].status # "REVERTED"
  BY <1>2, <1>4, <1>5, <1>6, ReceiptClaims
<1>8. proc'.stage \notin {"read", "sent"}
  BY <1>2, OffFacts
<1>9. OneLive'
  BY <1>3, <1>4, <1>7, <1>8 DEF OneLive
<1>10. Progress'
  <2>1. ledger[block].ok => Has(StepLabel)
    BY <1>1, <1>4 DEF ProcOrder, Named, Receipt, Has
  <2>2. proc' # Off => HasNext(StepLabel) /\ StepLabel' = StepLabel
    BY <1>2, <1>6, <2>1, SameLedger
  <2>3. (proc.stage = "mined" => Has(StepLabel))'
    BY <2>2, OffFacts DEF Has, HasNext
  <2> QED
    BY <1>1, <1>2, <1>4, <1>6, <2>3, OffFacts, SameLedger DEF Progress
<1>11. \A id : Lost(id) => LostNext(id)
  BY <1>3, <1>6, <1>8 DEF Lost, LostNext
<1>12. Emptied'
  BY <1>2, <1>4, <1>6, <1>11, EmptiedKept
<1> QED
  BY <1>7, <1>9, <1>10, <1>12 DEF Claims

\* An entry that is not pending and was not reverted has happened.
LEMMA LiveHappened ==
  ASSUME ScriptOrder, Recorded, Submitted = {}, NEW label, ~MaySubmit(label)
  PROVE  Has(label)
<1>1. PICK i \in Entries(label) : file.transactions[i].status # "REVERTED"
  BY DEF MaySubmit
<1>2. i \in DOMAIN file.transactions /\ file.transactions[i].label = label
  BY DEF Entries
<1>3. file.transactions[i] \in EntryType
  BY <1>2, LenProperties, ElementOfSeq DEF ScriptOrder, FileOrder
<1>4. file.transactions[i].status = "MINED_SUCCESS"
  BY <1>1, <1>2, <1>3 DEF EntryType, Submitted
<1> QED
  BY <1>2, <1>4 DEF Recorded

\* A wanted step of which the vault may not be drained again is not on record as pending or
\* successful.
LEMMA WantedMaySubmit ==
  ASSUME ScriptOrder, Recorded, Submitted = {}, proc # Off, proc.stage = "ready", Wanted,
         StepLabel # "withdraw"
  PROVE  MaySubmit(StepLabel)
<1>1. ProcOrder /\ FileOrder
  BY DEF ScriptOrder
<1>2. CASE proc.mode = "run"
  <2> SUFFICES ASSUME NEW i \in Entries(StepLabel) PROVE FALSE
    BY DEF MaySubmit
  <2>1. PICK k \in 1..3 : StepLabel = Route("run")[k] /\ k < proc.step
    BY <1>1, <1>2 DEF Entries, FileOrder
  <2>2. proc.step \in 1..3 /\ StepLabel = Route("run")[proc.step]
    BY <1>1, <1>2, RouteFacts DEF ProcOrder, StepLabel
  <2> QED
    BY <2>1, <2>2, RouteFacts
<1>3. CASE proc.mode = "signal"
  BY <1>3 DEF Wanted
<1>4. CASE proc.mode = "recover"
  <2>1. StepLabel = "recover"
    BY <1>1, <1>4, StepCases DEF StepAt
  <2>2. ~Has("recover")
    BY <1>4, <2>1 DEF Wanted, Position
  <2> QED
    BY <2>1, <2>2, LiveHappened
<1> QED
  BY <1>1, <1>2, <1>3, <1>4 DEF ProcOrder, ProcType

\* Reading the balance claims nothing.
LEMMA ReadKeepsClaims == ScriptOrder /\ Claims /\ ReadBalance => Claims'
<1> SUFFICES ASSUME ScriptOrder, Claims, ReadBalance PROVE Claims'
  OBVIOUS
<1>1. /\ proc # Off /\ proc.stage = "ready" /\ Wanted
      /\ file' = file /\ UNCHANGED chainVars
      /\ proc'.mode = proc.mode /\ proc'.step = proc.step
      /\ proc'.stage = "read" /\ StepLabel' = StepLabel
  BY ReadShape
<1>2. Recorded /\ OneLive /\ Progress /\ Emptied /\ FileOrder
  BY DEF Claims, ScriptOrder
<1>3. UNCHANGED <<ledger, resolved, mempool, sends>>
  BY <1>1 DEF chainVars
<1>4. Recorded'
  BY <1>1, <1>2, <1>3 DEF Recorded, Receipt, Has
<1>5. OneLive'
  <2>1. Submitted = {}
    BY <1>1, <1>2 DEF FileOrder
  <2>2. StepLabel # "withdraw" => MaySubmit(StepLabel)
    BY <1>1, <1>2, <2>1, WantedMaySubmit
  <2> QED
    BY <1>1, <1>2, <2>2 DEF OneLive, MaySubmit, Entries
<1>6. Progress'
  BY <1>1, <1>2, <1>3, SameLedger DEF Progress
<1>7. \A id : Lost(id) => LostNext(id)
  BY <1>1, <1>3 DEF Lost, LostNext
<1>8. Emptied'
  BY <1>1, <1>2, <1>3, <1>7, EmptiedKept
<1> QED
  BY <1>4, <1>5, <1>6, <1>8 DEF Claims

\* A step that is over makes the claim of its phase, and the claim is true.
LEMMA ProceedKeepsClaims == ScriptOrder /\ Claims /\ Proceed => Claims'
<1> SUFFICES ASSUME ScriptOrder, Claims, Proceed PROVE Claims'
  OBVIOUS
<1>1. /\ proc # Off /\ Submitted = {} /\ AssertedAfter(StepLabel)
      /\ proc.stage = "mined" \/ (proc.stage = "ready" /\ proc.mode # "run" /\ ~Wanted)
      /\ UNCHANGED chainVars
      /\ file'.transactions = file.transactions
      /\ file'.phase = PhaseAfter(StepLabel) /\ proc' = NextStep
  BY ProceedShape
<1>2. Recorded /\ OneLive /\ Progress /\ Emptied /\ ProcOrder /\ FileOrder
  BY DEF Claims, ScriptOrder
<1>3. UNCHANGED <<ledger, resolved, mempool, sends>>
  BY <1>1 DEF chainVars
<1>4. /\ Has("create-vault")' <=> Has("create-vault")
      /\ Has("enroll")' <=> Has("enroll")
      /\ Has("anchor-signal")' <=> Has("anchor-signal")
      /\ Has("revoke")' <=> Has("revoke")
      /\ Has("withdraw-unused")' <=> Has("withdraw-unused")
      /\ Filled' <=> Filled
      /\ Position' <=> Position
  BY <1>3, SameLedger
<1>5. /\ proc'.stage = "ready"
      /\ \/ proc' = Off
         \/ proc'.mode = proc.mode /\ proc'.step = proc.step + 1
  BY <1>1, <1>2, OffFacts, NextStepCases
<1>6. proc.mode # "recover" => Has(StepLabel)
  <2>1. CASE proc.stage = "mined"
    BY <1>2, <2>1 DEF Progress
  <2>2. CASE proc.stage = "ready" /\ proc.mode = "signal" /\ ~Wanted
    BY <1>1, <1>2, <2>2, LiveHappened DEF Wanted
  <2> QED
    BY <1>1, <1>2, <2>1, <2>2 DEF ProcOrder, ProcType
<1>7. Recorded'
  BY <1>1, <1>2, <1>3 DEF Recorded, Receipt, Has
<1>8. OneLive'
  BY <1>1, <1>2, <1>5 DEF OneLive
<1>9. \A id : Lost(id) => LostNext(id)
  BY <1>1, <1>3, <1>5 DEF Lost, LostNext
<1>10. CASE proc.mode = "run"
  <2>1. StepLabel \in {"create-vault", "deposit", "enroll"} /\ file.phase = "DEPLOYING"
    BY <1>1, <1>2, <1>10, StepCases DEF StepAt, ProcOrder
  <2>2. file'.phase = "DEPLOYING" \/ (file'.phase = "ENROLLED_WAITING_SIGNAL" /\ Has("enroll"))
    BY <1>1, <1>6, <1>10, <2>1 DEF PhaseAfter
  <2>3. proc'.mode \notin {"signal", "recover"}
    BY <1>5, <1>10, OffFacts
  <2>4. Progress'
    BY <1>4, <1>5, <2>2, <2>3 DEF Progress
  <2>5. Emptied'
    BY <1>2, <1>3, <1>9, <2>2, EmptiedKept
  <2> QED
    BY <1>7, <1>8, <2>4, <2>5 DEF Claims
<1>11. CASE proc.mode = "signal"
  <2>1. proc'.mode # "recover"
    BY <1>5, <1>11, OffFacts
  <2>2. file'.phase # "RECOVERED_AND_WITHDRAWN" /\ Progress'
    <3>1. CASE StepAt("signal", 1, "anchor-signal")
      <4>1. file'.phase = "SIGNAL_ANCHORED" /\ Has("anchor-signal") /\ (proc' = Off \/ proc'.step = 2)
        BY <1>1, <1>5, <1>6, <1>11, <3>1 DEF StepAt, PhaseAfter
      <4> QED
        BY <1>4, <1>5, <2>1, <4>1, OffFacts DEF Progress
    <3>2. CASE StepAt("signal", 2, "native-execute")
      <4>1. file'.phase = file.phase /\ file.phase = "SIGNAL_ANCHORED" /\ Filled /\ (proc' = Off \/ proc'.step = 3)
        BY <1>1, <1>2, <1>5, <3>2 DEF StepAt, PhaseAfter, AssertedAfter, Progress
      <4> QED
        BY <1>2, <1>4, <1>5, <2>1, <4>1, OffFacts DEF Progress
    <3>3. CASE StepAt("signal", 3, "revoke")
      <4>1. /\ file'.phase = file.phase /\ file.phase = "SIGNAL_ANCHORED" /\ Filled /\ Has("revoke")
            /\ (proc' = Off \/ proc'.step = 4)
        BY <1>1, <1>2, <1>5, <1>6, <1>11, <3>3 DEF StepAt, PhaseAfter, Progress
      <4> QED
        BY <1>2, <1>4, <1>5, <2>1, <4>1, OffFacts DEF Progress
    <3>4. CASE StepAt("signal", 4, "withdraw-unused")
      <4>1. file'.phase = "AWAITING_SETTLEMENT" /\ Filled /\ Has("revoke") /\ Has("withdraw-unused")
        BY <1>1, <1>2, <1>6, <1>11, <3>4 DEF StepAt, PhaseAfter, Progress
      <4>2. proc' = Off
        BY <1>1, <3>4, RouteFacts DEF StepAt, NextStep
      <4> QED
        BY <1>4, <4>1, <4>2, OffFacts DEF Progress
    <3> QED
      BY <1>1, <1>2, <1>11, <3>1, <3>2, <3>3, <3>4, StepCases DEF StepAt
  <2>3. Emptied'
    BY <1>2, <1>3, <1>9, <2>2, EmptiedKept
  <2> QED
    BY <1>7, <1>8, <2>2, <2>3 DEF Claims
<1>12. CASE proc.mode = "recover"
  <2>1. resolved /\ proc'.mode # "signal" /\ Has("create-vault")
    BY <1>1, <1>2, <1>5, <1>12, OffFacts DEF FileOrder, Progress
  <2>2. CASE StepLabel = "recover"
    <3>1. file'.phase = file.phase /\ ~Position
      BY <1>1, <2>2 DEF PhaseAfter, AssertedAfter
    <3>2. Progress'
      BY <1>2, <1>4, <1>5, <2>1, <3>1 DEF Progress
    <3>3. Emptied'
      BY <1>2, <1>3, <1>9, <3>1, EmptiedKept
    <3> QED
      BY <1>7, <1>8, <3>2, <3>3 DEF Claims
  <2>3. CASE StepLabel = "withdraw"
    <3>1. file'.phase = "RECOVERED_AND_WITHDRAWN" /\ Cash = 0
      BY <1>1, <2>3 DEF PhaseAfter, AssertedAfter
    <3>2. proc.step = 2 /\ ~Position
      BY <1>1, <1>2, <1>12, <2>3, StepCases DEF StepAt, Progress
    <3>3. proc' = Off
      BY <1>1, <1>12, <3>2, RouteFacts DEF NextStep
    <3>4. Progress'
      BY <3>1, <3>3, OffFacts DEF Progress
    <3>5. \A i \in DOMAIN mempool : LostNext(mempool[i].id)
      <4> SUFFICES ASSUME NEW i \in DOMAIN mempool PROVE LostNext(mempool[i].id)
        OBVIOUS
      <4>1. mempool[i].id \in 1..sends'
        <5>1. mempool[i] \in SentType
          BY ElementOfSeq, LenProperties DEF ScriptOrder, ChainTyped
        <5>2. 0 < mempool[i].id /\ mempool[i].id <= sends
          BY DEF ScriptOrder, OneCopy
        <5> QED
          BY <1>3, <5>1, <5>2 DEF SentType
      <4>2. ASSUME NEW j \in DOMAIN file.transactions, file.transactions[j].id = mempool[i].id
            PROVE  FALSE
        <5>1. file.transactions[j].status # "SUBMITTED"
          BY <1>1 DEF Submitted
        <5>2. \E b \in DOMAIN ledger : ledger[b].id = mempool[i].id
          BY <1>2, <4>2, <5>1 DEF Recorded, Receipt
        <5> QED
          BY <5>2 DEF ScriptOrder, OneCopy
      <4> QED
        BY <1>1, <1>5, <4>1, <4>2 DEF LostNext
    <3>6. Len(ledger) \in DOMAIN ledger /\ EmptyButLost(Len(ledger))'
      <4>1. ledger # <<>>
        BY <2>1 DEF Has
      <4>2. Len(ledger) \in DOMAIN ledger /\ ledger[Len(ledger)].cash = 0
        BY <3>1, <4>1, CashType DEF ScriptOrder, ChainTyped
      <4>3. \A j \in DOMAIN ledger : ~(j > Len(ledger))
        BY LenProperties DEF ScriptOrder, ChainTyped
      <4> QED
        BY <1>3, <4>2, <4>3 DEF EmptyButLost
    <3>7. Emptied'
      BY <1>3, <1>4, <2>1, <3>2, <3>5, <3>6 DEF Emptied, Lost, LostNext
    <3> QED
      BY <1>7, <1>8, <3>4, <3>7 DEF Claims
  <2> QED
    BY <1>1, <1>2, <1>12, <2>2, <2>3, StepCases DEF StepAt
<1> QED
  BY <1>1, <1>2, <1>10, <1>11, <1>12 DEF ProcOrder, ProcType

\* Nothing that is pending or has succeeded is sent a second time.
LEMMA SendKeepsClaims == ScriptOrder /\ Claims /\ Send => Claims'
<1> SUFFICES ASSUME ScriptOrder, Claims, Send PROVE Claims'
  OBVIOUS
<1> DEFINE m == Len(mempool)
<1>1. /\ proc # Off /\ Submitted = {}
      /\ proc.stage = "read" \/ (proc.stage = "ready" /\ Wanted)
      /\ UNCHANGED <<file, ledger, final, resolved, reorgs>>
      /\ sends \in Nat /\ sends' = sends + 1
      /\ m \in Nat /\ DOMAIN mempool = 1..m /\ DOMAIN mempool' = 1..(m + 1)
      /\ \A i \in 1..m : mempool'[i] = mempool[i]
      /\ mempool'[m + 1].label = StepLabel
      /\ proc'.mode = proc.mode /\ proc'.step = proc.step
      /\ proc'.stage = "sent" /\ proc'.id = sends' /\ StepLabel' = StepLabel
  BY SendShape
<1> HIDE DEF m
<1>2. Recorded /\ OneLive /\ Progress /\ Emptied /\ ProcOrder /\ FileOrder
  BY DEF Claims, ScriptOrder
<1>3. StepLabel # "withdraw" => MaySubmit(StepLabel)
  <2>1. CASE proc.stage = "read"
    BY <1>2, <2>1 DEF OneLive
  <2>2. CASE proc.stage = "ready" /\ Wanted
    BY <1>1, <1>2, <2>2, WantedMaySubmit
  <2> QED
    BY <1>1, <2>1, <2>2
<1>4. Recorded'
  BY <1>1, <1>2 DEF Recorded, Receipt, Has
<1>5. OneLive'
  BY <1>1, <1>2, <1>3 DEF OneLive, MaySubmit, Entries
<1>6. Progress'
  BY <1>1, <1>2, SameLedger DEF Progress
<1>7. \A id : Lost(id) => LostNext(id)
  BY <1>1 DEF Lost, LostNext
<1>8. Emptied'
  <2>1. file.phase = "RECOVERED_AND_WITHDRAWN" => StepLabel # "deposit"
    BY <1>1, <1>2, StepCases DEF StepAt, ProcOrder
  <2>2. \A i \in 1..(m + 1) : i \in 1..m \/ i = m + 1
    BY <1>1
  <2>3. CASE file.phase = "RECOVERED_AND_WITHDRAWN"
    <3>1. \A i \in DOMAIN mempool' : mempool'[i].label = "deposit" => \E j \in DOMAIN mempool : mempool[j] = mempool'[i]
      BY <1>1, <2>1, <2>2, <2>3
    <3> QED
      BY <1>1, <1>2, <1>7, <3>1, EmptiedKept
  <2>4. CASE file.phase # "RECOVERED_AND_WITHDRAWN"
    BY <1>1, <2>4 DEF Emptied
  <2> QED
    BY <2>3, <2>4
<1> QED
  BY <1>4, <1>5, <1>6, <1>8 DEF Claims

\* An entry is added only when no entry of its label is pending or has succeeded.
LEMMA SaveKeepsClaims == ScriptOrder /\ Claims /\ Save => Claims'
<1> SUFFICES ASSUME ScriptOrder, Claims, Save PROVE Claims'
  OBVIOUS
<1> DEFINE n == Len(file.transactions)
<1>1. /\ proc # Off /\ proc.stage = "sent" /\ UNCHANGED chainVars
      /\ n \in Nat /\ DOMAIN file.transactions = 1..n
      /\ file'.phase = file.phase /\ DOMAIN file'.transactions = 1..(n + 1)
      /\ \A i \in 1..n : file'.transactions[i] = file.transactions[i]
      /\ file'.transactions[n + 1].id = proc.id /\ file'.transactions[n + 1].label = StepLabel
      /\ file'.transactions[n + 1].status = "SUBMITTED"
      /\ proc'.mode = proc.mode /\ proc'.step = proc.step
      /\ proc'.stage = "saved" /\ proc'.id = proc.id /\ StepLabel' = StepLabel
  BY SaveShape
<1> HIDE DEF n
<1>2. Recorded /\ OneLive /\ Progress /\ Emptied
  BY DEF Claims
<1>3. UNCHANGED <<ledger, resolved, mempool, sends>>
  BY <1>1 DEF chainVars
<1>4. \A i \in 1..(n + 1) : i \in 1..n \/ i = n + 1
  BY <1>1
<1>5. Recorded'
  <2>1. \A i \in 1..(n + 1) :
          /\ file'.transactions[i].status # "SUBMITTED" => Receipt(file'.transactions[i].id) # {}
          /\ file'.transactions[i].status = "MINED_SUCCESS" => Has(file'.transactions[i].label)
    BY <1>1, <1>2, <1>4 DEF Recorded
  <2> QED
    BY <1>1, <1>3, <2>1 DEF Recorded, Receipt, Has
<1>6. OneLive'
  <2>1. StepLabel # "withdraw" =>
          \A i \in 1..n : file.transactions[i].label = StepLabel => file.transactions[i].status = "REVERTED"
    BY <1>1, <1>2 DEF OneLive, MaySubmit, Entries
  <2>2. ASSUME NEW i \in 1..(n + 1), NEW j \in 1..(n + 1),
               file'.transactions[i].label = file'.transactions[j].label,
               file'.transactions[i].label # "withdraw",
               file'.transactions[i].status # "REVERTED", file'.transactions[j].status # "REVERTED"
        PROVE  i = j
    <3>1. CASE i \in 1..n /\ j \in 1..n
      <4>1. /\ i \in DOMAIN file.transactions /\ file'.transactions[i] = file.transactions[i]
            /\ j \in DOMAIN file.transactions /\ file'.transactions[j] = file.transactions[j]
        BY <1>1, <3>1
      <4> QED
        BY <1>2, <2>2, <4>1, Zenon DEF OneLive
    <3>2. CASE i \in 1..n /\ j = n + 1
      BY <1>1, <2>1, <2>2, <3>2
    <3>3. CASE i = n + 1 /\ j \in 1..n
      BY <1>1, <2>1, <2>2, <3>3
    <3> QED
      BY <1>4, <3>1, <3>2, <3>3
  <2> QED
    BY <1>1, <2>2 DEF OneLive
<1>7. Progress'
  BY <1>1, <1>2, <1>3, SameLedger DEF Progress
<1>8. \A id : Lost(id) => LostNext(id)
  BY <1>1, <1>3, <1>4 DEF Lost, LostNext
<1>9. Emptied'
  BY <1>1, <1>2, <1>3, <1>8, EmptiedKept
<1> QED
  BY <1>5, <1>6, <1>7, <1>9 DEF Claims

-----------------------------------------------------------------------------
(* The operator's script: the theorems                                     *)

\* The inductive invariant holds in every state of the script and the chain.
LEMMA ScriptInvAlways == ScriptSpec => []ScriptInv
<1>1. ScriptInit => ScriptInv
  <2> SUFFICES ASSUME ScriptInit PROVE ScriptInv
    OBVIOUS
  <2>1. ScriptOrder
    BY ScriptInitOrder
  <2>2. /\ file.phase = "none" /\ DOMAIN file.transactions = {} /\ proc = Off /\ DOMAIN ledger = {}
        /\ reported = "nothing"
    BY DEF ScriptInit
  <2>3. Strangers /\ Reported
    BY <2>2 DEF Strangers, Reported
  <2>4. Recorded /\ OneLive /\ Progress /\ Emptied
    BY <2>2, OffFacts DEF Recorded, OneLive, Progress, Emptied
  <2> QED
    BY <2>1, <2>3, <2>4 DEF ScriptInv, Claims
<1>2. ScriptInv /\ [ScriptNext]_scriptVars => ScriptInv'
  <2> SUFFICES ASSUME ScriptInv, [ScriptNext]_scriptVars PROVE ScriptInv'
    OBVIOUS
  <2>1. ScriptOrder /\ ScriptOrder' /\ reorgs \in Nat
    BY ScriptStepOrder DEF ScriptInv, ScriptOrder, ChainTyped
  <2>2. Strangers' /\ Reported'
    BY StrangersStep, ReportedStep DEF ScriptInv
  <2>3. ASSUME reorgs' = 0 PROVE Claims'
    <3>1. ~Reorg
      BY <2>1, <2>3 DEF Reorg
    <3>2. reorgs = 0
      BY <2>3, <3>1 DEF ScriptNext, scriptVars, chainVars, Start, Stop, Reconcile, Reconciled, ReadBalance, Send,
                        Save, Mined, Proceed, Mine, Confirm, Resolve, Report, Others
    <3>3. Claims
      BY <3>2 DEF ScriptInv
    <3>4. CASE UNCHANGED scriptVars
      BY <3>3, <3>4 DEF scriptVars, chainVars, Claims, Recorded, OneLive, Progress, Emptied, Receipt, Has,
                        MaySubmit, Entries, StepLabel, Filled, Position, EmptyButLost, Lost
    <3>5. CASE ScriptNext
      BY <2>1, <3>1, <3>3, <3>5, StartKeepsClaims, StopKeepsClaims, ReconcileKeepsClaims, ReadKeepsClaims,
         SendKeepsClaims, SaveKeepsClaims, MinedKeepsClaims, ProceedKeepsClaims, MineKeepsClaims,
         ConfirmKeepsClaims, OthersKeepsClaims
      DEF ScriptNext
    <3> QED
      BY <3>4, <3>5
  <2> QED
    BY <2>1, <2>2, <2>3 DEF ScriptInv
<1> QED
  BY <1>1, <1>2, PTL DEF ScriptSpec

\* The invariant says what FileIsTrue says.
LEMMA FileTrue == ScriptInv => FileIsTrue
<1> SUFFICES ASSUME ScriptInv PROVE FileIsTrue
  OBVIOUS
<1>1. ScriptOrder /\ ProcOrder /\ FileOrder /\ InOrder
  BY DEF ScriptInv, ScriptOrder
<1>2. ScriptTypeOK
  BY <1>1 DEF ScriptInv, Reported, ScriptTypeOK, ProcOrder, FileOrder
<1>3. ASSUME reorgs = 0 PROVE PhaseIsTrue /\ OneLivePerLabel
  <2>1. Recorded /\ OneLive /\ Progress /\ Emptied
    BY <1>3 DEF ScriptInv, Claims
  <2>2. Filled => Has("native-execute")
    BY DEF Filled, Has
  <2>3. file.phase \in Phases
    BY <1>1 DEF FileOrder
  <2>4. /\ file.phase \in {"ENROLLED_WAITING_SIGNAL", "SIGNAL_ANCHORED", "AWAITING_SETTLEMENT"} => Has("enroll")
        /\ file.phase \in {"SIGNAL_ANCHORED", "AWAITING_SETTLEMENT"} => Has("anchor-signal")
        /\ file.phase = "AWAITING_SETTLEMENT" => Filled /\ Has("revoke") /\ Has("withdraw-unused")
    BY <1>1, <2>1, <2>2, HasChain DEF Progress
  <2>5. file.phase = "RECOVERED_AND_WITHDRAWN" => ~Position /\ \E i \in DOMAIN ledger : EmptiedAt(i)
    BY <2>1 DEF Emptied, EmptyButLost, EmptiedAt, Lost, OnRecord
  <2>6. PhaseIsTrue
    <3> DEFINE rank == [p \in Phases |->
                 CASE p = "AWAITING_SETTLEMENT" -> 3 [] p = "SIGNAL_ANCHORED" -> 2
                   [] p = "ENROLLED_WAITING_SIGNAL" -> 1 [] OTHER -> 0][file.phase]
    <3>1. /\ rank >= 1 => file.phase \in {"ENROLLED_WAITING_SIGNAL", "SIGNAL_ANCHORED", "AWAITING_SETTLEMENT"}
          /\ rank >= 2 => file.phase \in {"SIGNAL_ANCHORED", "AWAITING_SETTLEMENT"}
          /\ rank >= 3 => file.phase = "AWAITING_SETTLEMENT"
      BY <2>3
    <3> QED
      BY <2>4, <2>5, <3>1 DEF PhaseIsTrue
  <2>7. ASSUME NEW label \in Labels \ {"withdraw"}
        PROVE  Cardinality({i \in Entries(label) : file.transactions[i].status # "REVERTED"}) <= 1
    <3> DEFINE live == {i \in Entries(label) : file.transactions[i].status # "REVERTED"}
    <3>1. \A i, j \in live : i = j
      BY <2>1 DEF OneLive, Entries
    <3> HIDE DEF live
    <3>2. CASE live = {}
      <4>1. Cardinality(live) = 0
        BY <3>2, FS_EmptySet
      <4> QED
        BY <4>1 DEF live
    <3>3. CASE live # {}
      <4>1. PICK i \in live : live = {i}
        BY <3>1, <3>3
      <4>2. Cardinality(live) = 1
        BY <4>1, FS_Singleton
      <4> QED
        BY <4>2 DEF live
    <3> QED
      BY <3>2, <3>3
  <2> QED
    BY <2>6, <2>7 DEF OneLivePerLabel
<1> QED
  BY <1>2, <1>3 DEF FileIsTrue

\* For any number of transactions, interruptions and interventions the evidence file tells the
\* truth: as long as no block is replaced, its phase has happened on the chain, and no entry
\* that is pending or has succeeded was submitted a second time.
THEOREM ScriptFileIsTrue == ScriptSpec => []FileIsTrue
BY ScriptInvAlways, FileTrue, PTL

\* What a report rests on, in the words of the property.
LEMMA ReportedFinal == ScriptInv => CompleteIsFinal
<1> SUFFICES ASSUME ScriptInv PROVE CompleteIsFinal
  OBVIOUS
<1>1. /\ final \in Nat /\ Len(ledger) \in Nat /\ DOMAIN ledger = 1..Len(ledger) /\ final <= Len(ledger)
  BY LenProperties DEF ScriptInv, ScriptOrder, ChainTyped, FileOrder
<1>2. ASSUME reported # "nothing"
      PROVE  \A label \in {"native-execute", "recover"} : \E i \in 1..final : ledger[i].label = label /\ ledger[i].ok
  <2>1. PICK i \in 1..final : ledger[i].label = "recover" /\ ledger[i].ok
    BY <1>2 DEF ScriptInv, Reported
  <2>2. i \in DOMAIN ledger
    BY <1>1
  <2>3. PICK j \in DOMAIN ledger : j < i /\ ledger[j].label = "native-execute" /\ ledger[j].ok
    BY <2>1, <2>2 DEF ScriptInv, ScriptOrder, InOrder, Before
  <2>4. j \in 1..final
    BY <1>1, <2>3
  <2> QED
    BY <2>1, <2>3, <2>4
<1>3. ASSUME reported = "accounted"
      PROVE  /\ \E i \in 1..final : ledger[i].label = "revoke" /\ ledger[i].ok
             /\ \E i \in 1..final : EmptiedAt(i)
  BY <1>3 DEF ScriptInv, Reported, GiftsAfter, EmptiedAt
<1> QED
  BY <1>2, <1>3 DEF CompleteIsFinal

\* For any number of transactions, interruptions, reorganisations and gifts: once the verifier
\* has called a file complete, its trade and its recovery are in final blocks ever after; and
\* when the file held everything that was sent, so are the revocation and a state of the vault
\* that was empty and that only others gave money to since.
THEOREM ScriptCompleteIsFinal == ScriptSpec => []CompleteIsFinal
BY ScriptInvAlways, ReportedFinal, PTL
=============================================================================
