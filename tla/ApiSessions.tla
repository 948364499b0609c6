---------------------------- MODULE ApiSessions ----------------------------
(***************************************************************************)
(* Session drafts and enrollments of the HTTP API (apps/api/src/app.js,    *)
(* store.js), on top of its sign-in.  A session is one JSON payload per    *)
(* row.  A draft is written by one conditional statement; an enrollment is *)
(* appended by reading the payload, extending it and writing it back       *)
(* whole, with other requests and the chain observer in between.  The      *)
(* observer, which confirms drafts and records withdrawals and signals,    *)
(* is no part of the repository; it writes rows atomically.                *)
(***************************************************************************)
EXTENDS ApiAuth

CONSTANTS
  Ids,            \* session ids, chosen by creators
  EnrollmentIds,
  Deadlines       \* values of enrollUntilSec

ASSUME DeadlineAssumption == Deadlines \subseteq Nat /\ Ids # {}

VARIABLES
  rows,           \* proofcast_sessions
  posting,        \* per slot, the POST in flight
  observed,       \* history: drafts as the observer confirmed them, and all it recorded of them since
  acked           \* history: enrollments answered with 201

rowVars == <<rows, posting, observed, acked>>
vars == <<authVars, rowVars>>

NoRow == [creator |-> NoAccount, status |-> "NONE", enrollUntil |-> 0,
          enrollments |-> {}, withdrawn |-> FALSE, signalled |-> FALSE]
NoPost == [stage |-> "idle", account |-> NoAccount, id |-> CHOOSE i \in Ids : TRUE, session |-> NoRow]

EntryType == [enrollmentId : EnrollmentIds, follower : Accounts]
RowType ==
  [creator : Accounts \cup {NoAccount}, status : {"NONE", "DRAFT", "CONFIRMED"}, enrollUntil : Nat,
   enrollments : SUBSET EntryType, withdrawn : BOOLEAN, signalled : BOOLEAN]
PostType ==
  [stage : {"idle", "draft", "enroll", "append"}, account : Accounts \cup {NoAccount}, id : Ids, session : RowType]

\* The rows any reader is given: in the list, or one by one with its timeline.
ListSessions == {i \in Ids : rows[i].status = "CONFIRMED" /\ ~rows[i].withdrawn}
GetSession(i) == rows[i].status = "CONFIRMED"

Init ==
  /\ AuthInit
  /\ rows = [i \in Ids |-> NoRow]
  /\ posting = [r \in Requests |-> NoPost]
  /\ observed = [i \in Ids |-> NoRow]
  /\ acked = {}

\* actor(): the account is read from the token once, at the start of the request.
Authenticate(r, t, i, stage) ==
  /\ posting[r] = NoPost
  /\ Live(t)
  /\ posting' = [posting EXCEPT ![r] = [NoPost EXCEPT !.stage = stage, !.account = Actor(t), !.id = i]]
  /\ UNCHANGED <<authVars, rows, observed, acked>>

\* A draft's creator must be the caller; status and withdrawn are set here, not taken
\* from the body.
Draft(creator, deadline) == [NoRow EXCEPT !.creator = creator, !.status = "DRAFT", !.enrollUntil = deadline]

\* Faulty variant of DraftAllowed: a draft may be replaced by its creator whatever its status is now.
DraftAllowedToCreator(i, creator) == rows[i] = NoRow \/ rows[i].creator = creator

\* The ON CONFLICT ... WHERE of saveDraft decides together with the write.
DraftAllowed(i, creator) == rows[i] = NoRow \/ (rows[i].creator = creator /\ rows[i].status = "DRAFT")

SaveDraft(r, deadline) ==
  LET p == posting[r] IN
  /\ p.stage = "draft"
  /\ rows' = [rows EXCEPT ![p.id] = IF DraftAllowed(p.id, p.account) THEN Draft(p.account, deadline) ELSE @]
  /\ posting' = [posting EXCEPT ![r] = NoPost]
  /\ UNCHANGED <<authVars, observed, acked>>

\* The payload as it is now, if it is open for enrollment; otherwise the request ends.
EnrollmentOpen(s) == s.status = "CONFIRMED" /\ ~s.withdrawn /\ ~s.signalled /\ now < s.enrollUntil

ReadSession(r) ==
  LET p == posting[r] IN
  /\ p.stage = "enroll"
  /\ posting' = [posting EXCEPT ![r] =
       IF EnrollmentOpen(rows[p.id]) THEN [p EXCEPT !.stage = "append", !.session = rows[p.id]] ELSE NoPost]
  /\ UNCHANGED <<authVars, rows, observed, acked>>

\* saveSession writes the payload that was read, extended by one entry, over whatever the
\* row holds by now; 201 follows.
IdFree(s, e) == \A entry \in s.enrollments : entry.enrollmentId # e

\* Faulty variant of Entry: the body is spread after the server's own fields.
EntryOfBody(e, account) == [enrollmentId |-> e, follower |-> CHOOSE a \in Accounts : a # account]

Entry(e, account) == [enrollmentId |-> e, follower |-> account]

Extended(r, e) ==
  [posting[r].session EXCEPT !.enrollments = @ \cup {Entry(e, posting[r].account)}]

AppendEnrollment(r, e) ==
  LET p == posting[r] IN
  /\ p.stage = "append"
  /\ IdFree(p.session, e)
  /\ rows' = [rows EXCEPT ![p.id] = Extended(r, e)]
  /\ acked' = acked \cup {[id |-> p.id, entry |-> Entry(e, p.account)]}
  /\ posting' = [posting EXCEPT ![r] = NoPost]
  /\ UNCHANGED <<authVars, observed>>

\* A request ends early: refused, the process dies, a statement fails.
DropPost(r) ==
  /\ posting[r] # NoPost
  /\ posting' = [posting EXCEPT ![r] = NoPost]
  /\ UNCHANGED <<authVars, rows, observed, acked>>

\* The observer saw the session registered, withdrawn or signalled on-chain.
Confirm(i) ==
  /\ rows[i].status = "DRAFT"
  /\ rows' = [rows EXCEPT ![i].status = "CONFIRMED"]
  /\ observed' = [observed EXCEPT ![i] = rows[i]]
  /\ UNCHANGED <<authVars, posting, acked>>

Observe(i) ==
  /\ rows[i].status = "CONFIRMED"
  /\ \/ /\ rows' = [rows EXCEPT ![i].withdrawn = TRUE]
        /\ observed' = [observed EXCEPT ![i].withdrawn = TRUE]
     \/ /\ now >= rows[i].enrollUntil
        /\ rows' = [rows EXCEPT ![i].signalled = TRUE]
        /\ observed' = [observed EXCEPT ![i].signalled = TRUE]
  /\ UNCHANGED <<authVars, posting, acked>>

RowNext ==
  \/ \E r \in Requests, t \in Tokens, i \in Ids, stage \in {"draft", "enroll"} : Authenticate(r, t, i, stage)
  \/ \E r \in Requests, deadline \in Deadlines : SaveDraft(r, deadline)
  \/ \E r \in Requests : ReadSession(r) \/ DropPost(r)
  \/ \E r \in Requests, e \in EnrollmentIds : AppendEnrollment(r, e)
  \/ \E i \in Ids : Confirm(i) \/ Observe(i)

Next == RowNext \/ (AuthNext /\ UNCHANGED rowVars)

Spec == Init /\ [][Next]_vars

-----------------------------------------------------------------------------
(* Properties                                                              *)

TypeOK ==
  /\ AuthTypeOK
  /\ rows \in [Ids -> RowType]
  /\ posting \in [Requests -> PostType]
  /\ observed \in [Ids -> RowType]
  /\ \A a \in acked : a.id \in Ids /\ a.entry \in EntryType

\* What the public sees comes from the observer: the session was confirmed, by that creator
\* and with that deadline, and a withdrawal or signal it shows was recorded
\* (test/api.test.js: public records "never from an unconfirmed creator draft").  The
\* converse is not claimed: AppendEnrollment writes back the payload it read, and with it
\* takes back a withdrawal or a signal that was recorded in between.
PublicIsObserved ==
  \A i \in ListSessions \cup {j \in Ids : GetSession(j)} :
    /\ observed[i].creator = rows[i].creator
    /\ observed[i].enrollUntil = rows[i].enrollUntil
    /\ rows[i].withdrawn => observed[i].withdrawn
    /\ rows[i].signalled => observed[i].signalled

\* Whoever stands in a row as creator or follower signed a challenge for that account: no
\* field of a body, late answer or replayed challenge writes in another's name.
RowsAreSignedFor ==
  LET Proven == {challenges[c].address : c \in {d \in Challenges : challenges[d].consumed}} IN
  /\ TypeOK
  /\ \A i \in Ids :
       /\ rows[i] # NoRow => rows[i].creator \in Proven
       /\ \A e \in rows[i].enrollments : e.follower \in Proven

\* An enrollment that was answered with 201 is in the stored session from then on
\* (test/api.test.js: after the 201 the stored session has the enrollment).
AckedEnrollmentsKept == \A a \in acked : a.entry \in rows[a.id].enrollments
=============================================================================
