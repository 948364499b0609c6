------------------------------ MODULE Receipt ------------------------------
(***************************************************************************)
(* The receipt of one market (src/receipt.js): which signal it records and *)
(* what became of it.  A receipt is immutable; the variable holds the one  *)
(* its caller kept.  A call that throws leaves it as it was.               *)
(***************************************************************************)
EXTENDS Naturals, Sequences

CONSTANTS
  SignalIds,
  MaxFill          \* bound: largest filled amount

ASSUME ReceiptAssumption == MaxFill \in Nat \ {0} /\ SignalIds \cap {"missing", "empty"} = {}

VARIABLES
  receipt,
  visited,         \* history: the states of all receipts its caller was given
  taken            \* history: the signals recordSignal recorded or rejected, with the outcome

receiptVars == <<receipt, visited, taken>>

SignalSides == {"YES", "NO", "ABSTAIN"}
States == {"PUBLISHED", "ABSTAIN", "NO_SIGNAL", "DATA_UNAVAILABLE", "REJECTED", "ZERO_FILL",
           "PARTIAL_FILL", "SETTLED", "VOIDED"}

\* Whether the signal is for the receipt's market and its generation.
Targets == {"this market", "other market", "other generation"}
Signals == [id : SignalIds \cup {"missing", "empty"}, target : Targets, evidence : BOOLEAN,
            side : SignalSides \cup {"other"}]
NoSignal == [id |-> "missing", side |-> "none"]
Codes == {"none", "INVALID_SIGNAL", "INVALID_SIGNAL_SIDE"}
Details == [signal : [id : SignalIds, side : SignalSides] \cup {NoSignal}, filled : 0..MaxFill, code : Codes]
ReceiptType ==
  [state : States, signal : [id : SignalIds, side : SignalSides] \cup {NoSignal},
   filled : 0..MaxFill, code : Codes]

Transitions(state) ==
  CASE state = "DATA_UNAVAILABLE" -> {"NO_SIGNAL", "PUBLISHED", "ABSTAIN", "REJECTED"}
    [] state = "PUBLISHED" -> {"ZERO_FILL", "PARTIAL_FILL", "VOIDED"}
    [] state = "ABSTAIN" -> {"ZERO_FILL", "VOIDED"}
    [] state = "PARTIAL_FILL" -> {"SETTLED", "VOIDED"}
    [] state \in {"REJECTED", "ZERO_FILL", "NO_SIGNAL"} -> {"VOIDED"}
    [] OTHER -> {}

ReceiptInit ==
  /\ receipt = [state |-> "DATA_UNAVAILABLE", signal |-> NoSignal, filled |-> 0, code |-> "none"]
  /\ visited = {"DATA_UNAVAILABLE"}
  /\ taken = <<>>

ValidateSignal(s) ==
  CASE s.id \notin SignalIds \/ ~s.evidence -> "INVALID_SIGNAL"
    [] s.side \notin SignalSides -> "INVALID_SIGNAL_SIDE"
    [] OTHER -> "none"

\* recordSignal throws unless the signal is for the receipt's market and generation and the
\* receipt is waiting for one.  Ids are compared also when there is none on either side, so a
\* signal without an id is refused as recorded already.
Recordable(s) ==
  /\ s.target = "this market"
  /\ receipt.signal.id # s.id /\ receipt.signal.id \notin SignalIds
  /\ receipt.state = "DATA_UNAVAILABLE"

\* The caller gets the changed receipt.
Give(next) ==
  /\ receipt' = next
  /\ visited' = visited \cup {next.state}

Take(side, outcome) == taken' = Append(taken, [side |-> side, outcome |-> outcome])

RejectSignal(s) ==
  /\ Recordable(s) /\ ValidateSignal(s) # "none"
  /\ Give([receipt EXCEPT !.state = "REJECTED", !.code = ValidateSignal(s)])
  /\ Take(s.side, "rejected")

\* Faulty variant of RecordSignal: every side is published.
RecordSignalAsPublished(s) ==
  /\ Recordable(s) /\ ValidateSignal(s) = "none"
  /\ Give([receipt EXCEPT !.state = "PUBLISHED", !.signal = [id |-> s.id, side |-> s.side]])
  /\ Take(s.side, "recorded")

RecordSignal(s) ==
  /\ Recordable(s) /\ ValidateSignal(s) = "none"
  /\ Give([receipt EXCEPT !.state = IF s.side = "ABSTAIN" THEN "ABSTAIN" ELSE "PUBLISHED",
                          !.signal = [id |-> s.id, side |-> s.side]])
  /\ Take(s.side, "recorded")

\* The caller's changes are spread over the receipt on every transition: each detail may be
\* kept or overwritten, whatever the new state is.  Only a partial fill is checked for its
\* amount, and the state comes last.  Asking for the state it has returns the same receipt.
TransitionReceipt(next, changed) ==
  /\ next \in Transitions(receipt.state)
  /\ next = "PARTIAL_FILL" => changed.filled > 0
  /\ Give([state |-> next, signal |-> changed.signal, filled |-> changed.filled, code |-> changed.code])
  /\ UNCHANGED taken

ReceiptNext ==
  \/ \E s \in Signals : RejectSignal(s) \/ RecordSignal(s)
  \/ \E next \in States, changed \in Details : TransitionReceipt(next, changed)

ReceiptSpec == ReceiptInit /\ [][ReceiptNext]_receiptVars

-----------------------------------------------------------------------------
(* Properties                                                              *)

\* The state that says what became of a signal.
AnswerState(side, outcome) ==
  IF outcome = "rejected" THEN "REJECTED" ELSE IF side = "ABSTAIN" THEN "ABSTAIN" ELSE "PUBLISHED"

\* The outcomes are never conflated (test/receipt.test.js:77), however callers mix signals,
\* transitions and their own changes: an abstention, a rejection or a missing signal never
\* becomes a fill or a settlement, a settlement was published and filled before, one
\* signal is answered at most, and its answer is the outcome.  What the receipt says of
\* signal, amount and code later on is the caller's: no transition protects them.
OutcomesAreDistinct ==
  /\ receipt \in ReceiptType /\ receipt.state \in visited
  /\ visited \cap {"ABSTAIN", "REJECTED", "NO_SIGNAL"} # {} => visited \cap {"PUBLISHED", "PARTIAL_FILL", "SETTLED"} = {}
  /\ "ZERO_FILL" \in visited => "PARTIAL_FILL" \notin visited
  /\ "SETTLED" \in visited => {"PUBLISHED", "PARTIAL_FILL"} \subseteq visited /\ "VOIDED" \notin visited
  /\ receipt.state = "PARTIAL_FILL" => receipt.filled > 0
  /\ Len(taken) <= 1
  /\ \A i \in 1..Len(taken) : AnswerState(taken[i].side, taken[i].outcome) \in visited
=============================================================================
