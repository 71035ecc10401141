------------------------------ MODULE Contract ------------------------------
(***************************************************************************)
(* What becomes of one text that is handed to `emit`, or posted to the     *)
(* monitor by anybody: json.loads, validate_event of contracts.py and its  *)
(* callers.  The same event is validated by enqueue, when the outbox reads *)
(* it back, by deliver_event and by the monitor; it is an argument, a file *)
(* of the outbox and a request body on its way, written differently in     *)
(* each, and one size limit is applied to all.  A text is what is wrong    *)
(* with it and what its characters take in the way it is written.          *)
(***************************************************************************)
EXTENDS Naturals, Sequences, FiniteSets

CONSTANTS
    MaxPayload,     \* MAX_PAYLOAD_BYTES
    Plains,         \* ASCII characters of a value
    Wides,          \* other characters of a value
    Paddings,       \* bytes of a text that its value does not keep
    Wrapping,       \* what the envelope of the outbox adds to an event
    MaxDefects      \* bound: what is wrong with one text

ASSUME ContractAssumption ==
    /\ MaxPayload \in Nat /\ Wrapping \in Nat /\ MaxDefects \in Nat
    /\ Plains \subseteq Nat /\ Wides \subseteq Nat /\ Paddings \subseteq Nat

\* What json.loads raises: for a text that is no JSON, for a number of more than
\* 4300 digits and for too many open brackets.
ParseRaises == [no_json |-> "JSONDecodeError", digits |-> "ValueError",
                brackets |-> "RecursionError"]

\* The checks of validate_event in their order, by what they find: "deep" is a
\* value too deep for json.dumps, "nested" one too deep to be walked, "fields" a
\* missing or unknown key, "values" a value its field's own rule refuses, "url"
\* one that urlparse cannot parse, "detail" a wrong outcome, progress or fallback.
Order == << "deep", "nan", "large", "no_object", "nested", "forbidden", "schema",
            "type", "fields", "values", "url", "detail" >>

Raises(defect) == CASE defect = "large" -> "payload_too_large"
                    [] defect = "schema" -> "unsupported_schema"
                    [] defect \in {"deep", "nested"} -> "RecursionError"
                    [] defect = "url" -> "ValueError"
                    [] OTHER -> "invalid_event"

\* Mutant of Reasons: the size has an exception of its own.
ReasonsButSize == {"unsupported_schema", "invalid_event"}

\* ValidationError: the others are no part of it.
Reasons == {"payload_too_large", "unsupported_schema", "invalid_event"}

Defects == (DOMAIN ParseRaises \cup {Order[i] : i \in DOMAIN Order}) \ {"large"}

\* A value, and how it is written: the wide characters as \uXXXX or in UTF-8, and
\* white space, needless escapes or repeated keys besides.
Text == [defects : SUBSET Defects, plain : Nat, wide : Nat, padding : Nat,
         escaped : BOOLEAN]
Texts == {t \in [defects : SUBSET Defects, plain : Plains, wide : Wides,
                 padding : Paddings, escaped : BOOLEAN] :
             Cardinality(t.defects) <= MaxDefects}

BytesOf(t) == t.plain + t.padding + t.wide * (IF t.escaped THEN 6 ELSE 2)

\* json.dumps with ensure_ascii and without blanks, of the value of t.
Compact(t) == [t EXCEPT !.padding = 0, !.escaped = TRUE]

\* The file of an event: its value encoded within the envelope.
Enveloped(t) == [Compact(t) EXCEPT !.padding = Wrapping]

\* Mutant of Measured: the value is measured as UTF-8, and sent as ASCII.
MeasuredWide(t) == BytesOf([Compact(t) EXCEPT !.escaped = FALSE])

\* _validate_payload_size.
Measured(t) == BytesOf(Compact(t))

ParseError(t) ==
    LET found == t.defects \cap DOMAIN ParseRaises
    IN IF found = {} THEN "none" ELSE ParseRaises[CHOOSE d \in found : TRUE]

\* Mutant of Verdict: what a field's own rule refuses is let through.
VerdictOfShape(t) ==
    LET found == t.defects \ {"values"} IN IF found = {} THEN "ok" ELSE "invalid_event"

\* validate_event: the first check that finds something decides.
Verdict(t) ==
    LET found == t.defects \cup (IF Measured(t) > MaxPayload THEN {"large"} ELSE {})
        hits == {i \in DOMAIN Order : Order[i] \in found}
    IN IF hits = {} THEN "ok"
       ELSE Raises(Order[CHOOSE i \in hits : \A j \in hits : i <= j])

VARIABLES
    sender,     \* "emit", "outbox" (emit with --outbox-dir) or "other"
    text,       \* as it is written where it is now
    place,      \* "parse", "enqueue", "pending", "deliver", "posted" or "over"
    length,     \* Content-Length
    status,     \* the monitor's status; 0 is none
    became,     \* "none", "rejected", "corrupt", "delivered", "retained" or "dead"
    exit        \* the exit code of emit or flush

contractVars == <<sender, text, place, length, status, became, exit>>

EndsAs(f, code) == place' = "over" /\ became' = f /\ exit' = code

-----------------------------------------------------------------------------
(* emit *)

\* Only JSONDecodeError is caught; an exception that is not ends the process
\* with a traceback.
Parse ==
    /\ place = "parse"
    /\ CASE ParseError(text) = "none" ->
                /\ place' = IF sender = "outbox" THEN "enqueue" ELSE "deliver"
                /\ UNCHANGED <<became, exit>>
         [] ParseError(text) = "JSONDecodeError" -> EndsAs("rejected", 0)
         [] OTHER -> EndsAs("rejected", 1)
    /\ UNCHANGED <<sender, text, length, status>>

\* enqueue: the value is validated and written to its file.
Enqueue ==
    /\ place = "enqueue"
    /\ CASE Verdict(text) = "ok" -> /\ place' = "pending" /\ text' = Enveloped(text)
                                    /\ UNCHANGED <<became, exit>>
         [] Verdict(text) \in Reasons -> EndsAs("rejected", 0) /\ UNCHANGED text
         [] OTHER -> EndsAs("rejected", 1) /\ UNCHANGED text
    /\ UNCHANGED <<sender, length, status>>

\* Mutant of ReadBack: the envelope is measured, not the event in it.
ReadBackWhole ==
    /\ place = "pending"
    /\ IF Verdict(text) = "ok" /\ BytesOf(text) <= MaxPayload
       THEN place' = "deliver" /\ text' = Compact(text) /\ UNCHANGED <<became, exit>>
       ELSE EndsAs("corrupt", 0) /\ UNCHANGED text
    /\ UNCHANGED <<sender, length, status>>

\* _read_envelope in a drain: what does not validate is a corrupt file; only a
\* RecursionError is not caught.
ReadBack ==
    /\ place = "pending"
    /\ CASE Verdict(text) = "ok" -> /\ place' = "deliver" /\ text' = Compact(text)
                                    /\ UNCHANGED <<became, exit>>
         [] Verdict(text) = "RecursionError" -> EndsAs("retained", 1) /\ UNCHANGED text
         [] OTHER -> EndsAs("corrupt", 0) /\ UNCHANGED text
    /\ UNCHANGED <<sender, length, status>>

\* Mutant of Deliver: who calls it has validated the event.
DeliverUnchecked ==
    /\ place = "deliver" /\ place' = "posted"
    /\ text' = Compact(text) /\ length' = BytesOf(text')
    /\ UNCHANGED <<sender, status, became, exit>>

\* Mutant of Deliver: the body is the event as it was written.
DeliverAsWritten ==
    /\ place = "deliver" /\ Verdict(text) = "ok"
    /\ place' = "posted" /\ length' = BytesOf(text)
    /\ UNCHANGED <<sender, text, status, became, exit>>

\* deliver_event validates the event again.  A reason it gives for no attempt is
\* none that the drain knows, so the file becomes a dead letter; an exception is
\* caught by the drain, and by nobody without one.
Deliver ==
    /\ place = "deliver"
    /\ \/ /\ Verdict(text) = "ok"
          /\ place' = "posted" /\ text' = Compact(text) /\ length' = BytesOf(text')
          /\ UNCHANGED <<became, exit>>
       \/ /\ Verdict(text) \in Reasons
          /\ EndsAs(IF sender = "outbox" THEN "dead" ELSE "rejected", 0)
          /\ UNCHANGED <<text, length>>
       \/ /\ Verdict(text) \notin Reasons \cup {"ok"}
          /\ IF sender = "outbox" THEN EndsAs("retained", 0) ELSE EndsAs("rejected", 1)
          /\ UNCHANGED <<text, length>>
    /\ UNCHANGED <<sender, status>>

\* An answer decides; none is a transient failure, and so is one that is lost.
Learn(f) ==
    IF sender = "other" THEN place' = "over" /\ UNCHANGED <<became, exit>>
    ELSE EndsAs(f, 0)

\* The monitor is not reached.
Unreached ==
    /\ place = "posted" /\ Learn("retained")
    /\ UNCHANGED <<sender, text, length, status>>

\* flush, or the next drain.
Replay ==
    /\ sender = "outbox" /\ place = "over" /\ became = "retained"
    /\ place' = "pending" /\ became' = "none" /\ status' = 0
    /\ text' = Enveloped(text)
    /\ UNCHANGED <<sender, length, exit>>

-----------------------------------------------------------------------------
(* The monitor: do_POST behind the right path and method. *)

TooLong(n) == n > MaxPayload

\* Mutant of Rejection: the handler answers for every exception.
RejectionOfAll(verdict) ==
    CASE verdict = "payload_too_large" -> 413
      [] verdict = "ValueError" -> 500
      [] OTHER -> 422

\* 0 is no answer: the handler ends by an exception that it does not catch.
Rejection(verdict) ==
    CASE verdict = "payload_too_large" -> 413
      [] verdict = "ValueError" -> 0
      [] OTHER -> 422

\* The status for a whole body.  The limit is put to the body as it is written, and
\* then to its value.
Status ==
    IF TooLong(length) THEN 413
    ELSE IF ParseError(text) # "none" THEN 400
    ELSE IF Verdict(text) = "ok" THEN 202
    ELSE Rejection(Verdict(text))

FateAfter(n) == CASE n = 202 -> "delivered"
                  [] n = 0 -> "retained"
                  [] OTHER -> "dead"

Serve ==
    /\ place = "posted"
    /\ status' = Status
    /\ Learn(FateAfter(Status)) \/ Learn("retained")
    /\ UNCHANGED <<sender, text, length>>

\* Before the body: no or a wrong Content-Length (411, 400, 413), a wrong token (401);
\* and a body that comes too late (408) or not whole (400).
Refuse ==
    /\ place = "posted"
    /\ \/ status' \in {401, 408}
       \/ sender = "other" /\ status' \in {400, 411, 413}
    /\ Learn("dead") \/ Learn("retained")
    /\ UNCHANGED <<sender, text, length>>

-----------------------------------------------------------------------------
ContractInit ==
    /\ text \in Texts
    /\ \/ sender \in {"emit", "outbox"} /\ place = "parse" /\ length = 0
       \/ sender = "other" /\ place = "posted" /\ length = BytesOf(text)
    /\ status = 0 /\ became = "none" /\ exit = 0

Told == place = "over" /\ UNCHANGED contractVars

ContractNext ==
    \/ Parse \/ Enqueue \/ ReadBack \/ Deliver \/ Unreached \/ Replay
    \/ Serve \/ Refuse
    \/ Told

ContractSpec == ContractInit /\ [][ContractNext]_contractVars

-----------------------------------------------------------------------------
(* Properties *)

ContractTypeOK ==
    /\ sender \in {"emit", "outbox", "other"} /\ text \in Text
    /\ place \in {"parse", "enqueue", "pending", "deliver", "posted", "over"}
    /\ length \in Nat /\ status \in {0, 202, 400, 401, 408, 411, 413, 422}
    /\ became \in {"none", "rejected", "corrupt", "delivered", "retained", "dead"}
    /\ exit \in {0, 1}

Sound(t) == t.defects = {} /\ Measured(t) <= MaxPayload

\* The monitor stores sound events and no others, whoever sends them: a check
\* that is passed over, or one that ends early, would let the rest in.
OnlySoundIsStored == status = 202 => Sound(text)

\* What enqueue or emit accepted once is accepted everywhere after, although it
\* is measured as a value, written to a file in an envelope, read again, encoded
\* for the body and measured there as bytes: no event of the permitted size
\* becomes a corrupt file, or a dead letter for what is in it, and a file is not
\* kept for ever because validation raises on it.
AcceptedIsAcceptedAgain ==
    /\ became # "corrupt"
    /\ became = "dead" => status \in {401, 408}
    /\ sender = "outbox" /\ place \in {"pending", "deliver"} => Sound(text)
    /\ became = "retained" => Sound(text)

\* "Fail-open schema-v1 telemetry sender" (agent.py): emit ends with exit code
\* 0 and leaves the job's result alone, whatever the event is and whatever the
\* monitor says.  The exceptions are the texts on which json.loads, json.dumps,
\* the walk or urlparse raise what nobody catches.
FailsOpenButForUncaught ==
    exit # 0 => text.defects \cap {"digits", "brackets", "deep", "nested", "url"} # {}

\* What becomes of a text is settled by its first check: an event that is wrong is
\* never stored, one that was taken once is taken by the outbox, the sender and
\* the monitor alike, and a text that is refused does not fail the job.
ContractKept ==
    /\ ContractTypeOK /\ OnlySoundIsStored /\ AcceptedIsAcceptedAgain
    /\ FailsOpenButForUncaught

\* The inductive strengthening: what reached a validation was parsed, what this
\* program sends is sound and exactly the bytes that were measured, and what
\* others post has no exit code and no file.
PlacesTell ==
    /\ place \in {"enqueue", "deliver"} => ParseError(text) = "none"
    /\ sender # "other" /\ place = "posted" => Sound(text) /\ length = Measured(text)
    /\ place \in {"enqueue", "pending"} => sender = "outbox"
    /\ sender = "other" => place \in {"posted", "over"} /\ became = "none" /\ exit = 0

ContractIInv == ContractKept /\ PlacesTell
=============================================================================
