--------------------------- MODULE ExchangeProofs ---------------------------
(***************************************************************************)
(* The way of one event from `emit` to an answer, part by part: what becomes*)
(* of its text (Contract), the clock of a drain (Delivery), one attempt on *)
(* the network (Transport), the monitor's process (Server); for any sizes, *)
(* budgets, numbers of retries, addresses, chunks, connections and faults. *)
(***************************************************************************)
EXTENDS Contract, Delivery, Transport, Server, WellFoundedInduction, TLAPS

-----------------------------------------------------------------------------
(* Numbers *)

\* A set of natural numbers that is not empty has a least element: this stands
\* for induction over numbers.
LEMMA ExchangeLeast ==
    ASSUME NEW S \in SUBSET Nat, S # {}
    PROVE  \E n \in S : \A m \in S : n <= m
<1>1. PICK n \in S : \A m \in S : <<m, n>> \notin OpToRel(<, Nat)
  BY NatLessThanWellFounded, WFMin
<1>2. \A m \in S : ~(m < n)
  BY <1>1 DEF OpToRel
<1> QED
  BY <1>2

-----------------------------------------------------------------------------
(* Contract: what becomes of a text *)

\* However a value is written, it is measured alike, and the body of a request has
\* the bytes that were measured: encoding twice is encoding once, and neither the
\* envelope nor what the sender's text was padded with counts.
LEMMA Rewritten ==
    ASSUME NEW t \in Text
    PROVE  /\ Compact(t) \in Text /\ Enveloped(t) \in Text
           /\ Compact(t).defects = t.defects /\ Enveloped(t).defects = t.defects
           /\ Measured(t) \in Nat /\ BytesOf(Compact(t)) = Measured(t)
           /\ Measured(Compact(t)) = Measured(t) /\ Measured(Enveloped(t)) = Measured(t)
           /\ Sound(Compact(t)) <=> Sound(t)
           /\ Sound(Enveloped(t)) <=> Sound(t)
<1>1. t.plain \in Nat /\ t.wide \in Nat /\ Wrapping \in Nat
  BY ContractAssumption DEF ContractAssumption, Text
<1>2. /\ Compact(t) \in Text
      /\ Compact(t).defects = t.defects /\ Compact(t).plain = t.plain
      /\ Compact(t).wide = t.wide /\ Compact(t).padding = 0 /\ Compact(t).escaped = TRUE
  BY DEF Compact, Text
<1>3. PICK c \in Text : c = Compact(t)
  BY <1>2
<1>4. Enveloped(t) = [c EXCEPT !.padding = Wrapping]
  BY <1>3 DEF Enveloped
<1>5. /\ Enveloped(t) \in Text
      /\ Enveloped(t).defects = c.defects /\ Enveloped(t).plain = c.plain
      /\ Enveloped(t).wide = c.wide
  BY <1>1, <1>4 DEF Text
<1>6. \A u \in Text : Measured(u) = u.plain + 0 + u.wide * 6
  <2> SUFFICES ASSUME NEW u \in Text PROVE Measured(u) = u.plain + 0 + u.wide * 6
    OBVIOUS
  <2>1. /\ Compact(u).plain = u.plain /\ Compact(u).wide = u.wide
        /\ Compact(u).padding = 0 /\ Compact(u).escaped = TRUE
    BY DEF Compact, Text
  <2> QED
    BY <2>1 DEF Measured, BytesOf
<1>7. t.plain + 0 + t.wide * 6 \in Nat
  BY <1>1
<1>8. Measured(t) \in Nat /\ BytesOf(Compact(t)) = Measured(t)
  BY <1>6, <1>7 DEF Measured
<1>9. Measured(Compact(t)) = Measured(t) /\ Measured(Enveloped(t)) = Measured(t)
  BY <1>2, <1>3, <1>5, <1>6
<1> QED
  BY <1>2, <1>3, <1>5, <1>8, <1>9 DEF Sound

\* A text without what json.loads raises for has none of its three defects.
LEMMA Parsed ==
    ASSUME NEW t \in Text
    PROVE  /\ ParseError(t) = "none" <=> t.defects \cap DOMAIN ParseRaises = {}
           /\ ParseError(t) \notin {"none", "JSONDecodeError"}
                => t.defects \cap {"digits", "brackets"} # {}
<1> DEFINE wrong == t.defects \cap DOMAIN ParseRaises
           first == CHOOSE d \in wrong : TRUE
<1>1. DOMAIN ParseRaises = {"no_json", "digits", "brackets"}
  BY DEF ParseRaises
<1>2. CASE wrong = {}
  BY <1>2 DEF ParseError
<1>3. CASE wrong # {}
  <2>1. first \in wrong
    BY <1>3
  <2>2. ParseError(t) = ParseRaises[first]
    BY <1>3 DEF ParseError
  <2>3. CASE first = "no_json"
    BY <1>3, <2>2, <2>3 DEF ParseRaises
  <2>4. CASE first \in {"digits", "brackets"}
    BY <1>3, <2>1, <2>2, <2>4 DEF ParseRaises
  <2> QED
    BY <1>1, <2>1, <2>3, <2>4
<1> QED
  BY <1>2, <1>3

\* The checks by name.
LEMMA Checks ==
    /\ DOMAIN Order = 1 .. 12
    /\ {Order[i] : i \in DOMAIN Order} =
         {"deep", "nan", "large", "no_object", "nested", "forbidden", "schema",
          "type", "fields", "values", "url", "detail"}
  BY DEF Order

\* A text that nothing is found in is accepted, and no other; the exceptions that
\* nobody catches come from three checks.
LEMMA Judged ==
    ASSUME NEW t \in Text
    PROVE  /\ Verdict(t) = "ok" <=>
                t.defects \cap {Order[i] : i \in DOMAIN Order} = {} /\ Measured(t) <= MaxPayload
           /\ Verdict(t) \in Reasons \cup {"ok", "RecursionError", "ValueError"}
           /\ Verdict(t) \in {"RecursionError", "ValueError"}
                => t.defects \cap {"deep", "nested", "url"} # {}
<1> DEFINE wrong == t.defects \cup (IF Measured(t) > MaxPayload THEN {"large"} ELSE {})
           hits == {i \in DOMAIN Order : Order[i] \in wrong}
           first == CHOOSE i \in hits : \A j \in hits : i <= j
<1>1. MaxPayload \in Nat /\ Measured(t) \in Nat /\ "large" \notin t.defects
  BY ContractAssumption, Rewritten DEF ContractAssumption, Text, Defects
<1>2. hits \subseteq 1 .. 12 /\ hits \subseteq Nat
  BY Checks
<1>3. hits = {} <=> /\ t.defects \cap {Order[i] : i \in DOMAIN Order} = {}
                    /\ Measured(t) <= MaxPayload
  <2>1. Order[3] = "large" /\ 3 \in DOMAIN Order
    BY DEF Order
  <2>2. "large" \in wrong <=> ~(Measured(t) <= MaxPayload)
    BY <1>1
  <2>3. \A d : d # "large" => (d \in wrong <=> d \in t.defects)
    OBVIOUS
  <2> HIDE DEF wrong
  <2>4. ASSUME hits = {} PROVE t.defects \cap {Order[i] : i \in DOMAIN Order} = {}
    BY <1>1, <2>3, <2>4
  <2>5. hits = {} => Measured(t) <= MaxPayload
    BY <2>1, <2>2
  <2>6. ASSUME t.defects \cap {Order[i] : i \in DOMAIN Order} = {}, Measured(t) <= MaxPayload
        PROVE  hits = {}
    BY <2>2, <2>3, <2>6
  <2> QED
    BY <2>4, <2>5, <2>6
<1>4. CASE hits = {}
  BY <1>3, <1>4 DEF Verdict
<1>5. CASE hits # {}
  <2>1. first \in hits
    <3>1. PICK n \in hits : \A m \in hits : n <= m
      BY <1>2, <1>5, ExchangeLeast
    <3> HIDE DEF hits
    <3> QED
      BY <3>1
  <2>2. PICK d : d = Order[first] /\ d \in wrong
    BY <2>1
  <2>3. Verdict(t) = Raises(d)
    BY <1>5, <2>2 DEF Verdict
  <2>4. Raises(d) \in Reasons \cup {"RecursionError", "ValueError"}
    BY DEF Raises, Reasons
  <2>5. Raises(d) \in {"RecursionError", "ValueError"} => d \in {"deep", "nested", "url"}
    BY DEF Raises
  <2>6. d \in {"deep", "nested", "url"} => d \in t.defects
    BY <2>2
  <2>7. Raises(d) # "ok"
    BY <2>4 DEF Reasons
  <2> HIDE DEF hits, wrong, first
  <2> QED
    BY <1>3, <1>5, <2>3, <2>4, <2>5, <2>6, <2>7 DEF Reasons
<1> QED
  BY <1>4, <1>5

\* Parsed and validated is sound.
LEMMA SoundIsAccepted ==
    ASSUME NEW t \in Text
    PROVE  Sound(t) <=> ParseError(t) = "none" /\ Verdict(t) = "ok"
<1>1. t.defects \subseteq DOMAIN ParseRaises \cup {Order[i] : i \in DOMAIN Order}
  BY DEF Text, Defects
<1>2. t.defects = {} <=> /\ t.defects \cap DOMAIN ParseRaises = {}
                         /\ t.defects \cap {Order[i] : i \in DOMAIN Order} = {}
  BY <1>1
<1> QED
  BY <1>2, Parsed, Judged DEF Sound

\* What main answers to a whole body.
LEMMA StatusIs ==
    ASSUME ContractTypeOK
    PROVE  /\ Status \in {0, 202, 400, 413, 422}
           /\ Status = 202 <=> ~TooLong(length) /\ Sound(text)
<1>1. text \in Text
  BY DEF ContractTypeOK
<1>2. Verdict(text) = "ok" \/ Rejection(Verdict(text)) \in {413, 0, 422}
  BY DEF Rejection
<1> QED
  BY <1>1, <1>2, SoundIsAccepted DEF Status

\* The text as it is handed over.
LEMMA ContractStarts == ContractInit => ContractIInv
<1> SUFFICES ASSUME ContractInit PROVE ContractIInv
  OBVIOUS
<1>1. text \in Text
  BY ContractAssumption DEF ContractInit, ContractAssumption, Texts, Text
<1>2. BytesOf(text) \in Nat
  <2>1. text.plain \in Nat /\ text.padding \in Nat /\ text.wide \in Nat
    BY <1>1 DEF Text
  <2>2. text.wide * 6 \in Nat /\ text.wide * 2 \in Nat
    BY <2>1
  <2> QED
    BY <2>1, <2>2 DEF BytesOf
<1>3. ContractTypeOK
  BY <1>1, <1>2 DEF ContractInit, ContractTypeOK
<1>4. OnlySoundIsStored /\ AcceptedIsAcceptedAgain /\ FailsOpenButForUncaught /\ PlacesTell
  BY DEF ContractInit, OnlySoundIsStored, AcceptedIsAcceptedAgain, FailsOpenButForUncaught,
         PlacesTell
<1> QED
  BY <1>3, <1>4 DEF ContractIInv, ContractKept

\* What the invariant says where a text is read, checked and written anew.
LEMMA SenderStep ==
    ASSUME ContractIInv, Parse \/ Enqueue \/ ReadBack \/ Deliver \/ Replay
    PROVE  ContractIInv'
<1>1. ContractTypeOK /\ OnlySoundIsStored /\ AcceptedIsAcceptedAgain
      /\ FailsOpenButForUncaught /\ PlacesTell
  BY DEF ContractIInv, ContractKept
<1>2. text \in Text /\ sender' = sender
  BY <1>1 DEF ContractTypeOK, Parse, Enqueue, ReadBack, Deliver, Replay
<1>3. Sound(text) <=> ParseError(text) = "none" /\ Verdict(text) = "ok"
  BY <1>2, SoundIsAccepted
<1>4. /\ Compact(text) \in Text /\ (Sound(text) => Sound(Compact(text)))
      /\ Enveloped(text) \in Text /\ (Sound(text) => Sound(Enveloped(text)))
      /\ Sound(text) => ParseError(Compact(text)) = "none"
      /\ Measured(text) \in Nat
      /\ BytesOf(Compact(text)) = Measured(text)
      /\ Measured(Compact(text)) = Measured(text)
  <2>1. Compact(text) \in Text /\ (Sound(text) => Sound(Compact(text)))
    BY <1>2, Rewritten
  <2>2. Sound(text) => ParseError(Compact(text)) = "none"
    BY <2>1, SoundIsAccepted
  <2> QED
    BY <1>2, <2>1, <2>2, Rewritten
<1>5. Verdict(text) \notin Reasons \cup {"ok"}
        => text.defects \cap {"deep", "nested", "url"} # {}
  BY <1>2, Judged
<1>6. CASE Parse
  <2>1. /\ sender # "other" /\ place = "parse" /\ text' = text
        /\ length' = length /\ status' = status
    BY <1>1, <1>6 DEF Parse, PlacesTell
  <2>2. \/ /\ ParseError(text) = "none" /\ UNCHANGED <<became, exit>>
           /\ \/ sender = "outbox" /\ place' = "enqueue"
              \/ sender # "outbox" /\ place' = "deliver"
        \/ EndsAs("rejected", 0)
        \/ ParseError(text) \notin {"none", "JSONDecodeError"} /\ EndsAs("rejected", 1)
    BY <1>6 DEF Parse
  <2>3. ParseError(text) \notin {"none", "JSONDecodeError"}
          => text.defects \cap {"digits", "brackets"} # {}
    BY <1>2, Parsed
  <2> QED
    BY <1>1, <1>2, <2>1, <2>2, <2>3
    DEF EndsAs, ContractIInv, ContractKept, ContractTypeOK, OnlySoundIsStored,
        AcceptedIsAcceptedAgain, FailsOpenButForUncaught, PlacesTell
<1>7. CASE Enqueue
  <2>1. /\ sender = "outbox" /\ place = "enqueue" /\ ParseError(text) = "none"
        /\ length' = length /\ status' = status
    BY <1>1, <1>7 DEF Enqueue, PlacesTell
  <2>2. \/ /\ Verdict(text) = "ok" /\ place' = "pending" /\ text' = Enveloped(text)
           /\ UNCHANGED <<became, exit>>
        \/ EndsAs("rejected", 0) /\ text' = text
        \/ Verdict(text) \notin Reasons \cup {"ok"} /\ EndsAs("rejected", 1) /\ text' = text
    BY <1>7 DEF Enqueue
  <2>3. CASE place' = "pending" /\ Sound(text) /\ text' = Enveloped(text)
             /\ UNCHANGED <<became, exit>>
    <3>1. Sound(text') /\ text' \in Text
      BY <1>4, <2>3
    <3>2. exit' = 0
      BY <1>1, <2>1, <2>3 DEF FailsOpenButForUncaught, Sound
    <3> QED
      BY <1>1, <1>2, <2>1, <2>3, <3>1, <3>2
      DEF ContractIInv, ContractKept, ContractTypeOK, OnlySoundIsStored,
          AcceptedIsAcceptedAgain, FailsOpenButForUncaught, PlacesTell
  <2>4. CASE place' = "over" /\ became' = "rejected" /\ text' = text
             /\ \/ exit' = 0
                \/ text.defects \cap {"deep", "nested", "url"} # {} /\ exit' = 1
    BY <1>1, <1>2, <2>1, <2>4
    DEF ContractIInv, ContractKept, ContractTypeOK, OnlySoundIsStored,
        AcceptedIsAcceptedAgain, FailsOpenButForUncaught, PlacesTell
  <2> QED
    BY <1>3, <1>5, <2>1, <2>2, <2>3, <2>4 DEF EndsAs
<1>8. CASE ReadBack
  <2>1. /\ sender = "outbox" /\ place = "pending" /\ Sound(text)
        /\ length' = length /\ status' = status /\ text' = Compact(text)
        /\ place' = "deliver" /\ UNCHANGED <<became, exit>>
    <3>1. place = "pending" /\ sender = "outbox"
      BY <1>1, <1>8 DEF ReadBack, PlacesTell
    <3>2. Verdict(text) = "ok"
      BY <1>1, <1>3, <3>1 DEF AcceptedIsAcceptedAgain
    <3> QED
      BY <1>1, <1>8, <3>1, <3>2 DEF ReadBack, AcceptedIsAcceptedAgain
  <2>2. Sound(text') /\ text' \in Text /\ ParseError(text') = "none" /\ exit' = 0
    BY <1>1, <1>4, <2>1 DEF FailsOpenButForUncaught, Sound
  <2> QED
    BY <1>1, <1>2, <2>1, <2>2
    DEF ContractIInv, ContractKept, ContractTypeOK, OnlySoundIsStored,
        AcceptedIsAcceptedAgain, FailsOpenButForUncaught, PlacesTell
<1>9. CASE Deliver
  <2>1. /\ sender # "other" /\ place = "deliver" /\ ParseError(text) = "none"
        /\ sender = "outbox" => Sound(text)
        /\ status' = status
    BY <1>1, <1>9 DEF Deliver, PlacesTell, AcceptedIsAcceptedAgain
  <2>2. CASE /\ Verdict(text) = "ok" /\ place' = "posted" /\ text' = Compact(text)
             /\ length' = BytesOf(text') /\ UNCHANGED <<became, exit>>
    <3>1. Sound(text') /\ text' \in Text /\ length' = Measured(text') /\ length' \in Nat
      BY <1>3, <1>4, <2>1, <2>2
    <3>2. exit' = 0
      BY <1>1, <1>3, <2>1, <2>2 DEF FailsOpenButForUncaught, Sound
    <3> QED
      BY <1>1, <1>2, <2>1, <2>2, <3>1, <3>2
      DEF ContractIInv, ContractKept, ContractTypeOK, OnlySoundIsStored,
          AcceptedIsAcceptedAgain, FailsOpenButForUncaught, PlacesTell
  <2>3. CASE /\ Verdict(text) # "ok" /\ place' = "over" /\ became' = "rejected"
             /\ UNCHANGED <<text, length>>
             /\ \/ exit' = 0
                \/ text.defects \cap {"deep", "nested", "url"} # {} /\ exit' = 1
    BY <1>1, <1>2, <2>1, <2>3
    DEF ContractIInv, ContractKept, ContractTypeOK, OnlySoundIsStored,
        AcceptedIsAcceptedAgain, FailsOpenButForUncaught, PlacesTell
  <2>4. "ok" \notin Reasons
    BY DEF Reasons
  <2>5. Verdict(text) # "ok" => sender # "outbox"
    BY <1>3, <2>1
  <2> QED
    BY <1>5, <1>9, <2>2, <2>3, <2>4, <2>5 DEF Deliver, EndsAs
<1>10. CASE Replay
  <2>1. /\ sender = "outbox" /\ Sound(text) /\ length' = length /\ status' = 0
        /\ place' = "pending" /\ became' = "none" /\ exit' = exit
        /\ text' = Enveloped(text)
    BY <1>1, <1>10 DEF Replay, AcceptedIsAcceptedAgain
  <2>2. Sound(text') /\ text' \in Text /\ exit' = 0
    BY <1>1, <1>4, <2>1 DEF FailsOpenButForUncaught, Sound
  <2> QED
    BY <1>1, <1>2, <2>1, <2>2
    DEF ContractIInv, ContractKept, ContractTypeOK, OnlySoundIsStored,
        AcceptedIsAcceptedAgain, FailsOpenButForUncaught, PlacesTell
<1> QED
  BY <1>6, <1>7, <1>8, <1>9, <1>10

\* The monitor answers, its answer is lost, or it is not reached.
LEMMA AnswerStep ==
    ASSUME ContractIInv, Serve \/ Refuse \/ Unreached
    PROVE  ContractIInv'
<1>1. ContractTypeOK /\ OnlySoundIsStored /\ AcceptedIsAcceptedAgain
      /\ FailsOpenButForUncaught /\ PlacesTell
  BY DEF ContractIInv, ContractKept
<1>2. /\ text \in Text /\ Measured(text) \in Nat /\ MaxPayload \in Nat /\ length \in Nat
      /\ text' = text /\ sender' = sender /\ length' = length /\ place = "posted"
  BY <1>1, ContractAssumption, Rewritten
  DEF ContractTypeOK, ContractAssumption, Serve, Refuse, Unreached
<1>3. \/ Learn("retained")
      \/ /\ Learn("dead")
         /\ sender # "other" => status' \in {401, 408}
      \/ Learn("delivered")
  <2>1. CASE Serve
    <3>1. status' = Status /\ (Learn(FateAfter(Status)) \/ Learn("retained"))
      BY <2>1 DEF Serve
    <3>2. sender # "other" => Status = 202
      <4>1. sender # "other" => Sound(text) /\ length = Measured(text)
        BY <1>1, <1>2 DEF PlacesTell
      <4>2. sender # "other" => ~TooLong(length)
        BY <1>2, <4>1 DEF Sound, TooLong
      <4> QED
        BY <1>1, <4>1, <4>2, StatusIs
    <3>3. FateAfter(Status) \in {"delivered", "retained", "dead"}
      BY DEF FateAfter
    <3>4. FateAfter(202) = "delivered"
      BY DEF FateAfter
    <3> QED
      BY <3>1, <3>2, <3>3, <3>4
  <2>2. CASE Refuse
    BY <2>2 DEF Refuse
  <2>3. CASE Unreached
    BY <2>3 DEF Unreached
  <2> QED
    BY <2>1, <2>2, <2>3
<1>4. status' \in {0, 202, 400, 401, 408, 411, 413, 422} /\ (status' = 202 => Sound(text))
  <2>1. CASE Serve
    BY <1>1, <2>1, StatusIs DEF Serve
  <2>2. CASE Refuse
    BY <2>2 DEF Refuse
  <2>3. CASE Unreached
    BY <1>1, <2>3 DEF Unreached, ContractTypeOK, OnlySoundIsStored
  <2> QED
    BY <2>1, <2>2, <2>3
<1>5. CASE sender = "other"
  <2>1. place' = "over" /\ UNCHANGED <<became, exit>>
    BY <1>3, <1>5 DEF Learn
  <2> QED
    BY <1>1, <1>2, <1>4, <1>5, <2>1
    DEF ContractIInv, ContractKept, ContractTypeOK, OnlySoundIsStored,
        AcceptedIsAcceptedAgain, FailsOpenButForUncaught, PlacesTell
<1>6. CASE sender # "other"
  <2>1. place' = "over" /\ exit' = 0 /\ became' \in {"retained", "dead", "delivered"}
        /\ (became' = "dead" => status' \in {401, 408})
    BY <1>3, <1>6 DEF Learn, EndsAs
  <2>2. Sound(text)
    BY <1>1, <1>2, <1>6 DEF PlacesTell
  <2> QED
    BY <1>1, <1>2, <1>4, <1>6, <2>1, <2>2
    DEF ContractIInv, ContractKept, ContractTypeOK, OnlySoundIsStored,
        AcceptedIsAcceptedAgain, FailsOpenButForUncaught, PlacesTell
<1> QED
  BY <1>5, <1>6

\* For any limit, any sizes and any combination of defects, at both ends of the
\* network and through the outbox.
THEOREM ContractInvariance == ContractSpec => []ContractIInv
<1>1. ContractIInv /\ [ContractNext]_contractVars => ContractIInv'
  <2> SUFFICES ASSUME ContractIInv, [ContractNext]_contractVars PROVE ContractIInv'
    OBVIOUS
  <2>1. CASE UNCHANGED contractVars
    BY <2>1 DEF contractVars, ContractIInv, ContractKept, ContractTypeOK, OnlySoundIsStored,
       AcceptedIsAcceptedAgain, FailsOpenButForUncaught, PlacesTell
  <2> QED
    BY <2>1, SenderStep, AnswerStep DEF ContractNext, Told
<1> QED
  BY <1>1, ContractStarts, PTL DEF ContractSpec

\* An event that is wrong is never stored.  One that validate_event let through once
\* is let through by the outbox, the sender and the monitor, whatever its characters
\* take as an argument, in the file and in the body.  And emit ends with 0 but for
\* what json.loads, json.dumps, the walk and urlparse raise.
THEOREM ContractIsKept == ContractSpec => []ContractKept
<1>1. ContractIInv => ContractKept
  BY DEF ContractIInv
<1> QED
  BY <1>1, ContractInvariance, PTL

-----------------------------------------------------------------------------
(* Delivery: the clock of a drain *)

\* The recursion of Pause defines a function: prefixes of it exist for every
\* number and agree where they overlap.
LEMMA PauseIs == Pause = [n \in Nat |-> IF n <= 1 THEN 1 ELSE 2 * Pause[n - 1]]
<1> DEFINE Prefix(h, n) == h = [i \in 0 .. n |-> IF i <= 1 THEN 1 ELSE 2 * h[i - 1]]
           Some(n) == CHOOSE h : Prefix(h, n)
           F == [n \in Nat |-> Some(n)[n]]
<1>1. ASSUME NEW n \in Nat, NEW m \in Nat, NEW h, NEW k, Prefix(h, n), Prefix(k, m)
      PROVE  \A i \in Nat : i <= n /\ i <= m => h[i] = k[i]
  <2> DEFINE Differ == {i \in Nat : i <= n /\ i <= m /\ h[i] # k[i]}
  <2>1. ASSUME Differ # {} PROVE FALSE
    <3>1. PICK i \in Differ : \A j \in Differ : i <= j
      BY <2>1, ExchangeLeast
    <3>2. i \in Nat /\ i <= n /\ i <= m /\ h[i] # k[i]
      BY <3>1
    <3>3. /\ h[i] = IF i <= 1 THEN 1 ELSE 2 * h[i - 1]
          /\ k[i] = IF i <= 1 THEN 1 ELSE 2 * k[i - 1]
      BY <1>1, <3>2
    <3>4. ~(i <= 1) => h[i - 1] = k[i - 1]
      BY <3>1, <3>2
    <3> QED
      BY <3>2, <3>3, <3>4
  <2> QED
    BY <2>1
<1>2. \A n \in Nat : Prefix(Some(n), n)
  <2> DEFINE Without == {n \in Nat : ~\E h : Prefix(h, n)}
  <2>1. ASSUME Without # {} PROVE FALSE
    <3>1. PICK n \in Without : \A m \in Without : n <= m
      BY <2>1, ExchangeLeast
    <3>2. CASE n = 0
      <4>1. Prefix([i \in 0 .. 0 |-> 1], 0)
        OBVIOUS
      <4> QED
        BY <3>1, <3>2, <4>1
    <3>3. CASE n # 0
      <4>1. n \in Nat /\ n - 1 \in Nat
        BY <3>1, <3>3
      <4>2. n - 1 \notin Without
        <5> HIDE DEF Without
        <5> QED
          BY <3>1, <4>1
      <4>3. PICK g : Prefix(g, n - 1)
        BY <4>1, <4>2
      <4> DEFINE h == [i \in 0 .. n |-> IF i <= 1 THEN 1 ELSE 2 * g[i - 1]]
      <4>4. \A i \in 0 .. n - 1 : h[i] = g[i]
        BY <4>1, <4>3
      <4>5. ASSUME NEW i \in 0 .. n, ~(i <= 1) PROVE 2 * g[i - 1] = 2 * h[i - 1]
        <5>1. i - 1 \in 0 .. n - 1
          BY <3>1, <4>5
        <5> HIDE DEF h
        <5> QED
          BY <4>4, <5>1
      <4>6. h = [i \in 0 .. n |-> IF i <= 1 THEN 1 ELSE 2 * h[i - 1]]
        BY <4>5
      <4> QED
        BY <3>1, <4>6
    <3> QED
      BY <3>2, <3>3
  <2>2. \A n \in Nat : \E h : Prefix(h, n)
    BY <2>1
  <2> QED
    BY <2>2
<1>3. ASSUME NEW n \in Nat
      PROVE  F[n] = IF n <= 1 THEN 1 ELSE 2 * F[n - 1]
  <2> HIDE DEF Some
  <2>1. Prefix(Some(n), n)
    BY <1>2
  <2>2. Some(n)[n] = IF n <= 1 THEN 1 ELSE 2 * Some(n)[n - 1]
    BY <2>1
  <2>3. ASSUME ~(n <= 1) PROVE Some(n)[n - 1] = Some(n - 1)[n - 1]
    <3>1. n - 1 \in Nat
      BY <2>3
    <3>2. Prefix(Some(n - 1), n - 1)
      BY <1>2, <3>1
    <3> HIDE DEF Prefix
    <3> QED
      BY <1>1, <2>1, <3>1, <3>2
  <2>4. F[n] = Some(n)[n] /\ (~(n <= 1) => F[n - 1] = Some(n - 1)[n - 1])
    OBVIOUS
  <2> QED
    BY <2>2, <2>3, <2>4
<1>4. \E f : f = [n \in Nat |-> IF n <= 1 THEN 1 ELSE 2 * f[n - 1]]
  <2>1. F = [n \in Nat |-> IF n <= 1 THEN 1 ELSE 2 * F[n - 1]]
    <3> HIDE DEF Some
    <3>1. F = [n \in Nat |-> F[n]]
      OBVIOUS
    <3> HIDE DEF F
    <3> QED
      BY <1>3, <3>1
  <2> QED
    BY <2>1
<1> QED
  BY <1>4 DEF Pause

\* No pause goes back in time.
LEMMA PauseIsNumber == \A n \in Nat : Pause[n] \in Nat
<1> DEFINE Bad == {n \in Nat : Pause[n] \notin Nat}
<1>1. ASSUME Bad # {} PROVE FALSE
  <2>1. PICK n \in Bad : \A m \in Bad : n <= m
    BY <1>1, ExchangeLeast
  <2>2. Pause[n] = IF n <= 1 THEN 1 ELSE 2 * Pause[n - 1]
    BY <2>1, PauseIs
  <2>3. ~(n <= 1) => Pause[n - 1] \in Nat
    BY <2>1
  <2> QED
    BY <2>1, <2>2, <2>3
<1> QED
  BY <1>1

\* The budgets of the parts of an exchange are numbers, and those of time positive.
LEMMA Budgets ==
    /\ Events \in Nat /\ DrainEvents \in Nat /\ MaxRetries \in Nat
    /\ DrainSeconds \in Nat /\ DrainSeconds > 0
    /\ DeliverySeconds \in Nat /\ DeliverySeconds > 0
    /\ Horizon \in Nat /\ Horizon = DrainSeconds + DeliverySeconds
  BY DeliveryAssumption DEF DeliveryAssumption, Horizon

\* The invariant by its parts.
LEMMA DeliveryParts ==
    DeliveryIInv <=> /\ DeliveryTypeOK /\ OnlyTransientIsRetried /\ FateMatchesAnswer
                     /\ DrainWithinBudget /\ OneAfterAnother /\ InProgress /\ InTime
  BY DEF DeliveryIInv, RetriesAreSafe

\* A drain as it begins.
LEMMA DeliveryStarts == DeliveryInit => DeliveryIInv
<1> SUFFICES ASSUME DeliveryInit PROVE DeliveryIInv
  OBVIOUS
<1>1. /\ \A e \in 1 .. Events : answers[e] = <<>> /\ fate[e] = "pending"
      /\ drainTime = 0 /\ drainStep = "next" /\ index = 0
  BY DEF DeliveryInit
<1>2. DeliveryTypeOK
  <2>1. <<>> \in Seq(Answers)
    OBVIOUS
  <2> QED
    BY <2>1, Budgets DEF DeliveryInit, DeliveryTypeOK
<1>3. OnlyTransientIsRetried
  BY <1>1, Budgets DEF OnlyTransientIsRetried
<1>4. FateMatchesAnswer
  BY <1>1 DEF FateMatchesAnswer
<1>5. DrainWithinBudget
  BY <1>1, Budgets DEF DrainWithinBudget
<1>6. OneAfterAnother /\ InProgress /\ InTime
  BY <1>1, Budgets DEF OneAfterAnother, InProgress, InTime, Busy
<1> QED
  BY <1>2, <1>3, <1>4, <1>5, <1>6, DeliveryParts

\* The head of the loop of a drain.
LEMMA LoopStep ==
    ASSUME DeliveryIInv, NextEvent \/ EndDrain
    PROVE  DeliveryIInv'
<1>1. DeliveryTypeOK /\ OnlyTransientIsRetried /\ FateMatchesAnswer
      /\ DrainWithinBudget /\ OneAfterAnother
  BY DeliveryParts
<1>2. /\ caller' = caller /\ drainTime' = drainTime /\ index' = index
      /\ answers' = answers /\ fate' = fate /\ drainStep = "next"
      /\ drainTime \in Nat /\ index \in 0 .. Events /\ deadline \in 0 .. Horizon
      /\ attempts \in 0 .. MaxRetries + 1
  BY <1>1, Budgets DEF NextEvent, EndDrain, DeliveryTypeOK
<1>3. (OnlyTransientIsRetried /\ FateMatchesAnswer /\ DrainWithinBudget)'
  BY <1>1, <1>2 DEF OnlyTransientIsRetried, FateMatchesAnswer, DrainWithinBudget
<1>4. CASE EndDrain
  <2>1. drainStep' = "done" /\ deadline' = deadline /\ attempts' = attempts
    BY <1>4 DEF EndDrain
  <2>2. DeliveryTypeOK'
    BY <1>1, <1>2, <2>1 DEF DeliveryTypeOK
  <2>3. OneAfterAnother' /\ InProgress' /\ InTime'
    BY <1>1, <1>2, <2>1 DEF OneAfterAnother, InProgress, InTime, Busy
  <2> QED
    BY <1>3, <2>2, <2>3, DeliveryParts DEF DeliveryIInv, RetriesAreSafe
<1>5. CASE NextEvent
  <2>1. /\ drainStep' = "attempt" /\ deadline' = drainTime + Granted /\ attempts' = 0
        /\ index < Events /\ drainTime < DrainSeconds
    BY <1>5 DEF NextEvent
  <2>2. /\ Granted \in Nat /\ Granted > 0 /\ Granted <= DeliverySeconds
        /\ caller = "agent" => Granted <= DrainSeconds - drainTime
    BY <1>2, <2>1, Budgets DEF Granted, Least
  <2>3. /\ deadline' \in 0 .. Horizon /\ drainTime <= deadline' /\ deadline' < Horizon
        /\ caller = "agent" => deadline' <= DrainSeconds
    BY <1>2, <2>1, <2>2, Budgets
  <2>4. DeliveryTypeOK'
    BY <1>1, <1>2, <2>1, <2>3, Budgets DEF DeliveryTypeOK
  <2>5. InTime'
    BY <1>2, <2>3 DEF InTime
  <2>6. OneAfterAnother'
    BY <1>1, <1>2, <2>1 DEF OneAfterAnother, Busy
  <2>7. InProgress'
    <3>1. index + 1 \in 1 .. Events /\ index + 1 > index
      BY <1>2, <2>1, Budgets
    <3>2. answers[index + 1] = <<>>
      BY <1>1, <1>2, <3>1 DEF OneAfterAnother, Busy
    <3> QED
      BY <1>2, <2>1, <3>2, Budgets DEF InProgress, Busy
  <2> QED
    BY <1>3, <2>4, <2>5, <2>6, <2>7 DEF DeliveryIInv, RetriesAreSafe
<1> QED
  BY <1>4, <1>5

\* The time an attempt or a pause takes stays within the drain's.
LEMMA TimePasses ==
    ASSUME DeliveryIInv, Busy, drainTime' \in drainTime .. deadline,
           caller' = caller, deadline' = deadline
    PROVE  /\ drainTime' \in 0 .. Horizon /\ DrainWithinBudget' /\ InTime'
<1>1. /\ drainTime \in 0 .. Horizon /\ deadline \in 0 .. Horizon /\ deadline < Horizon
      /\ caller = "agent" => deadline <= DrainSeconds
  BY DeliveryParts DEF DeliveryTypeOK, InTime
<1>2. drainTime' \in Nat /\ drainTime' <= deadline
  BY <1>1, Budgets
<1>3. drainTime' \in 0 .. Horizon
  BY <1>1, <1>2, Budgets
<1>4. DrainWithinBudget'
  BY <1>1, <1>2, Budgets DEF DrainWithinBudget
<1> QED
  BY <1>1, <1>2, <1>3, <1>4 DEF InTime

\* One attempt, and what becomes of its event when it is the last.
LEMMA AttemptStep ==
    ASSUME DeliveryIInv, Attempt
    PROVE  DeliveryIInv'
<1>1. DeliveryTypeOK /\ OnlyTransientIsRetried /\ FateMatchesAnswer
      /\ OneAfterAnother /\ InProgress /\ InTime /\ Busy
  BY DeliveryParts DEF Attempt, Busy
<1>2. PICK reply \in Answers, time \in AttemptEnds :
         /\ drainTime' = time
         /\ answers' = [answers EXCEPT ![index + 1] = Append(@, reply)]
         /\ IF MayRetry(reply) THEN drainStep' = "backoff" /\ UNCHANGED <<index, fate>>
                                ELSE Finish(reply)
         /\ attempts' = attempts + 1 /\ caller' = caller /\ deadline' = deadline
         /\ drainStep = "attempt"
  BY DEF Attempt
<1> DEFINE k == index + 1
<1>3. /\ k \in 1 .. Events /\ index \in 0 .. Events /\ index < Events
      /\ attempts \in Nat /\ attempts <= MaxRetries
      /\ Len(answers[k]) = attempts /\ \A i \in 1 .. attempts : answers[k][i] \in Retryable
  BY <1>1, Budgets DEF InProgress, DeliveryTypeOK
<1>4. answers \in [1 .. Events -> Seq(Answers)]
      /\ fate \in [1 .. Events -> {"pending", "removed", "dead_letter"}]
  BY <1>1 DEF DeliveryTypeOK
<1>5. PICK new : new = Append(answers[k], reply)
  OBVIOUS
<1>6. /\ new \in Seq(Answers) /\ Len(new) = attempts + 1
      /\ \A i \in 1 .. attempts : new[i] = answers[k][i]
      /\ new[attempts + 1] = reply
  BY <1>3, <1>4, <1>5
<1>7. /\ new # <<>> /\ Last(new) = reply
      /\ \A i \in 1 .. attempts : new[i] \in Retryable
  BY <1>3, <1>6 DEF Last
<1>8. /\ answers' \in [1 .. Events -> Seq(Answers)] /\ answers'[k] = new
      /\ \A e \in 1 .. Events : e # k => answers'[e] = answers[e]
  BY <1>2, <1>3, <1>4, <1>5, <1>6
<1> HIDE DEF k
<1>9. drainTime' \in 0 .. Horizon /\ DrainWithinBudget' /\ InTime'
  BY <1>1, <1>2, TimePasses DEF AttemptEnds
<1>10. OnlyTransientIsRetried'
  <2> SUFFICES ASSUME NEW e \in 1 .. Events
               PROVE  /\ Len(answers'[e]) <= MaxRetries + 1
                      /\ \A i \in 1 .. Len(answers'[e]) - 1 : answers'[e][i] \in Retryable
    BY DEF OnlyTransientIsRetried
  <2>1. CASE e = k
    BY <1>3, <1>6, <1>7, <1>8, <2>1, Budgets
  <2>2. CASE e # k
    BY <1>1, <1>8, <2>2 DEF OnlyTransientIsRetried
  <2> QED
    BY <2>1, <2>2
<1>11. CASE MayRetry(reply)
  <2>1. /\ drainStep' = "backoff" /\ index' = index /\ fate' = fate
        /\ reply \in Retryable /\ attempts' <= MaxRetries /\ attempts' = attempts + 1
    BY <1>2, <1>11 DEF MayRetry
  <2>2. DeliveryTypeOK'
    BY <1>1, <1>2, <1>3, <1>8, <1>9, <2>1, Budgets DEF DeliveryTypeOK
  <2>3. OneAfterAnother'
    BY <1>1, <1>3, <1>7, <1>8, <2>1 DEF OneAfterAnother, Busy, k
  <2>4. FateMatchesAnswer'
    <3> SUFFICES ASSUME NEW e \in 1 .. Events
                 PROVE  /\ fate'[e] = "removed" =>
                             answers'[e] # <<>> /\ Last(answers'[e]) = "accepted"
                        /\ fate'[e] = "dead_letter" =>
                             answers'[e] # <<>> /\ Last(answers'[e]) \in {"rejected", "broken"}
                        /\ answers'[e] # <<>> => \A d \in 1 .. e : answers'[d] # <<>>
      BY DEF FateMatchesAnswer
    <3>1. e = k => fate'[e] = "pending"
      BY <1>1, <1>3, <2>1 DEF OneAfterAnother, k
    <3>2. ASSUME answers'[e] # <<>>, NEW d \in 1 .. e PROVE answers'[d] # <<>>
      <4>1. ~(e > k)
        <5>1. e > k => e > index + 1 /\ e # k
          BY <1>3 DEF k
        <5> QED
          BY <1>1, <1>8, <3>2, <5>1 DEF OneAfterAnother
      <4>2. d \in 1 .. Events /\ d <= k
        BY <1>3, <4>1, Budgets
      <4>3. CASE d = k
        BY <1>7, <1>8, <4>3
      <4>4. CASE d # k
        <5>1. d <= index
          BY <1>3, <4>2, <4>4 DEF k
        <5> QED
          BY <1>1, <1>8, <4>2, <4>4, <5>1 DEF OneAfterAnother
      <4> QED
        BY <4>3, <4>4
    <3>3. e # k => answers'[e] = answers[e] /\ fate'[e] = fate[e]
      BY <1>8, <2>1
    <3> QED
      BY <1>1, <3>1, <3>2, <3>3 DEF FateMatchesAnswer
  <2>5. InProgress'
    <3>1. \A i \in 1 .. attempts' : answers'[k][i] \in Retryable
      BY <1>3, <1>6, <1>7, <1>8, <2>1
    <3> QED
      BY <1>3, <1>6, <1>8, <2>1, <3>1 DEF InProgress, Busy, k
  <2> QED
    BY <1>9, <1>10, <2>2, <2>3, <2>4, <2>5 DEF DeliveryIInv, RetriesAreSafe
<1>12. CASE ~MayRetry(reply)
  <2>1. /\ drainStep' = "next" /\ index' = k
        /\ fate' = [fate EXCEPT ![k] = Fate(reply, drainTime')]
    BY <1>2, <1>12 DEF Finish, k
  <2>2. /\ Fate(reply, drainTime') \in {"pending", "removed", "dead_letter"}
        /\ Fate(reply, drainTime') = "removed" => reply = "accepted"
        /\ Fate(reply, drainTime') = "dead_letter" => reply \in {"rejected", "broken"}
    BY <1>2 DEF Fate, Answers
  <2>3. /\ fate' \in [1 .. Events -> {"pending", "removed", "dead_letter"}]
        /\ fate'[k] = Fate(reply, drainTime')
        /\ \A e \in 1 .. Events : e # k => fate'[e] = fate[e]
    BY <1>3, <1>4, <2>1, <2>2
  <2>4. DeliveryTypeOK'
    BY <1>1, <1>2, <1>3, <1>8, <1>9, <2>1, <2>3, Budgets DEF DeliveryTypeOK
  <2>5. OneAfterAnother'
    <3> SUFFICES ASSUME NEW e \in 1 .. Events
                 PROVE  /\ e <= k => answers'[e] # <<>>
                        /\ e > k => fate'[e] = "pending" /\ answers'[e] = <<>>
      BY <1>3, <2>1 DEF OneAfterAnother, k
    <3>1. CASE e = k
      BY <1>3, <1>7, <1>8, <3>1
    <3>2. CASE e < k
      <4>1. e <= index
        BY <1>3, <3>2 DEF k
      <4> QED
        BY <1>1, <1>3, <1>8, <3>2, <4>1 DEF OneAfterAnother
    <3>3. CASE e > k
      <4>1. e > index /\ e > index + 1
        BY <1>3, <3>3 DEF k
      <4> QED
        BY <1>1, <1>3, <1>8, <2>3, <3>3, <4>1 DEF OneAfterAnother
    <3> QED
      BY <1>3, <3>1, <3>2, <3>3
  <2>6. FateMatchesAnswer'
    <3> SUFFICES ASSUME NEW e \in 1 .. Events
                 PROVE  /\ fate'[e] = "removed" =>
                             answers'[e] # <<>> /\ Last(answers'[e]) = "accepted"
                        /\ fate'[e] = "dead_letter" =>
                             answers'[e] # <<>> /\ Last(answers'[e]) \in {"rejected", "broken"}
                        /\ answers'[e] # <<>> => \A d \in 1 .. e : answers'[d] # <<>>
      BY DEF FateMatchesAnswer
    <3>1. ASSUME answers'[e] # <<>>, NEW d \in 1 .. e PROVE answers'[d] # <<>>
      <4>1. e <= k
        BY <1>3, <2>1, <2>5, <3>1 DEF OneAfterAnother, Busy
      <4>2. d \in 1 .. Events /\ d <= index'
        BY <1>3, <2>1, <4>1, Budgets
      <4> QED
        BY <2>5, <4>2 DEF OneAfterAnother
    <3>2. CASE e = k
      BY <1>7, <1>8, <2>2, <2>3, <3>1, <3>2
    <3>3. CASE e # k
      BY <1>1, <1>8, <2>3, <3>1, <3>3 DEF FateMatchesAnswer
    <3> QED
      BY <3>2, <3>3
  <2>7. InProgress'
    BY <2>1 DEF InProgress, Busy
  <2> QED
    BY <1>9, <1>10, <2>4, <2>5, <2>6, <2>7 DEF DeliveryIInv, RetriesAreSafe
<1> QED
  BY <1>11, <1>12

\* A pause, after which the event is tried again or given up for this drain.
LEMMA BackoffStep ==
    ASSUME DeliveryIInv, Backoff
    PROVE  DeliveryIInv'
<1>1. DeliveryTypeOK /\ OnlyTransientIsRetried /\ FateMatchesAnswer
      /\ OneAfterAnother /\ InProgress /\ InTime /\ Busy
  BY DeliveryParts DEF Backoff, Busy
<1>2. /\ drainTime' = Least(drainTime + Pause[attempts], deadline)
      /\ caller' = caller /\ deadline' = deadline /\ attempts' = attempts
      /\ answers' = answers /\ drainStep = "backoff"
      /\ \/ drainStep' = "attempt" /\ index' = index /\ fate' = fate
         \/ Finish(Last(answers[index + 1]))
  BY DEF Backoff
<1> DEFINE k == index + 1
<1>3. /\ k \in 1 .. Events /\ index \in 0 .. Events /\ index < Events
      /\ attempts \in Nat /\ attempts <= MaxRetries /\ attempts > 0
      /\ Len(answers[k]) = attempts /\ \A i \in 1 .. attempts : answers[k][i] \in Retryable
      /\ drainTime \in Nat /\ deadline \in Nat /\ drainTime <= deadline
  BY <1>1, <1>2, Budgets DEF InProgress, DeliveryTypeOK, InTime
<1>4. drainTime' \in drainTime .. deadline
  <2>1. Pause[attempts] \in Nat
    BY <1>3, PauseIsNumber
  <2> QED
    BY <1>2, <1>3, <2>1 DEF Least
<1>5. drainTime' \in 0 .. Horizon /\ DrainWithinBudget' /\ InTime'
  BY <1>1, <1>2, <1>4, TimePasses
<1>6. OnlyTransientIsRetried'
  BY <1>1, <1>2 DEF OnlyTransientIsRetried
<1>7. CASE drainStep' = "attempt" /\ index' = index /\ fate' = fate
  <2>1. DeliveryTypeOK'
    BY <1>1, <1>2, <1>5, <1>7 DEF DeliveryTypeOK
  <2>2. OneAfterAnother' /\ FateMatchesAnswer'
    BY <1>1, <1>2, <1>7 DEF OneAfterAnother, FateMatchesAnswer, Busy
  <2>3. InProgress'
    BY <1>1, <1>2, <1>7 DEF InProgress, Busy
  <2> QED
    BY <1>5, <1>6, <2>1, <2>2, <2>3 DEF DeliveryIInv, RetriesAreSafe
<1>8. CASE Finish(Last(answers[index + 1]))
  <2>1. Last(answers[k]) \in Retryable
    BY <1>3 DEF Last
  <2>2. answers[k] # <<>>
    BY <1>3
  <2>3. drainStep' = "next" /\ index' = k /\ fate' = [fate EXCEPT ![k] = "pending"]
    BY <1>8, <2>1 DEF Finish, Fate
  <2>4. fate[k] = "pending" /\ fate \in [1 .. Events -> {"pending", "removed", "dead_letter"}]
    BY <1>1, <1>3 DEF OneAfterAnother, DeliveryTypeOK
  <2>5. fate' = fate
    BY <1>3, <2>3, <2>4
  <2>6. DeliveryTypeOK'
    BY <1>1, <1>2, <1>3, <1>5, <2>3, <2>5 DEF DeliveryTypeOK
  <2>7. OneAfterAnother'
    <3> SUFFICES ASSUME NEW e \in 1 .. Events
                 PROVE  /\ e <= k => answers[e] # <<>>
                        /\ e > k => fate[e] = "pending" /\ answers[e] = <<>>
      BY <1>2, <1>3, <2>3, <2>5 DEF OneAfterAnother
    <3>1. e < k => e <= index
      BY <1>3
    <3>2. e > k => e > index /\ e > index + 1
      BY <1>3
    <3>3. e < k \/ e = k \/ e > k
      BY <1>3
    <3> HIDE DEF k
    <3> QED
      BY <1>1, <1>3, <2>2, <3>1, <3>2, <3>3 DEF OneAfterAnother
  <2>8. FateMatchesAnswer' /\ InProgress'
    BY <1>1, <1>2, <2>3, <2>5 DEF FateMatchesAnswer, InProgress, Busy
  <2> QED
    BY <1>5, <1>6, <2>6, <2>7, <2>8 DEF DeliveryIInv, RetriesAreSafe
<1> QED
  BY <1>2, <1>7, <1>8

\* For any number of events and retries and any two budgets: events are tried one
\* after another, and each is settled by what its last attempt met.
THEOREM DeliveryInvariance == DeliverySpec => []DeliveryIInv
<1>1. DeliveryIInv /\ [DeliveryNext]_deliveryVars => DeliveryIInv'
  <2> SUFFICES ASSUME DeliveryIInv, [DeliveryNext]_deliveryVars PROVE DeliveryIInv'
    OBVIOUS
  <2>1. CASE UNCHANGED deliveryVars
    BY <2>1 DEF deliveryVars, DeliveryIInv, RetriesAreSafe, DeliveryTypeOK,
       OnlyTransientIsRetried, FateMatchesAnswer, DrainWithinBudget, OneAfterAnother,
       InProgress, InTime, Busy
  <2> QED
    BY <2>1, LoopStep, AttemptStep, BackoffStep DEF DeliveryNext, Step, Done
<1> QED
  BY <1>1, DeliveryStarts, PTL DEF DeliverySpec

\* deliver_event repeats only what 429, 5xx and network errors left open, at most
\* MAX_RETRIES times; a file goes only after a 2xx or a definite failure; and the
\* drain of emit and flush ends within max_drain_seconds, that of the heartbeat
\* service less than one delivery after it.
THEOREM RetriesAreAlwaysSafe == DeliverySpec => []RetriesAreSafe
<1>1. DeliveryIInv => RetriesAreSafe
  BY DEF DeliveryIInv
<1> QED
  BY <1>1, DeliveryInvariance, PTL

-----------------------------------------------------------------------------
(* Transport: who closes a socket, and what the race of the two threads costs *)

\* The calls are numbers; a connect is a call.
LEMMA CallsAreNumbers ==
    /\ 0 \in Calls
    /\ \A k \in Calls : k \in Nat /\ k <= Candidates
    /\ \A k \in Connects : k \in Calls /\ k # 0
    /\ \A k \in Calls : k # 0 => k \in Connects
    /\ \A n \in Calls, k \in Calls : k < n => k + 1 \in Connects
  BY TransportAssumption DEF Calls, Connects, TransportAssumption

\* The thread that runs is the one of the present call.
LEMMA RunningIsCall ==
    ASSUME TransportTypeOK, CallInv, NEW k \in Calls, Running(k)
    PROVE  k = call
<1>1. k \in Nat /\ call \in Nat
  BY CallsAreNumbers DEF TransportTypeOK
<1>2. ~(k < call) /\ ~(k > call)
  BY DEF CallInv, Running
<1> QED
  BY <1>1, <1>2

-----------------------------------------------------------------------------
(* The type invariant. *)

\* Nothing has begun.
LEMMA TransportInitType == TransportInit => TransportTypeOK
  BY TransportAssumption DEF TransportInit, TransportTypeOK, Calls, Phases, TransportAssumption

\* Closing a socket counts upwards.
LEMMA CloseType ==
    ASSUME TransportTypeOK, NEW k \in Connects, Close(k)
    PROVE  open' \subseteq Connects /\ closed' \in [Connects -> Nat]
  BY DEF TransportTypeOK, Close

\* The next address is one of those that were found.
LEMMA TryNextType ==
    ASSUME TransportTypeOK, NEW n \in Calls, TryNext(n)
    PROVE  /\ pc' \in {"start", "over"} /\ call' \in Calls /\ phase' \in Phases
           /\ amount' \in Nat
           /\ result' \in {"none", "status", "failed", "timeout", "broken"}
  BY CallsAreNumbers DEF TransportTypeOK, TryNext

\* An error of a call keeps the types.
LEMMA PropagateType ==
    ASSUME TransportTypeOK, NEW how \in {"failed", "timeout"}, Propagate(how)
    PROVE  /\ pc' \in {"start", "over"} /\ call' \in Calls /\ found' \in Calls
           /\ phase' \in Phases /\ amount' \in Nat
           /\ result' \in {"none", "status", "failed", "timeout", "broken"}
<1>1. CASE call \in Connects /\ how = "failed"
  <2>1. TryNext(found) /\ found' = found /\ found \in Calls
    BY <1>1 DEF Propagate, TransportTypeOK
  <2> QED
    BY <2>1, TryNextType
<1>2. CASE ~(call \in Connects /\ how = "failed")
  BY <1>2 DEF Propagate, Raise, TransportTypeOK
<1> QED
  BY <1>1, <1>2

\* The steps of a thread keep the types.
LEMMA WorkerType ==
    ASSUME TransportTypeOK, AbandonInv, NEW k \in Calls, Worker(k)
    PROVE  TransportTypeOK'
<1>1. CASE Begin(k)
  BY <1>1 DEF TransportTypeOK, Begin, callerVars, socketVars
<1>4. CASE Look(k) \/ Store(k)
  BY <1>4 DEF TransportTypeOK, Look, Store, callerVars, sharedVars, socketVars
<1>5. CASE Complete(k)
  BY <1>5 DEF TransportTypeOK, Complete, callerVars, socketVars
<1>2. CASE Operate(k)
  BY <1>2 DEF TransportTypeOK, Operate, callerVars
<1>3. CASE CloseLate(k)
  <2>1. k \in Connects /\ Close(k)
    BY <1>3 DEF CloseLate, AbandonInv
  <2> QED
    BY <1>3, <2>1, CloseType DEF TransportTypeOK, CloseLate, callerVars, sharedVars
<1> QED
  BY <1>1, <1>2, <1>3, <1>4, <1>5 DEF Worker

\* The steps of the caller in a call keep the types.
LEMMA CallType ==
    ASSUME TransportTypeOK, \/ BeginAttempt \/ Start \/ EnterWait \/ Completed \/ TimesOut \/ Abandon \/ Check
                   \/ TakeError \/ TakeAddresses \/ TakeSocket
    PROVE  TransportTypeOK'
<1>1. CASE BeginAttempt \/ Start \/ Completed \/ TimesOut \/ Abandon
  BY <1>1 DEF TransportTypeOK, BeginAttempt, Start, Completed, TimesOut, Abandon, sharedVars, socketVars
<1>2. CASE EnterWait
  <2>1. CASE Late
    <3>1. Propagate("timeout") /\ raced' = raced \cup ({call} \cap Connects)
      BY <1>2, <2>1 DEF EnterWait
    <3> QED
      BY <1>2, <3>1, PropagateType DEF TransportTypeOK, EnterWait, sharedVars, socketVars
  <2>2. CASE ~Late
    BY <1>2, <2>2 DEF TransportTypeOK, EnterWait, sharedVars, socketVars
  <2> QED
    BY <2>1, <2>2
<1>3. CASE Check
  <2>1. Propagate("timeout")
    BY <1>3 DEF Check
  <2>2. open' \subseteq Connects /\ closed' \in [Connects -> Nat]
    BY <1>3, CloseType DEF Check, TransportTypeOK, socketVars
  <2>3. raced' \subseteq Connects
    BY <1>3 DEF Check, TransportTypeOK, Unseen
  <2> QED
    BY <1>3, <2>1, <2>2, <2>3, PropagateType DEF TransportTypeOK, Check, sharedVars
<1>4. CASE TakeError
  BY <1>4, PropagateType DEF TransportTypeOK, TakeError, sharedVars, socketVars
<1>5. CASE TakeAddresses
  BY <1>5, TryNextType DEF TransportTypeOK, TakeAddresses, sharedVars, socketVars
<1>6. CASE TakeSocket
  BY <1>6 DEF TransportTypeOK, TakeSocket, Phases, sharedVars, socketVars
<1> QED
  BY <1>1, <1>2, <1>3, <1>4, <1>5, <1>6

\* The request is sent piece by piece, then the answer is read.
LEMMA ProgressMoves ==
    ASSUME TransportTypeOK, Progress
    PROVE  pc' \in {"send", "read"} /\ phase' \in Phases /\ amount' \in Nat
<1>1. phase \in Phases /\ amount \in Nat /\ Parts \in Nat
  BY TransportAssumption DEF TransportTypeOK, TransportAssumption
<1>2. CASE phase = "handshake"
  BY <1>2 DEF Progress, Phases
<1>3. CASE phase = "send" /\ amount + 1 < Parts
  <2>1. ~(amount + 1 >= Parts)
    BY <1>1, <1>3
  <2> QED
    BY <1>1, <1>3, <2>1 DEF Progress, Phases
<1>4. CASE phase = "send" /\ ~(amount + 1 < Parts)
  <2>1. amount + 1 >= Parts
    BY <1>1, <1>4
  <2> QED
    BY <1>4, <2>1 DEF Progress, Phases
<1>5. CASE phase = "read"
  BY <1>1, <1>5 DEF Progress, Phases
<1> QED
  BY <1>1, <1>2, <1>3, <1>4, <1>5 DEF Phases

\* The steps of the caller on its socket keep the types.
LEMMA SocketType ==
    ASSUME TransportTypeOK, CallInv,
           \/ Block \/ Progress \/ Retry \/ Answered \/ SelectTimesOut \/ Fail
    PROVE  TransportTypeOK'
<1>1. CASE Block \/ Retry
  BY <1>1 DEF TransportTypeOK, Block, Retry, Phases, sharedVars, socketVars
<1>2. CASE Progress
  <2>1. pc' \in {"send", "read"} /\ phase' \in Phases /\ amount' \in Nat
    BY <1>2, ProgressMoves
  <2> QED
    BY <1>2, <2>1 DEF TransportTypeOK, Progress, Phases, sharedVars, socketVars
<1>3. CASE Answered \/ SelectTimesOut \/ Fail
  <2>1. call \in Connects
    BY <1>3 DEF CallInv, OnSocket, Answered, SelectTimesOut, Fail, Phases
  <2>2. Close(call)
    BY <1>3 DEF Answered, SelectTimesOut, Fail
  <2> QED
    BY <1>3, <2>1, <2>2, CloseType
    DEF TransportTypeOK, Answered, SelectTimesOut, Fail, Raise, sharedVars
<1> QED
  BY <1>1, <1>2, <1>3

-----------------------------------------------------------------------------
(* The inductive invariant. *)

\* Nothing is open, and the first call is the one to resolve the host.
LEMMA TransportStarts == TransportInit => TransportIInv
<1> SUFFICES ASSUME TransportInit PROVE TransportIInv
  OBVIOUS
<1>1. CallInv
  BY CallsAreNumbers DEF TransportInit, CallInv, OnSocket, Phases
<1>2. AbandonInv
  BY DEF TransportInit, AbandonInv
<1>3. SocketInv
  BY CallsAreNumbers DEF TransportInit, SocketInv, SocketStands
<1>4. OverInv
  BY DEF TransportInit, OverInv
<1>5. OneSocketLost
  BY DEF TransportInit, OneSocketLost
<1> QED
  BY <1>1, <1>2, <1>3, <1>4, <1>5, TransportInitType DEF TransportIInv

\* What a step must preserve beside the types.
TransportKept == CallInv /\ AbandonInv /\ SocketInv /\ OverInv

\* A thread moves on, and never touches a socket the caller has.
LEMMA WorkerKept ==
    ASSUME TransportIInv, NEW k \in Calls, Worker(k)
    PROVE  TransportKept'
<1> USE DEF TransportIInv, TransportTypeOK
<1>1. k = call /\ thread[k] \notin {"none", "gone"}
  BY RunningIsCall
  DEF Running, Worker, Begin, Operate, Look, Store, CloseLate, Complete
<1>2. UNCHANGED <<pc, call, abandoned, raced>>
  BY DEF Worker, Begin, Operate, Look, Store, CloseLate, Complete, callerVars, sharedVars
<1>3. pc \notin {"idle", "start", "taking"} /\ ~OnSocket
  BY <1>1 DEF CallInv
<1>4. /\ \A j \in Calls \ {k} : /\ thread'[j] = thread[j] /\ completed'[j] = completed[j]
                                /\ outcome'[j] = outcome[j]
      /\ \A j \in Connects \ {k} : /\ closed'[j] = closed[j]
                                   /\ j \in open' <=> j \in open
      /\ thread'[k] # "none"
      /\ completed'[k] <=> thread'[k] = "gone"
  BY <1>1
  DEF Worker, Begin, Operate, Look, Store, CloseLate, Complete, Close, callerVars,
      sharedVars, socketVars, CallInv
<1>5. CallInv'
  BY <1>1, <1>2, <1>3, <1>4, CallsAreNumbers DEF CallInv, OnSocket
<1>6. AbandonInv'
  BY <1>1, <1>2, <1>4
  DEF AbandonInv, Worker, Begin, Operate, Look, Store, CloseLate, Complete
<1>7. SocketInv'
  <2>1. ASSUME NEW j \in Connects, j # k PROVE SocketStands(j)'
    <3>1. SocketStands(j) /\ j \in Calls /\ j # call
      BY <1>1, <2>1, CallsAreNumbers DEF SocketInv
    <3> QED
      BY <1>2, <1>4, <2>1, <3>1 DEF SocketStands
  <2>2. ASSUME k \in Connects PROVE SocketStands(k)'
    <3>1. SocketStands(k)
      BY <2>2 DEF SocketInv
    <3>2. CASE Begin(k)
      BY <2>2, <3>1, <3>2 DEF SocketStands, Begin, socketVars
    <3>3. CASE Operate(k)
      BY <2>2, <3>1, <3>3 DEF SocketStands, Operate
    <3>4. CASE Look(k) \/ Store(k)
      BY <2>2, <3>1, <3>4 DEF SocketStands, Look, Store, sharedVars, socketVars
    <3>5. CASE CloseLate(k)
      BY <2>2, <3>1, <3>5 DEF SocketStands, CloseLate, Close, sharedVars
    <3>6. CASE Complete(k)
      BY <1>1, <1>2, <1>3, <2>2, <3>1, <3>6 DEF SocketStands, Complete, socketVars
    <3> QED
      BY <3>2, <3>3, <3>4, <3>5, <3>6 DEF Worker
  <2> QED
    BY <2>1, <2>2 DEF SocketInv
<1>8. OverInv'
  <2> SUFFICES ASSUME pc = "over", k \in Connects, k \notin raced
               PROVE  \/ abandoned[k] /\ thread'[k] \in {"begun", "operating", "returned", "closing"}
                      \/ thread'[k] \in {"completing", "gone"} /\ k \notin open'
    BY <1>1, <1>2 DEF OverInv
  <2>1. \/ abandoned[k] /\ thread[k] \in {"begun", "operating", "returned", "closing"}
        \/ thread[k] = "completing" /\ k \notin open
    BY <1>1 DEF OverInv
  <2>2. thread[k] \in {"begun", "operating"} => k \notin open
    BY DEF SocketInv, SocketStands
  <2>3. CASE Begin(k)
    BY <2>1, <2>2, <2>3 DEF Begin, socketVars
  <2>4. CASE Operate(k)
    BY <2>1, <2>2, <2>4 DEF Operate
  <2>5. CASE Look(k) \/ Store(k)
    BY <2>1, <2>5 DEF Look, Store
  <2>6. CASE CloseLate(k)
    BY <2>6 DEF CloseLate, Close
  <2>7. CASE Complete(k)
    BY <2>1, <2>7 DEF Complete, socketVars
  <2> QED
    BY <2>3, <2>4, <2>5, <2>6, <2>7 DEF Worker
<1> QED
  BY <1>5, <1>6, <1>7, <1>8 DEF TransportKept

\* While the caller starts a thread, waits or gives up, no socket changes hands.
LEMMA WaitKept ==
    ASSUME TransportIInv, Start \/ Completed \/ TimesOut \/ Abandon \/ (EnterWait /\ ~Late)
    PROVE  TransportKept'
<1> USE DEF TransportIInv, TransportTypeOK
<1>1. UNCHANGED <<call, outcome, completed, open, closed, raced>>
  BY DEF Start, Completed, TimesOut, Abandon, EnterWait, sharedVars, socketVars
<1>2. CASE Start
  <2>1. /\ pc = "start" /\ pc' = "started" /\ thread[call] = "none"
        /\ thread' = [thread EXCEPT ![call] = "begun"] /\ abandoned' = abandoned
    BY <1>2 DEF Start, CallInv, sharedVars
  <2>2. CallInv'
    BY <1>1, <2>1, CallsAreNumbers DEF CallInv, OnSocket, Phases
  <2>3. AbandonInv'
    BY <1>1, <2>1 DEF AbandonInv
  <2>4. SocketInv'
    BY <1>1, <2>1, CallsAreNumbers DEF SocketInv, SocketStands
  <2>5. OverInv'
    BY <2>1 DEF OverInv
  <2> QED
    BY <2>2, <2>3, <2>4, <2>5 DEF TransportKept
<1>3. CASE Completed \/ TimesOut \/ Abandon \/ (EnterWait /\ ~Late)
  <2>1. /\ thread' = thread
        /\ pc \in {"started", "waiting", "abandoning"}
        /\ pc' \in {"waiting", "taking", "abandoning", "checking"}
        /\ pc' = "taking" => completed[call]
        /\ abandoned' = IF pc' = "checking" THEN [abandoned EXCEPT ![call] = TRUE]
                                            ELSE abandoned
    BY <1>3 DEF Completed, TimesOut, Abandon, EnterWait, sharedVars
  <2>2. CallInv'
    BY <1>1, <2>1, CallsAreNumbers DEF CallInv, OnSocket, Phases
  <2>3. AbandonInv'
    BY <1>1, <2>1 DEF AbandonInv
  <2>4. SocketInv'
    BY <1>1, <2>1 DEF SocketInv, SocketStands
  <2>5. OverInv'
    BY <2>1 DEF OverInv
  <2> QED
    BY <2>2, <2>3, <2>4, <2>5 DEF TransportKept
<1> QED
  BY <1>2, <1>3

\* The next call begins when the thread of this one is gone, and a connect that
\* failed has left no socket.
LEMMA NextCallKept ==
    ASSUME TransportIInv, NEW n \in Calls, TryNext(n), thread[call] = "gone", pc = "taking",
           UNCHANGED <<thread, outcome, completed, abandoned, open, closed, raced>>,
           call \in Connects => outcome[call] = "failed"
    PROVE  TransportKept'
<1> USE DEF TransportIInv, TransportTypeOK
<1>1. CASE call < n
  <2>1. pc' = "start" /\ call' = call + 1 /\ call' \in Connects /\ call \in Nat
    BY <1>1, CallsAreNumbers DEF TryNext
  <2>2. \A k \in Calls : /\ k < call' => k < call \/ k = call
                         /\ k > call' => k > call
                         /\ k = call' => k > call
    BY <2>1, CallsAreNumbers
  <2>3. CallInv'
    BY <2>1, <2>2, CallsAreNumbers DEF CallInv, OnSocket, Phases
  <2>4. \A k \in Calls : ~abandoned[k]
    BY DEF AbandonInv
  <2>5. AbandonInv'
    BY <2>1, <2>4 DEF AbandonInv
  <2>6. SocketInv'
    <3> SUFFICES ASSUME NEW k \in Connects PROVE SocketStands(k)'
      BY DEF SocketInv
    <3>1. SocketStands(k) /\ k \in Calls
      BY CallsAreNumbers DEF SocketInv
    <3>2. k <= call => outcome[k] = "failed"
      BY <2>1, CallsAreNumbers DEF CallInv
    <3>3. k > call => outcome[k] = "none"
      BY <3>1 DEF CallInv, SocketStands
    <3>4. outcome[k] # "value"
      BY <2>1, <3>2, <3>3, CallsAreNumbers
    <3> QED
      BY <3>1, <3>4 DEF SocketStands
  <2>7. OverInv'
    BY <2>1 DEF OverInv
  <2> QED
    BY <2>3, <2>5, <2>6, <2>7 DEF TransportKept
<1>2. CASE ~(call < n)
  <2>1. pc' = "over" /\ call' = call
    BY <1>2 DEF TryNext
  <2>2. CallInv' /\ AbandonInv' /\ SocketInv'
    BY <2>1 DEF CallInv, OnSocket, Phases, AbandonInv, SocketInv, SocketStands
  <2>3. OverInv'
    BY <2>1 DEF OverInv, SocketInv, SocketStands
  <2> QED
    BY <2>2, <2>3 DEF TransportKept
<1> QED
  BY <1>1, <1>2

\* A caller that gives up leaves the socket to the thread that will see it, or
\* is one of those that could not know.
LEMMA GiveUpKept ==
    ASSUME TransportIInv, (EnterWait /\ Late) \/ Check
    PROVE  TransportKept'
<1> USE DEF TransportIInv, TransportTypeOK
<1>1. /\ UNCHANGED <<call, thread, outcome, completed, abandoned>>
      /\ pc \in {"started", "checking"} /\ pc' = "over"
  BY DEF EnterWait, Check, Propagate, Raise, sharedVars
<1>2. CallInv' /\ AbandonInv'
  BY <1>1 DEF CallInv, OnSocket, Phases, AbandonInv
<1>3. CASE EnterWait /\ Late
  <2>1. UNCHANGED <<open, closed>> /\ (call \in Connects => call \in raced')
    BY <1>3 DEF EnterWait, socketVars
  <2>2. SocketInv'
    BY <1>1, <2>1 DEF SocketInv, SocketStands
  <2> QED
    BY <1>1, <1>2, <2>1, <2>2 DEF TransportKept, OverInv
<1>4. CASE Check
  <2>1. CASE completed[call] /\ outcome[call] = "value" /\ call \in Connects
    <3>1. Close(call) /\ thread[call] = "gone" /\ call \in open
      BY <1>1, <1>4, <2>1 DEF Check, CallInv, SocketInv, SocketStands
    <3>2. SocketInv'
      BY <1>1, <2>1, <3>1 DEF SocketInv, SocketStands, Close
    <3>3. OverInv'
      BY <1>1, <3>1 DEF OverInv, Close
    <3> QED
      BY <1>2, <3>2, <3>3 DEF TransportKept
  <2>2. CASE ~(completed[call] /\ outcome[call] = "value" /\ call \in Connects)
    <3>1. UNCHANGED <<open, closed>>
      BY <1>4, <2>2 DEF Check, socketVars
    <3>2. SocketInv'
      BY <1>1, <3>1 DEF SocketInv, SocketStands
    <3>3. OverInv'
      <4> SUFFICES ASSUME call \in Connects, call \notin raced'
                   PROVE  \/ abandoned[call]
                             /\ thread[call] \in {"begun", "operating", "returned", "closing"}
                          \/ thread[call] \in {"completing", "gone"} /\ call \notin open
        BY <1>1, <3>1 DEF OverInv
      <4>1. ~Unseen(call) /\ pc = "checking" /\ abandoned[call]
        BY <1>4 DEF Check, AbandonInv
      <4>2. thread[call] = "gone" => call \notin open
        BY <2>2 DEF CallInv, SocketInv, SocketStands
      <4>3. /\ thread[call] # "storing"
            /\ thread[call] = "completing" => outcome[call] # "value"
        BY <4>1 DEF Unseen, CallInv
      <4>4. thread[call] = "completing" => call \notin open
        BY <4>3 DEF SocketInv, SocketStands
      <4>5. thread[call] # "none"
        BY <4>1 DEF CallInv
      <4> QED
        BY <4>1, <4>2, <4>3, <4>4, <4>5
    <3> QED
      BY <1>2, <3>2, <3>3 DEF TransportKept
  <2> QED
    BY <2>1, <2>2
<1> QED
  BY <1>3, <1>4

\* What a call hands over is taken when its thread is gone.
LEMMA TakeKept ==
    ASSUME TransportIInv, TakeError \/ TakeAddresses \/ TakeSocket
    PROVE  TransportKept'
<1> USE DEF TransportIInv, TransportTypeOK
<1>1. /\ UNCHANGED <<thread, outcome, completed, abandoned, open, closed, raced>>
      /\ pc = "taking" /\ thread[call] = "gone"
  BY DEF TakeError, TakeAddresses, TakeSocket, sharedVars, socketVars, CallInv
<1>2. CASE TakeAddresses
  <2>1. PICK n \in Calls : TryNext(n) /\ call = 0
    BY <1>2 DEF TakeAddresses
  <2> QED
    BY <1>1, <2>1, NextCallKept, CallsAreNumbers
<1>3. CASE TakeError
  <2>1. CASE call \in Connects /\ outcome[call] = "failed"
    BY <1>1, <1>3, <2>1, NextCallKept DEF TakeError, Propagate
  <2>2. CASE ~(call \in Connects /\ outcome[call] = "failed")
    <3>1. pc' = "over" /\ call' = call /\ outcome[call] \in {"failed", "timeout"}
      BY <1>3, <2>2 DEF TakeError, Propagate, Raise
    <3>2. CallInv' /\ AbandonInv' /\ SocketInv'
      BY <1>1, <3>1
      DEF CallInv, OnSocket, Phases, AbandonInv, SocketInv, SocketStands
    <3>3. OverInv'
      BY <1>1, <3>1 DEF OverInv, SocketInv, SocketStands
    <3> QED
      BY <3>2, <3>3 DEF TransportKept
  <2> QED
    BY <2>1, <2>2
<1>4. CASE TakeSocket
  <2>1. /\ pc' \in {"handshake", "send"} /\ call' = call
        /\ outcome[call] = "value" /\ call \in Connects
    BY <1>4 DEF TakeSocket
  <2>2. CallInv' /\ AbandonInv' /\ SocketInv'
    BY <1>1, <2>1 DEF CallInv, OnSocket, Phases, AbandonInv, SocketInv, SocketStands
  <2>3. OverInv'
    BY <2>1 DEF OverInv
  <2> QED
    BY <2>2, <2>3 DEF TransportKept
<1> QED
  BY <1>2, <1>3, <1>4

\* The caller works on its socket and closes it in the end.
LEMMA SocketKept ==
    ASSUME TransportIInv, \/ Block \/ Progress \/ Retry \/ Answered \/ SelectTimesOut \/ Fail
    PROVE  TransportKept'
<1> USE DEF TransportIInv, TransportTypeOK
<1>1. /\ UNCHANGED <<call, thread, outcome, completed, abandoned, raced>>
      /\ OnSocket
  BY DEF Block, Progress, Retry, Answered, SelectTimesOut, Fail, Raise, sharedVars,
         OnSocket, Phases
<1>2. thread[call] = "gone" /\ call \in Connects /\ outcome[call] = "value" /\ call \in open
  BY <1>1 DEF CallInv, OnSocket, Phases, SocketInv, SocketStands
<1>3. CASE Block \/ Progress \/ Retry
  <2>1. UNCHANGED <<open, closed>>
    BY <1>3 DEF Block, Progress, Retry, socketVars
  <2>2. pc' \in Phases \cup {"select"}
    BY <1>3, ProgressMoves DEF Block, Retry, Phases
  <2>3. CallInv' /\ AbandonInv' /\ SocketInv'
    BY <1>1, <1>2, <2>1, <2>2
    DEF CallInv, OnSocket, Phases, AbandonInv, SocketInv, SocketStands
  <2>4. OverInv'
    BY <2>2 DEF OverInv, Phases
  <2> QED
    BY <2>3, <2>4 DEF TransportKept
<1>4. CASE Answered \/ SelectTimesOut \/ Fail
  <2>1. Close(call) /\ pc' = "over"
    BY <1>4 DEF Answered, SelectTimesOut, Fail, Raise
  <2>2. CallInv' /\ AbandonInv'
    BY <1>1, <1>2, <2>1 DEF CallInv, OnSocket, Phases, AbandonInv
  <2>3. SocketInv'
    BY <1>1, <1>2, <2>1 DEF SocketInv, SocketStands, Close
  <2>4. OverInv'
    BY <1>1, <1>2, <2>1 DEF OverInv, Close
  <2> QED
    BY <2>2, <2>3, <2>4 DEF TransportKept
<1> QED
  BY <1>3, <1>4

\* The attempt begins with its first call.
LEMMA BeginKept ==
    ASSUME TransportIInv, BeginAttempt
    PROVE  TransportKept'
<1> USE DEF TransportIInv
<1>1. /\ UNCHANGED <<call, thread, outcome, completed, abandoned, open, closed, raced>>
      /\ pc = "idle" /\ pc' = "start"
  BY DEF BeginAttempt, sharedVars, socketVars
<1>2. CallInv' /\ AbandonInv'
  BY <1>1 DEF CallInv, OnSocket, Phases, AbandonInv
<1>3. SocketInv' /\ OverInv'
  BY <1>1 DEF SocketInv, SocketStands, OverInv
<1> QED
  BY <1>2, <1>3 DEF TransportKept

\* The clock moves nothing.
LEMMA ClockKept ==
    ASSUME TransportIInv, Tick \/ UNCHANGED transportVars
    PROVE  TransportTypeOK' /\ TransportKept'
<1> USE DEF TransportIInv
<1>1. /\ UNCHANGED <<callerVars, thread, sharedVars, socketVars, raced>>
      /\ now' \in 0 .. MaxTime
  BY TransportAssumption DEF Tick, transportVars, TransportTypeOK, TransportAssumption
<1>2. TransportTypeOK'
  BY <1>1 DEF TransportTypeOK, callerVars, sharedVars, socketVars
<1>3. CallInv' /\ AbandonInv' /\ SocketInv' /\ OverInv'
  BY <1>1 DEF CallInv, OnSocket, AbandonInv, SocketInv, SocketStands, OverInv,
              callerVars, sharedVars, socketVars
<1> QED
  BY <1>2, <1>3 DEF TransportKept

\* The race ends the attempt, so there is no second one.
LEMMA LostKept ==
    ASSUME TransportIInv, TransportNext \/ UNCHANGED transportVars
    PROVE  OneSocketLost'
<1> USE DEF TransportIInv
<1>1. CASE EnterWait \/ Check
  <2>1. pc # "over" /\ raced = {}
    BY <1>1 DEF EnterWait, Check, OneSocketLost
  <2>2. raced' \subseteq {call}
    BY <1>1, <2>1 DEF EnterWait, Check
  <2>3. raced' # {} => Raise("timeout")
    BY <1>1, <2>1 DEF EnterWait, Check, Propagate
  <2> QED
    BY <2>2, <2>3 DEF Raise, OneSocketLost
<1>2. CASE /\ pc # "over" /\ UNCHANGED raced
  BY <1>2 DEF OneSocketLost
<1>3. CASE (\E k \in Calls : Worker(k)) \/ Tick \/ Over \/ UNCHANGED transportVars
  <2>1. UNCHANGED <<pc, call, result, raced>>
    BY <1>3 DEF Worker, Begin, Operate, Look, Store, CloseLate, Complete, Tick, Over,
                transportVars, callerVars
  <2> QED
    BY <2>1 DEF OneSocketLost
<1>4. CASE BeginAttempt \/ Start \/ Completed \/ TimesOut \/ Abandon
           \/ TakeError \/ TakeAddresses \/ TakeSocket
  BY <1>2, <1>4
  DEF BeginAttempt, Start, Completed, TimesOut, Abandon, TakeError, TakeAddresses, TakeSocket
<1>5. CASE Block \/ Progress \/ Retry \/ Answered \/ SelectTimesOut \/ Fail
  BY <1>2, <1>5 DEF Block, Progress, Retry, Answered, SelectTimesOut, Fail, Phases
<1> QED
  BY <1>1, <1>3, <1>4, <1>5 DEF TransportNext, Caller

\* The inductive invariant holds in every reachable state.
THEOREM TransportInduction == TransportSpec => []TransportIInv
<1>1. TransportIInv /\ [TransportNext]_transportVars => TransportIInv'
  <2> SUFFICES ASSUME TransportIInv, [TransportNext]_transportVars PROVE TransportIInv'
    OBVIOUS
  <2>5. OneSocketLost'
    BY LostKept
  <2>1. CASE \E k \in Calls : Worker(k)
    BY <2>1, <2>5, WorkerType, WorkerKept DEF TransportIInv, TransportKept
  <2>4. CASE BeginAttempt
    BY <2>4, <2>5, CallType, BeginKept DEF TransportIInv, TransportKept
  <2>2. CASE Caller
    <3>1. TransportTypeOK'
      BY <2>2, CallType, SocketType DEF TransportIInv, Caller
    <3>2. TransportKept'
      BY <2>2, WaitKept, GiveUpKept, TakeKept, SocketKept DEF Caller
    <3> QED
      BY <2>5, <3>1, <3>2 DEF TransportIInv, TransportKept
  <2>3. CASE Tick \/ UNCHANGED transportVars
    BY <2>3, <2>5, ClockKept DEF TransportIInv, TransportKept
  <2> QED
    BY <2>1, <2>2, <2>3, <2>4 DEF TransportNext, Over
<1> QED
  BY <1>1, TransportStarts, PTL DEF TransportSpec

\* Every variable keeps its type.
THEOREM TransportTyped == TransportSpec => []TransportTypeOK
<1>1. TransportIInv => TransportTypeOK
  BY DEF TransportIInv
<1> QED
  BY <1>1, TransportInduction, PTL

\* A socket is closed once at most, not while the caller is at work on it, and an
\* open one has somebody who closes it or may take it, but for the race.
THEOREM SocketsAreOwned == TransportSpec => []SocketOwned
<1>1. TransportIInv => SocketOwned
  <2> SUFFICES ASSUME TransportIInv PROVE SocketOwned
    OBVIOUS
  <2> USE DEF TransportIInv, TransportTypeOK
  <2>1. \A k \in Connects : closed[k] <= 1 /\ (closed[k] = 1 => k \notin open)
    BY CallsAreNumbers DEF SocketInv, SocketStands
  <2>2. OnSocket => call \in open /\ ~Running(call) /\ ~abandoned[call]
    BY DEF CallInv, AbandonInv, SocketInv, SocketStands, Running, OnSocket, Phases
  <2>3. ASSUME NEW k \in open
        PROVE  \/ k = call /\ pc # "over"
               \/ abandoned[k] /\ thread[k] \in {"returned", "closing"}
               \/ k \in raced
    <3>1. k \in Connects /\ k \in Calls /\ call \in Calls /\ SocketStands(k)
      BY <2>3, CallsAreNumbers DEF SocketInv
    <3>2. ~(k > call)
      BY <3>1 DEF CallInv, SocketStands
    <3>3. ~(k < call)
      BY <3>1 DEF CallInv, SocketStands
    <3>4. k = call
      BY <3>1, <3>2, <3>3, CallsAreNumbers
    <3>5. thread[k] \notin {"begun", "operating"}
      BY <3>1 DEF SocketStands
    <3> QED
      BY <3>1, <3>4, <3>5 DEF OverInv
  <2> QED
    BY <2>1, <2>2, <2>3 DEF SocketOwned
<1> QED
  BY <1>1, TransportInduction, PTL

\* The race of timeout and connect costs an attempt one socket at most.
THEOREM RaceCostsOne == TransportSpec => []OneSocketLost
<1>1. TransportIInv => OneSocketLost
  BY DEF TransportIInv
<1> QED
  BY <1>1, TransportInduction, PTL

\* However many addresses a host has, one thread at a time is stuck.
THEOREM OneThread == TransportSpec => []OneThreadAtATime
<1>1. TransportIInv => OneThreadAtATime
  <2> SUFFICES ASSUME TransportIInv, NEW j \in Calls, NEW k \in Calls, Running(j), Running(k)
               PROVE  j = k
    BY DEF OneThreadAtATime
  <2>1. j = call /\ k = call
    BY RunningIsCall DEF TransportIInv
  <2> QED
    BY <2>1
<1> QED
  BY <1>1, TransportInduction, PTL

\* All of it together, for any number of addresses and any deadline: one thread and,
\* after the race, one socket are what an attempt may leave behind.
THEOREM LeavesAtMostOne == TransportSpec => []LeavesOneBehind
  BY SocketsAreOwned, RaceCostsOne, OneThread, PTL DEF LeavesOneBehind

-----------------------------------------------------------------------------
(* Server: one store call at a time, and what an answer promises *)

\* The backlog holds each waiting connection once; what was committed and is
\* being answered is stored already; main has a store, and arguments that
\* serve, from where it needs them.
BacklogIsQueued ==
    /\ \A i \in DOMAIN backlog : stage[backlog[i]] = "queued"
    /\ \A i, j \in DOMAIN backlog : backlog[i] = backlog[j] => i = j

AnsweringIsStored ==
    \A c \in Connections : stage[c] = "answering" /\ Asks[c] = "event" => c \in stored

MainIsReady ==
    /\ proc \in {"checked", "open", "serving"} =>
         setup.tls # "half" /\ setup.token # "none"
    /\ proc \in {"open", "serving"} => opened /\ database

ServerIInv == /\ ServerTypeOK /\ BacklogIsQueued /\ OneCallAtATime /\ AnsweredIsStored /\ AnsweringIsStored
        /\ MainIsReady /\ ServesAsConfigured

\* What main leaves behind.
LEMMA ExitIsTyped ==
    ASSUME NEW n, Exit(n)
    PROVE  proc' = "down" /\ code' = n /\ opened' \in BOOLEAN
  BY Zenon DEF Exit

\* The invariant holds before the first launch.
LEMMA ServerStarts == ServerInit => ServerIInv
<1> SUFFICES ASSUME ServerInit PROVE ServerIInv
  OBVIOUS
<1>1. ServerTypeOK
  <2>1. setup \in Setups
    BY DEF ServerInit, Setups
  <2>2. stored \subseteq Connections /\ backlog \in Seq(Connections)
    BY DEF ServerInit
  <2>3. database \in BOOLEAN /\ opened \in BOOLEAN
    BY DEF ServerInit
  <2> QED
    BY <2>1, <2>2, <2>3, ServerAssumption DEF ServerInit, ServerTypeOK
<1>2. OneCallAtATime /\ BacklogIsQueued /\ AnsweredIsStored /\ AnsweringIsStored
  BY ServerAssumption
  DEF ServerInit, OneCallAtATime, BacklogIsQueued, AnsweredIsStored, AnsweringIsStored
<1>3. MainIsReady /\ ServesAsConfigured
  BY DEF ServerInit, MainIsReady, ServesAsConfigured, Serving
<1> QED
  BY <1>1, <1>2, <1>3 DEF ServerIInv

\* A step of main keeps it: what a process leaves behind when it ends, by
\* itself or killed, is what was committed.
LEMMA MainKeeps == ServerIInv /\ Main => ServerIInv'
<1> SUFFICES ASSUME ServerIInv, Main PROVE ServerIInv'
  OBVIOUS
<1> USE ServerAssumption DEF ServerIInv
<1>1. ASSUME NEW s \in Setups, Launch(s) PROVE ServerIInv'
  BY <1>1 DEF Launch, threadVars, ServerTypeOK, OneCallAtATime, BacklogIsQueued, AnsweredIsStored,
              AnsweringIsStored, MainIsReady, ServesAsConfigured, Serving
<1>2. CASE CheckArguments
  <2>1. ServerTypeOK'
    <3>1. CASE Exit(2)
      BY <1>2, <3>1, ExitIsTyped DEF CheckArguments, threadVars, ServerTypeOK
    <3>2. CASE proc' = "checked" /\ UNCHANGED <<code, opened>>
      BY <1>2, <3>2 DEF CheckArguments, threadVars, ServerTypeOK
    <3> QED
      BY <1>2, <3>1, <3>2 DEF CheckArguments
  <2>2. (OneCallAtATime /\ BacklogIsQueued /\ AnsweredIsStored /\ AnsweringIsStored)'
    BY <1>2 DEF CheckArguments, threadVars, OneCallAtATime, BacklogIsQueued, AnsweredIsStored,
                AnsweringIsStored
  <2>3. (MainIsReady /\ ServesAsConfigured)'
    BY <1>2 DEF CheckArguments, Exit, MainIsReady, ServesAsConfigured, Serving
  <2> QED
    BY <2>1, <2>2, <2>3
<1>3. CASE OpenStore
  BY <1>3 DEF OpenStore, threadVars, ServerTypeOK, OneCallAtATime, BacklogIsQueued, AnsweredIsStored,
              AnsweringIsStored, MainIsReady, ServesAsConfigured, Serving
<1>4. CASE CreateServer
  <2>0. setup.token \in {"none", "empty", "given"}
          /\ setup.tls \in {"off", "half", "unreadable", "on"}
          /\ setup.port \in {"free", "taken"}
    BY DEF ServerTypeOK, Setups
  <2>1. CASE proc' = "serving" /\ UNCHANGED <<code, opened>>
               /\ setup.token = "given" /\ setup.tls \in {"off", "on"}
    BY <1>4, <2>1 DEF CreateServer, threadVars, ServerTypeOK, OneCallAtATime,
              BacklogIsQueued, AnsweredIsStored, AnsweringIsStored, MainIsReady, ServesAsConfigured,
              Serving
  <2>2. ASSUME NEW n \in {1, 2}, Exit(n) PROVE ServerIInv'
    <3>1. ServerTypeOK'
      BY <1>4, <2>2, ExitIsTyped DEF CreateServer, threadVars, ServerTypeOK
    <3>2. (OneCallAtATime /\ BacklogIsQueued /\ AnsweredIsStored /\ AnsweringIsStored)'
      BY <1>4 DEF CreateServer, threadVars, OneCallAtATime, BacklogIsQueued, AnsweredIsStored,
                  AnsweringIsStored
    <3>3. (MainIsReady /\ ServesAsConfigured)'
      BY <2>2 DEF Exit, MainIsReady, ServesAsConfigured, Serving
    <3> QED
      BY <3>1, <3>2, <3>3
  <2>3. setup.token # "none" /\ setup.tls # "half"
    BY <1>4 DEF CreateServer, MainIsReady
  <2> QED
    BY <1>4, <2>0, <2>1, <2>2, <2>3 DEF CreateServer
<1>5. CASE Interrupt
  BY <1>5 DEF Interrupt, threadVars, ServerTypeOK, OneCallAtATime, BacklogIsQueued, AnsweredIsStored,
              AnsweringIsStored, MainIsReady, ServesAsConfigured, Serving
<1>6. CASE CloseServer
  BY <1>6 DEF CloseServer, ServerTypeOK, OneCallAtATime, BacklogIsQueued, AnsweredIsStored,
              AnsweringIsStored, MainIsReady, ServesAsConfigured, Serving
<1>7. CASE CloseStore
  BY <1>7 DEF CloseStore, threadVars, ServerTypeOK, OneCallAtATime, BacklogIsQueued, AnsweredIsStored,
              AnsweringIsStored, MainIsReady, ServesAsConfigured, Serving
<1>8. ASSUME NEW n \in 0 .. 2, End(n) PROVE ServerIInv'
  <2>1. ServerTypeOK'
    <3>1. code' \in 0 .. 2 /\ proc' = "down" /\ opened' \in BOOLEAN
      BY <1>8, ExitIsTyped DEF End
    <3> QED
      BY <1>8, <3>1 DEF End, ServerTypeOK
  <2>2. (OneCallAtATime /\ BacklogIsQueued)'
    BY <1>8 DEF End, ServerTypeOK, OneCallAtATime, BacklogIsQueued
  <2>3. (AnsweredIsStored /\ AnsweringIsStored)'
    BY <1>8 DEF End, ServerTypeOK, AnsweredIsStored, AnsweringIsStored
  <2>4. (MainIsReady /\ ServesAsConfigured)'
    BY <1>8 DEF End, Exit, MainIsReady, ServesAsConfigured, Serving
  <2> QED
    BY <2>1, <2>2, <2>3, <2>4
<1> QED
  BY <1>1, <1>2, <1>3, <1>4, <1>5, <1>6, <1>7, <1>8 DEF Main, Return, Kill

\* A step of a connection, or of its thread, keeps it.
LEMMA ThreadKeeps ==
    ASSUME ServerIInv, NEW c \in Connections,
           Connect(c) \/ TryAgain(c) \/ Thread(c)
    PROVE  ServerIInv'
<1> USE ServerAssumption DEF ServerIInv, To, mainVars
<1>1. CASE Connect(c)
  BY <1>1 DEF Connect, ServerTypeOK, OneCallAtATime, BacklogIsQueued, AnsweredIsStored,
              AnsweringIsStored, MainIsReady, ServesAsConfigured, Serving
<1>2. CASE TryAgain(c)
  BY <1>2 DEF TryAgain, ServerTypeOK, OneCallAtATime, BacklogIsQueued, AnsweredIsStored,
              AnsweringIsStored, MainIsReady, ServesAsConfigured, Serving
<1>3. CASE Read(c)
  <2>1. (ServerTypeOK /\ BacklogIsQueued)'
    BY <1>3, SMTT(60) DEF Read, ServerTypeOK, BacklogIsQueued
  <2>2. (OneCallAtATime /\ AnsweredIsStored /\ AnsweringIsStored)'
    BY <1>3, SMTT(60) DEF Read, ServerTypeOK, OneCallAtATime, AnsweredIsStored,
                          AnsweringIsStored
  <2>3. (MainIsReady /\ ServesAsConfigured)'
    BY <1>3 DEF Read, MainIsReady, ServesAsConfigured, Serving
  <2> QED
    BY <2>1, <2>2, <2>3
<1>4. CASE ReadTimesOut(c)
  BY <1>4 DEF ReadTimesOut, ServerTypeOK, OneCallAtATime, BacklogIsQueued, AnsweredIsStored,
              AnsweringIsStored, MainIsReady, ServesAsConfigured, Serving
<1>5. CASE Lock(c)
  BY <1>5 DEF Lock, ServerTypeOK, OneCallAtATime, BacklogIsQueued, AnsweredIsStored,
              AnsweringIsStored, MainIsReady, ServesAsConfigured, Serving
<1>6. CASE Call(c)
  BY <1>6 DEF Call, ServerTypeOK, OneCallAtATime, BacklogIsQueued, AnsweredIsStored,
              AnsweringIsStored, MainIsReady, ServesAsConfigured, Serving
<1>7. CASE CallFails(c)
  BY <1>7 DEF CallFails, ServerTypeOK, OneCallAtATime, BacklogIsQueued, AnsweredIsStored,
              AnsweringIsStored, MainIsReady, ServesAsConfigured, Serving
<1>8. CASE Reply(c)
  BY <1>8 DEF Reply, ServerTypeOK, OneCallAtATime, BacklogIsQueued, AnsweredIsStored,
              AnsweringIsStored, MainIsReady, ServesAsConfigured, Serving
<1> QED
  BY <1>1, <1>2, <1>3, <1>4, <1>5, <1>6, <1>7, <1>8 DEF Thread

\* So does the accept loop.
LEMMA AcceptKeeps == ServerIInv /\ AcceptConnection => ServerIInv'
<1> SUFFICES ASSUME ServerIInv, AcceptConnection PROVE ServerIInv'
  OBVIOUS
<1> USE ServerAssumption DEF ServerIInv, AcceptConnection, To, mainVars
<1>1. backlog # <<>> /\ backlog \in Seq(Connections)
  BY DEF ServerTypeOK
<1>2. Head(backlog) \in Connections /\ Tail(backlog) \in Seq(Connections)
  BY <1>1
<1>3. PICK c \in Connections :
        stage' = [stage EXCEPT ![c] = "reading"] /\ c = Head(backlog)
  BY <1>2
<1>4. ServerTypeOK'
  BY <1>2, <1>3 DEF ServerTypeOK
<1>5. backlog[1] = c /\ stage[c] = "queued"
  BY <1>1, <1>3 DEF BacklogIsQueued
<1>6. (OneCallAtATime /\ AnsweringIsStored)'
  BY <1>3, <1>5 DEF ServerTypeOK, OneCallAtATime, AnsweringIsStored
<1>7. BacklogIsQueued'
  <2>1. \A i \in DOMAIN backlog' :
          i + 1 \in DOMAIN backlog /\ backlog'[i] = backlog[i + 1] /\ i + 1 # 1
    BY <1>1
  <2>2. \A i \in DOMAIN backlog' : backlog'[i] \in Connections /\ backlog'[i] # c
    BY <1>1, <1>2, <1>5, <2>1 DEF BacklogIsQueued
  <2> QED
    BY <1>1, <1>3, <2>1, <2>2 DEF ServerTypeOK, BacklogIsQueued
<1>8. (AnsweredIsStored /\ MainIsReady /\ ServesAsConfigured)'
  BY DEF AnsweredIsStored, MainIsReady, ServesAsConfigured, Serving
<1> QED
  BY <1>4, <1>6, <1>7, <1>8

\* A step that changes nothing of the process keeps its invariant.
LEMMA ServerStutter == ServerIInv /\ UNCHANGED serverVars => ServerIInv'
  BY DEF ServerIInv, serverVars, mainVars, threadVars, ServerTypeOK, OneCallAtATime, BacklogIsQueued, AnsweredIsStored,
         AnsweringIsStored, MainIsReady, ServesAsConfigured, Serving

\* The inductive invariant.
THEOREM ServerInduction == ServerSpec => []ServerIInv
<1>1. ServerIInv /\ [ServerNext]_serverVars => ServerIInv'
  BY MainKeeps, ThreadKeeps, AcceptKeeps, ServerStutter DEF ServerNext
<1> QED
  BY ServerStarts, <1>1, PTL DEF ServerSpec

\* Types are kept, for any number of launches.
THEOREM ServerTyped == ServerSpec => []ServerTypeOK
  BY ServerInduction, PTL DEF ServerIInv

\* "The monitor's HTTP server serializes Store calls with its own lock": no two
\* threads are ever in the store, and none leaves it with the lock.
THEOREM CallsAreSerialized == ServerSpec => []OneCallAtATime
  BY ServerInduction, PTL DEF ServerIInv

\* An event answered 202 is stored, whenever the process is interrupted or
\* killed and although the store is closed while threads are in it.
THEOREM AnsweredIsDurable == ServerSpec => []AnsweredIsStored
  BY ServerInduction, PTL DEF ServerIInv

\* Only a process with its store open, and the TLS and token it was given,
\* accepts connections.
THEOREM ServesAsItWasConfigured == ServerSpec => []ServesAsConfigured
  BY ServerInduction, PTL DEF ServerIInv

\* Missing token and half a TLS pair are found before the database is touched.
THEOREM BeforeTheDatabase == ServerSpec => FailsBeforeTheDatabase
<1>1. MainIsReady /\ [ServerNext]_serverVars =>
        [database' # database => setup.tls # "half" /\ setup.token # "none"]_serverVars
  <2> SUFFICES ASSUME MainIsReady, ServerNext, database' # database
               PROVE  setup.tls # "half" /\ setup.token # "none"
    BY DEF serverVars
  <2>1. CASE Main
    BY <2>1 DEF Main, Launch, CheckArguments, OpenStore, CreateServer, Interrupt,
                CloseServer, CloseStore, Return, Kill, End, MainIsReady
  <2>2. CASE AcceptConnection
    BY <2>2 DEF AcceptConnection, mainVars
  <2>3. ASSUME NEW c \in Connections, Connect(c) \/ TryAgain(c) \/ Thread(c)
        PROVE  FALSE
    BY <2>3 DEF Connect, TryAgain, Thread, Read, ReadTimesOut, Lock, Call, CallFails,
                Reply, mainVars
  <2> QED
    BY <2>1, <2>2, <2>3 DEF ServerNext
<1> QED
  BY ServerInduction, <1>1, PTL DEF ServerSpec, FailsBeforeTheDatabase, ServerIInv

\* All of it together, for any number of connections.
THEOREM StoreIsSafe == ServerSpec => []StoreSafe
  BY CallsAreSerialized, AnsweredIsDurable, ServesAsItWasConfigured, PTL DEF StoreSafe
=============================================================================
