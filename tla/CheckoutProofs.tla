---------------------------- MODULE CheckoutProofs ----------------------------
(***************************************************************************)
(* Theorems about Checkout, for any number of calls of the tab, whichever  *)
(* way sessionStorage behaves.                                             *)
(***************************************************************************)
EXTENDS Checkout, FiniteSetTheorems, TLAPS

RequestType ==
  [kind : {"none", "start", "complete", "cancel"}, key : Keys, outcome : Outcomes,
   at : {"tab", "network", "looked", "checked", "answered", "lost"},
   answer : {"none", "ok", "refused"} \cup Closed]

(* The rows of the server agree: a success is a confirmation, and seats are kept
   exactly by pending and confirmed reservations. *)
ServerOK ==
  /\ pay = "SUCCESS" <=> resv = "CONFIRMED"
  /\ rows <=> resv \in {"PENDING", "CONFIRMED"}
  /\ pay \in {"FAILED", "TIMEOUT"} => ~rows

(* What the answer of call i, or its way so far, says of the server for good. *)
CallOK(i) ==
  /\ call[i].kind = "complete" => pay # "Absent"
  /\ call[i].kind = "start" /\ call[i].answer = "ok" => pay # "Absent"
  /\ call[i].answer \in Closed => pay = call[i].answer
  /\ call[i].kind = "cancel" /\ call[i].answer = "ok" => ~rows
  /\ call[i].at \in {"looked", "checked"} => call[i].kind = "start"
  /\ storage = "works" /\ call[i].kind = "start" /\ call[i].at \in {"network", "looked", "checked"}
       => call[i].key = stored /\ stored # NoKey

CallsOK == \A i \in Calls : CallOK(i)

(* A tab whose storage works only ever pays with one key. *)
PaymentKeyOK == storage = "works" /\ pay # "Absent" => payKey = stored /\ stored # NoKey

(* No key is drawn without a call to send it. *)
Used == {i \in Calls : call[i].at # "tab"}
KeysDrawn == drawn <= Cardinality(Used)

IInv ==
  /\ TypeOK /\ ServerOK /\ CallsOK /\ PaymentKeyOK /\ KeysDrawn
  /\ ToldPaidHolds /\ ToldReleasedHolds

(* What no step takes back. *)
Forward ==
  /\ pay # "Absent" => pay' # "Absent"
  /\ pay \in Closed => pay' = pay
  /\ rows' => rows
  /\ storage' = storage
  /\ stored # NoKey => stored' = stored

-----------------------------------------------------------------------------
LEMMA CallTyped == TypeOK => call \in [Calls -> RequestType]
BY DEF TypeOK, RequestType

LEMMA KeysFacts ==
  /\ IsFiniteSet(Calls) /\ Cardinality(Calls) \in Nat /\ NoKey \in Keys /\ Keys \subseteq Nat
  /\ Gone \in RequestType /\ Gone.at = "lost" /\ Gone.kind = "none" /\ Gone.answer = "none"
<1>1. IsFiniteSet(Calls) /\ Cardinality(Calls) \in Nat
  BY CheckoutAssumption, FS_CardinalityType
<1>2. NoKey \in Keys /\ Keys \subseteq Nat
  BY <1>1 DEF NoKey, Keys
<1> QED
  BY <1>1, <1>2 DEF Gone, Request, RequestType, Outcomes, Closed

LEMMA InitIInv == Init => IInv
<1> SUFFICES ASSUME Init PROVE IInv
  OBVIOUS
<1> USE DEF Init
<1>1. Request("none", NoKey, "success", "tab") \in RequestType
  BY KeysFacts DEF Request, RequestType, Outcomes
<1>2. call \in [Calls -> RequestType] /\ drawn \in Keys
  BY <1>1, KeysFacts DEF NoKey
<1>3. TypeOK
  BY <1>2, KeysFacts DEF TypeOK, RequestType
<1>4. ServerOK /\ PaymentKeyOK /\ ToldPaidHolds /\ ToldReleasedHolds
  BY DEF ServerOK, PaymentKeyOK, ToldPaidHolds, ToldReleasedHolds
<1>5. CallsOK
  BY DEF CallsOK, CallOK, Request, Closed
<1>6. KeysDrawn
  <2>1. Cardinality(Used) \in Nat
    BY KeysFacts, FS_Subset, FS_CardinalityType DEF Used
  <2> QED
    BY <2>1 DEF KeysDrawn
<1> QED
  BY <1>3, <1>4, <1>5, <1>6 DEF IInv

-----------------------------------------------------------------------------
(* The parts of the invariant, for steps that only go forward. *)
LEMMA CallsStayOK ==
  ASSUME CallsOK, Forward,
         \A i \in Calls : call'[i] = call[i] \/ call'[i] = Gone \/ CallOK(i)'
  PROVE  CallsOK'
<1> SUFFICES ASSUME NEW i \in Calls PROVE CallOK(i)'
  BY DEF CallsOK
<1>1. CASE call'[i] = call[i]
  BY <1>1 DEF CallsOK, CallOK, Forward, Closed
<1>2. CASE call'[i] = Gone
  BY <1>2, KeysFacts DEF CallOK, Closed
<1> QED
  BY <1>1, <1>2

LEMMA UsedGrows ==
  ASSUME TypeOK, KeysDrawn, drawn' = drawn,
         \A i \in Calls : call[i].at # "tab" => call'[i].at # "tab"
  PROVE  KeysDrawn'
<1>1. Used \subseteq Used' /\ IsFiniteSet(Used')
  BY KeysFacts, FS_Subset DEF Used
<1>2. Cardinality(Used) <= Cardinality(Used') /\ Cardinality(Used) \in Nat /\ Cardinality(Used') \in Nat
  BY <1>1, FS_Subset, FS_CardinalityType
<1>3. drawn \in Nat
  BY KeysFacts DEF TypeOK
<1> QED
  BY <1>2, <1>3 DEF KeysDrawn

LEMMA ToldStaysTrue ==
  ASSUME ToldPaidHolds, ToldReleasedHolds, ServerOK', Forward,
         "paid" \in told' => "paid" \in told \/ pay = "SUCCESS",
         "released" \in told' => "released" \in told \/ ~rows
  PROVE  ToldPaidHolds' /\ ToldReleasedHolds'
BY DEF ToldPaidHolds, ToldReleasedHolds, ServerOK, Forward, Closed

-----------------------------------------------------------------------------
(* A step of the page that only forgets answers, or changes what is shown. *)
LEMMA PageIInv ==
  ASSUME IInv, UNCHANGED <<serverVars, storage, stored, drawn>>, memory' \in {memory, NoKey},
         call' \in [Calls -> RequestType],
         \A i \in Calls : call'[i] = call[i] \/ call'[i] = Gone,
         waiting' \subseteq waiting, busy' \in waiting' \cup {NoCall},
         screen' \in {"form", "closed", "tickets", "event"}, late' \in BOOLEAN,
         told' \subseteq {"paid", "released"},
         "paid" \in told' => "paid" \in told \/ pay = "SUCCESS",
         "released" \in told' => "released" \in told \/ ~rows
  PROVE  IInv'
<1> USE DEF IInv, serverVars
<1>1. TypeOK'
  BY KeysFacts DEF TypeOK, RequestType
<1>2. Forward /\ ServerOK' /\ PaymentKeyOK'
  BY DEF Forward, ServerOK, PaymentKeyOK
<1>3. CallsOK'
  BY <1>2, CallsStayOK
<1>4. KeysDrawn'
  BY KeysFacts, UsedGrows
<1>5. ToldPaidHolds' /\ ToldReleasedHolds'
  BY <1>2, ToldStaysTrue
<1> QED
  BY <1>1, <1>2, <1>3, <1>4, <1>5

(* A step of the server on call i, or on none. *)
LEMMA ServerIInv ==
  ASSUME IInv, UNCHANGED <<waiting, busy, pageVars, keyVars>>,
         resv' \in {"PENDING", "CONFIRMED", "CANCELLED", "EXPIRED"},
         pay' \in {"Absent", "PENDING"} \cup Closed, payKey' \in Keys,
         rows' \in BOOLEAN, due' \in BOOLEAN,
         ServerOK', Forward, PaymentKeyOK',
         call' \in [Calls -> RequestType],
         \A i \in Calls : call'[i] = call[i] \/ (call'[i].at # "tab" /\ CallOK(i)')
  PROVE  IInv'
<1> USE DEF IInv, pageVars, keyVars
<1>1. TypeOK'
  BY DEF TypeOK, RequestType
<1>2. CallsOK'
  BY CallsStayOK
<1>3. KeysDrawn'
  BY UsedGrows
<1>4. ToldPaidHolds' /\ ToldReleasedHolds'
  BY ToldStaysTrue
<1> QED
  BY <1>1, <1>2, <1>3, <1>4

LEMMA DropForgets ==
  ASSUME TypeOK, NEW S \in SUBSET Calls, Drop(S)
  PROVE  /\ call' \in [Calls -> RequestType]
         /\ \A i \in Calls : call'[i] = call[i] \/ call'[i] = Gone
         /\ waiting' = waiting \ S
BY CallTyped, KeysFacts DEF Drop

(* The page uses an answer, gives up, is left, reloaded, or counts down. *)
LEMMA PageStepIInv ==
  ASSUME IInv,
         \/ \E i \in Calls : ShowTickets(i) \/ ShowFailure(i) \/ ShowCancelled(i) \/ ShowRefusal(i)
                             \/ GiveUp(i)
         \/ Reload \/ Leave \/ Return \/ CountdownEnds
  PROVE  IInv'
<1> USE DEF keyVars, callVars, pageVars
<1>1. TypeOK /\ CallsOK /\ ServerOK /\ call \in [Calls -> RequestType]
  BY CallTyped DEF IInv
<1>2. /\ screen \in {"form", "closed", "tickets", "event"} /\ late \in BOOLEAN
      /\ waiting \in SUBSET Calls /\ busy \in waiting \cup {NoCall}
      /\ told \in SUBSET {"paid", "released"}
  BY <1>1 DEF TypeOK
<1>3. ASSUME NEW i \in Calls, NEW next \in {"tickets", "event"}, NEW what \in {"paid", "released"},
             GoTo(next, i, what), what = "paid" => pay = "SUCCESS", what = "released" => ~rows
      PROVE  IInv'
  <2>1. Drop({i}) /\ UNCHANGED <<serverVars, storage, stored, drawn, memory, late>>
        /\ screen' = next /\ busy' = NoCall /\ told' = told \cup {what}
    BY <1>3 DEF GoTo
  <2> QED
    BY <1>1, <1>2, <1>3, <2>1, DropForgets, PageIInv
<1>4. ASSUME NEW i \in Calls, StopWaiting(i),
             screen' \in {screen, "closed"}, told' \in {told, told \cup {"released"}},
             told' # told => ~rows
      PROVE  IInv'
  <2>1. Drop({i}) /\ UNCHANGED <<serverVars, storage, stored, drawn, memory, late>>
        /\ busy' = IF busy = i THEN NoCall ELSE busy
    BY <1>4 DEF StopWaiting
  <2>2. busy' \in waiting' \cup {NoCall} /\ waiting' \subseteq waiting
    BY <1>1, <1>2, <2>1, DropForgets
  <2> QED
    BY <1>1, <1>2, <1>4, <2>1, <2>2, DropForgets, PageIInv
<1>5. ASSUME NEW i \in Calls, ShowTickets(i) PROVE IInv'
  BY <1>1, <1>3, <1>5 DEF ShowTickets, Answered, CallsOK, CallOK, Closed
<1>6. ASSUME NEW i \in Calls, ShowCancelled(i) PROVE IInv'
  BY <1>1, <1>3, <1>6 DEF ShowCancelled, Answered, CallsOK, CallOK
<1>7. ASSUME NEW i \in Calls, ShowFailure(i) PROVE IInv'
  <2>1. ~rows
    BY <1>1, <1>7 DEF ShowFailure, Answered, CallsOK, CallOK, ServerOK, Closed
  <2> QED
    BY <1>4, <1>7, <2>1 DEF ShowFailure
<1>8. ASSUME NEW i \in Calls, ShowRefusal(i) \/ GiveUp(i) PROVE IInv'
  BY <1>4, <1>8 DEF ShowRefusal, GiveUp
<1>9. CASE Reload
  <2>1. /\ Drop(waiting) /\ UNCHANGED <<serverVars, storage, stored, drawn, late, told>>
        /\ screen' = "form" /\ memory' = NoKey /\ busy' = NoCall
    BY <1>9 DEF Reload
  <2> QED
    BY <1>1, <1>2, <2>1, DropForgets, PageIInv
<1>10. CASE Leave \/ Return \/ CountdownEnds
  <2>1. /\ UNCHANGED <<serverVars, call, waiting, storage, stored, drawn, memory, told>>
        /\ busy' \in {busy, NoCall} /\ late' \in BOOLEAN
        /\ screen' \in {screen, "form", "event"}
    BY <1>2, <1>10 DEF Leave, Return, CountdownEnds
  <2> QED
    BY <1>1, <1>2, <2>1, PageIInv
<1> QED
  BY <1>5, <1>6, <1>7, <1>8, <1>9, <1>10

-----------------------------------------------------------------------------
(* A call is sent, by a click or after the answer to an older one. *)
LEMMA SentTyped ==
  ASSUME NEW kind \in {"start", "complete", "cancel"}, NEW key \in Keys, NEW outcome \in Outcomes
  PROVE  /\ Request(kind, key, outcome, "network") \in RequestType
         /\ Request(kind, key, outcome, "network").at = "network"
         /\ Request(kind, key, outcome, "network").kind = kind
         /\ Request(kind, key, outcome, "network").key = key
         /\ Request(kind, key, outcome, "network").answer = "none"
BY DEF Request, RequestType

(* An unused call leaves room for one more key. *)
LEMMA KeyToDraw ==
  ASSUME IInv, NEW i \in Calls, Unused(i),
         \A j \in Calls : call[j].at # "tab" => call'[j].at # "tab",
         call'[i].at # "tab", drawn' = drawn + 1
  PROVE  drawn + 1 \in Keys /\ KeysDrawn'
<1>1. IsFiniteSet(Used) /\ i \notin Used /\ Used \cup {i} \subseteq Calls
  BY KeysFacts, FS_Subset DEF Used, Unused
<1>2. Cardinality(Used \cup {i}) = Cardinality(Used) + 1 /\ IsFiniteSet(Used \cup {i})
  BY <1>1, FS_AddElement
<1>3. Cardinality(Used) \in Nat /\ Cardinality(Used \cup {i}) <= Cardinality(Calls)
  BY <1>1, KeysFacts, FS_CardinalityType, FS_Subset
<1>4. Used \cup {i} \subseteq Used' /\ IsFiniteSet(Used')
  BY KeysFacts, FS_Subset DEF Used
<1>5. Cardinality(Used \cup {i}) <= Cardinality(Used') /\ Cardinality(Used') \in Nat
  BY <1>4, FS_Subset, FS_CardinalityType
<1>6. drawn \in Nat /\ drawn <= Cardinality(Used)
  BY KeysFacts DEF IInv, TypeOK, KeysDrawn
<1> QED
  BY <1>2, <1>3, <1>5, <1>6, KeysFacts DEF KeysDrawn, Keys

LEMMA ClickPayIInv == ASSUME IInv, NEW i \in Calls, ClickPay(i) PROVE IInv'
<1> USE DEF serverVars, keyVars, callVars, pageVars
<1>1. TypeOK /\ CallsOK /\ call \in [Calls -> RequestType] /\ Unused(i) /\ RememberKey
  BY CallTyped DEF IInv, ClickPay, Send
<1>2. /\ call' = [call EXCEPT ![i] = Request("start", TabKey, "success", "network")]
      /\ waiting' = waiting \cup {i} /\ busy' = i
      /\ UNCHANGED <<serverVars, pageVars, storage>>
  BY DEF ClickPay, Send, RememberKey
<1>3. stored \in Keys /\ memory \in Keys /\ drawn \in Keys /\ storage \in {"works", "denied", "full"}
  BY <1>1 DEF TypeOK
<1>4. CASE KeptKey = NoKey
  <2>1. drawn' = drawn + 1 /\ TabKey = drawn + 1 /\ memory' = TabKey
        /\ stored' = IF storage = "works" THEN TabKey ELSE stored
    BY <1>1, <1>4 DEF RememberKey, TabKey
  <2>2. /\ \A j \in Calls : call[j].at # "tab" => call'[j].at # "tab"
        /\ call'[i].at = "network"
    BY <1>1, <1>2 DEF Request
  <2>3. drawn + 1 \in Keys /\ KeysDrawn'
    BY <1>1, <2>1, <2>2, KeyToDraw
  <2>4. storage = "works" => stored = NoKey /\ stored' = TabKey /\ TabKey # NoKey
    BY <1>3, <1>4, <2>1, KeysFacts DEF KeptKey, NoKey
  <2>5. storage # "works" => stored' = stored
    BY <2>1
  <2> QED
    <3>1. Request("start", TabKey, "success", "network") \in RequestType
      BY <2>1, <2>3, SentTyped DEF Outcomes
    <3>2. call' \in [Calls -> RequestType]
      BY <1>1, <1>2, <3>1
    <3>3. TypeOK'
      BY <1>1, <1>2, <1>3, <2>1, <2>3, <3>2 DEF TypeOK, RequestType
    <3>4. Forward
      BY <1>2, <2>4, <2>5 DEF Forward
    <3>5. CallOK(i)'
      BY <1>1, <1>2, <2>4 DEF CallOK, Request, Closed
    <3>6. CallsOK'
      BY <1>1, <1>2, <3>4, <3>5, CallsStayOK
    <3>7. ServerOK' /\ PaymentKeyOK'
      BY <1>2, <2>4, <2>5 DEF IInv, ServerOK, PaymentKeyOK
    <3>8. ToldPaidHolds' /\ ToldReleasedHolds'
      BY <1>2, <3>4, <3>7, ToldStaysTrue DEF IInv
    <3> QED
      BY <2>3, <3>3, <3>6, <3>7, <3>8 DEF IInv
<1>5. CASE KeptKey # NoKey
  <2>1. UNCHANGED <<drawn, memory, stored>> /\ TabKey = KeptKey /\ KeptKey \in Keys
    BY <1>1, <1>3, <1>5 DEF RememberKey, TabKey, KeptKey
  <2>2. storage = "works" => TabKey = stored /\ stored # NoKey
    BY <1>5, <2>1 DEF KeptKey
  <2>3. Request("start", TabKey, "success", "network") \in RequestType
    BY <2>1, SentTyped DEF Outcomes
  <2>4. call' \in [Calls -> RequestType]
    BY <1>1, <1>2, <2>3
  <2>5. TypeOK'
    BY <1>1, <1>2, <1>3, <2>1, <2>4 DEF TypeOK, RequestType
  <2>6. Forward
    BY <1>2, <2>1 DEF Forward
  <2>7. CallOK(i)'
    BY <1>1, <1>2, <2>1, <2>2 DEF CallOK, Request, Closed
  <2>8. CallsOK'
    BY <1>1, <1>2, <2>6, <2>7, CallsStayOK
  <2>9. ServerOK' /\ PaymentKeyOK'
    BY <1>2, <2>1 DEF IInv, ServerOK, PaymentKeyOK
  <2>10. ToldPaidHolds' /\ ToldReleasedHolds'
    BY <1>2, <2>6, <2>9, ToldStaysTrue DEF IInv
  <2>11. KeysDrawn'
    BY <1>1, <1>2, <2>1, UsedGrows DEF IInv, Request
  <2> QED
    BY <2>5, <2>8, <2>9, <2>10, <2>11 DEF IInv
<1> QED
  BY <1>4, <1>5

(* A cancel is sent, or a payment that is known is completed: no key is drawn. *)
LEMMA SendIInv ==
  ASSUME IInv, NEW i \in Calls, NEW kind \in {"complete", "cancel"}, NEW outcome \in Outcomes,
         kind = "complete" => pay # "Absent",
         UNCHANGED <<serverVars, keyVars, pageVars>>,
         call' \in [Calls -> RequestType],
         call'[i] = Request(kind, NoKey, outcome, "network"),
         \A j \in Calls \ {i} : call'[j] = call[j] \/ call'[j] = Gone,
         waiting' \in SUBSET Calls, busy' \in waiting' \cup {NoCall}
  PROVE  IInv'
<1> USE DEF IInv, serverVars, keyVars, pageVars
<1>1. TypeOK'
  BY DEF TypeOK, RequestType
<1>2. Forward /\ ServerOK' /\ PaymentKeyOK'
  BY DEF Forward, ServerOK, PaymentKeyOK
<1>3. CallOK(i)'
  BY KeysFacts, SentTyped DEF CallOK, Closed
<1>4. CallsOK'
  BY <1>2, <1>3, CallsStayOK
<1>5. KeysDrawn'
  BY KeysFacts, SentTyped, UsedGrows
<1>6. ToldPaidHolds' /\ ToldReleasedHolds'
  BY <1>2, ToldStaysTrue
<1> QED
  BY <1>1, <1>2, <1>4, <1>5, <1>6

LEMMA ClickCancelIInv == ASSUME IInv, NEW i \in Calls, ClickCancel(i) PROVE IInv'
<1>1. /\ call \in [Calls -> RequestType] /\ waiting \in SUBSET Calls
      /\ call' = [call EXCEPT ![i] = Request("cancel", NoKey, "success", "network")]
      /\ waiting' = waiting \cup {i} /\ busy' = i
      /\ UNCHANGED <<serverVars, keyVars, pageVars>>
  BY CallTyped DEF IInv, TypeOK, ClickCancel, Send
<1>2. Request("cancel", NoKey, "success", "network") \in RequestType /\ "success" \in Outcomes
  BY KeysFacts, SentTyped DEF Outcomes
<1> QED
  BY <1>1, <1>2, SendIInv

LEMMA ProceedIInv ==
  ASSUME IInv, NEW i \in Calls, NEW next \in Calls, NEW outcome \in Outcomes,
         Proceed(i, next, outcome)
  PROVE  IInv'
<1>1. /\ call \in [Calls -> RequestType] /\ waiting \in SUBSET Calls /\ busy \in waiting \cup {NoCall}
      /\ call' = [call EXCEPT ![i] = Gone, ![next] = Request("complete", NoKey, outcome, "network")]
      /\ waiting' = (waiting \ {i}) \cup {next}
      /\ busy' = IF busy = i THEN next ELSE busy
      /\ UNCHANGED <<serverVars, keyVars, pageVars>>
  BY CallTyped DEF IInv, TypeOK, Proceed
<1>2. Request("complete", NoKey, outcome, "network") \in RequestType
  BY KeysFacts, SentTyped
<1>3. call' \in [Calls -> RequestType]
  BY <1>1, <1>2, KeysFacts
<1>4. pay # "Absent"
  BY DEF IInv, CallsOK, CallOK, Proceed, Answered
<1>5. busy' \in waiting' \cup {NoCall}
  BY <1>1
<1> QED
  BY <1>1, <1>3, <1>4, <1>5, SendIInv

-----------------------------------------------------------------------------
(* The server answers call i: the tab gets the answer, or nobody does. *)
LEMMA AnswerFacts ==
  ASSUME TypeOK, NEW i \in Calls, NEW a \in {"ok", "refused"} \cup Closed, Answer(i, a)
  PROVE  /\ call' \in [Calls -> RequestType]
         /\ \A j \in Calls \ {i} : call'[j] = call[j]
         /\ call'[i].at \in {"answered", "lost"}
         /\ \/ call'[i] = Gone
            \/ call'[i].kind = call[i].kind /\ call'[i].answer = a
<1> USE KeysFacts, CallTyped
<1>1. CASE i \in waiting
  <2>1. call' = [call EXCEPT ![i] = [call[i] EXCEPT !.at = "answered", !.answer = a, !.key = NoKey]]
    BY <1>1 DEF Answer
  <2>2. [call[i] EXCEPT !.at = "answered", !.answer = a, !.key = NoKey] \in RequestType
    BY DEF RequestType
  <2> QED
    BY <2>1, <2>2 DEF RequestType
<1>2. CASE i \notin waiting
  BY <1>2 DEF Answer
<1> QED
  BY <1>1, <1>2

(* An answer is right if it says of the server what is so from now on. *)
LEMMA AnswerOK ==
  ASSUME TypeOK, NEW i \in Calls, NEW a \in {"ok", "refused"} \cup Closed, Answer(i, a),
         call[i].kind = "complete" => pay' # "Absent",
         call[i].kind = "start" /\ a = "ok" => pay' # "Absent",
         a \in Closed => pay' = a,
         call[i].kind = "cancel" /\ a = "ok" => ~rows'
  PROVE  CallOK(i)'
BY AnswerFacts, KeysFacts DEF CallOK, Closed

(* A call is answered, and the tables stay as they are. *)
LEMMA AnswerOnlyIInv ==
  ASSUME IInv, NEW i \in Calls, NEW a \in {"ok", "refused"} \cup Closed, Answer(i, a),
         UNCHANGED <<serverVars, waiting, busy, pageVars, keyVars>>,
         call[i].kind = "start" /\ a = "ok" => pay # "Absent",
         a \in Closed => pay = a,
         call[i].kind = "cancel" => a = "refused"
  PROVE  IInv'
<1> USE DEF serverVars, keyVars, pageVars
<1>1. TypeOK /\ ServerOK /\ PaymentKeyOK /\ CallsOK
  BY DEF IInv
<1>2. CallOK(i)'
  BY <1>1, AnswerOK DEF CallsOK, CallOK
<1>3. Forward /\ ServerOK' /\ PaymentKeyOK'
  BY <1>1 DEF Forward, ServerOK, PaymentKeyOK
<1>4. /\ call' \in [Calls -> RequestType]
      /\ \A j \in Calls : call'[j] = call[j] \/ (call'[j].at # "tab" /\ CallOK(j)')
  BY <1>1, <1>2, AnswerFacts
<1> QED
  BY <1>1, <1>3, <1>4, ServerIInv DEF TypeOK

(* start goes on with its next step: only the whereabouts of the call change. *)
LEMMA GoOnIInv ==
  ASSUME IInv, NEW i \in Calls, NEW at \in {"looked", "checked"},
         call[i].kind = "start", call[i].at \in {"network", "looked"},
         call' = [call EXCEPT ![i].at = at],
         UNCHANGED <<serverVars, waiting, busy, pageVars, keyVars>>
  PROVE  IInv'
<1> USE DEF serverVars, keyVars, pageVars
<1>1. TypeOK /\ ServerOK /\ PaymentKeyOK /\ CallsOK /\ call \in [Calls -> RequestType]
  BY CallTyped DEF IInv
<1>2. call' \in [Calls -> RequestType]
  BY <1>1 DEF RequestType
<1>3. /\ \A j \in Calls \ {i} : call'[j] = call[j]
      /\ call'[i] = [call[i] EXCEPT !.at = at]
  BY <1>1
<1>4. /\ call'[i].at = at /\ call'[i].kind = "start"
      /\ call'[i].answer = call[i].answer /\ call'[i].key = call[i].key
  BY <1>1, <1>3 DEF RequestType
<1>5. CallOK(i)'
  BY <1>1, <1>4 DEF CallsOK, CallOK
<1>6. Forward /\ ServerOK' /\ PaymentKeyOK'
  BY <1>1 DEF Forward, ServerOK, PaymentKeyOK
<1>7. \A j \in Calls : call'[j] = call[j] \/ (call'[j].at # "tab" /\ CallOK(j)')
  BY <1>3, <1>4, <1>5
<1> QED
  BY <1>1, <1>2, <1>6, <1>7, ServerIInv DEF TypeOK

LEMMA HandleLookupIInv == ASSUME IInv, NEW i \in Calls, HandleLookup(i) PROVE IInv'
<1>1. /\ call[i].kind = "start" /\ call[i].at = "network"
      /\ UNCHANGED <<serverVars, waiting, busy, pageVars, keyVars>>
  BY DEF HandleLookup, Arrived
<1>2. CASE Answer(i, "ok") /\ pay # "Absent"
  BY <1>1, <1>2, AnswerOnlyIInv DEF Closed
<1>3. CASE call' = [call EXCEPT ![i].at = "looked"]
  BY <1>1, <1>3, GoOnIInv
<1> QED
  BY <1>2, <1>3 DEF HandleLookup

LEMMA HandleCheckIInv == ASSUME IInv, NEW i \in Calls, HandleCheck(i) PROVE IInv'
<1>1. /\ call[i].kind = "start" /\ call[i].at = "looked"
      /\ UNCHANGED <<serverVars, waiting, busy, pageVars, keyVars>>
  BY DEF HandleCheck, IInv, CallsOK, CallOK
<1>2. CASE Answer(i, "refused")
  BY <1>1, <1>2, AnswerOnlyIInv DEF Closed
<1>3. CASE call' = [call EXCEPT ![i].at = "checked"]
  BY <1>1, <1>3, GoOnIInv
<1> QED
  BY <1>2, <1>3 DEF HandleCheck

LEMMA HandleInsertIInv == ASSUME IInv, NEW i \in Calls, HandleInsert(i) PROVE IInv'
<1> USE DEF serverVars, keyVars, pageVars
<1>1. TypeOK /\ ServerOK /\ PaymentKeyOK /\ CallsOK /\ call \in [Calls -> RequestType]
  BY CallTyped DEF IInv
<1>2. /\ call[i].at = "checked" /\ call[i].kind = "start" /\ call[i].key \in Keys
      /\ Answer(i, "ok")
      /\ UNCHANGED <<resv, rows, due, waiting, busy, pageVars, keyVars>>
  BY <1>1 DEF HandleInsert, CallsOK, CallOK, RequestType
<1>3. CASE pay # "Absent" /\ UNCHANGED <<pay, payKey>>
  BY <1>2, <1>3, AnswerOnlyIInv DEF Closed
<1>4. CASE pay = "Absent" /\ pay' = "PENDING" /\ payKey' = call[i].key
  <2>1. Forward /\ ServerOK'
    BY <1>1, <1>2, <1>4 DEF Forward, ServerOK, Closed
  <2>2. PaymentKeyOK'
    BY <1>1, <1>2, <1>4 DEF CallsOK, CallOK, PaymentKeyOK
  <2>3. CallOK(i)'
    BY <1>1, <1>2, <1>4, AnswerOK DEF Closed
  <2>4. /\ call' \in [Calls -> RequestType]
        /\ \A j \in Calls : call'[j] = call[j] \/ (call'[j].at # "tab" /\ CallOK(j)')
    BY <1>1, <1>2, <2>3, AnswerFacts
  <2> QED
    BY <1>1, <1>2, <1>4, <2>1, <2>2, <2>4, ServerIInv DEF TypeOK
<1> QED
  BY <1>3, <1>4 DEF HandleInsert

(* A closed payment is read back, or a success without seats is refused. *)
LEMMA HandleReplayIInv == ASSUME IInv, NEW i \in Calls, HandleReplay(i) PROVE IInv'
<1>1. /\ call[i].kind = "complete" /\ Answer(i, pay)
      /\ UNCHANGED <<serverVars, waiting, busy, pageVars, keyVars>>
  BY DEF HandleReplay, Arrived
<1>2. pay \in Closed
  BY <1>1 DEF HandleReplay, IInv, TypeOK, CallsOK, CallOK
<1>3. PICK a \in Closed : a = pay
  BY <1>2
<1> QED
  BY <1>1, <1>3, AnswerOnlyIInv DEF Closed

(* A payment is completed: paid and confirmed with its seats, or closed without. *)
LEMMA HandleCompleteIInv == ASSUME IInv, NEW i \in Calls, HandleComplete(i) PROVE IInv'
<1> USE DEF serverVars, keyVars, pageVars
<1>1. TypeOK /\ ServerOK /\ PaymentKeyOK /\ CallsOK /\ call \in [Calls -> RequestType]
  BY CallTyped DEF IInv
<1>2. call[i].kind = "complete" /\ pay = "PENDING" /\ call[i].outcome \in Outcomes
  BY <1>1 DEF HandleComplete, Complete, Arrived, RequestType
<1>3. PICK outcome \in Outcomes :
        IF outcome = "success" /\ ~rows
        THEN Answer(i, "refused") /\ UNCHANGED <<serverVars, waiting, busy, pageVars, keyVars>>
        ELSE Settle(i, outcome)
  BY <1>2 DEF HandleComplete, Complete, EffectiveOutcome, Outcomes
<1>4. CASE Answer(i, "refused") /\ UNCHANGED <<serverVars, waiting, busy, pageVars, keyVars>>
  BY <1>2, <1>4, AnswerOnlyIInv DEF Closed
<1>5. CASE Settle(i, outcome) /\ (outcome = "success" => rows)
  <2>1. PICK a \in Closed : /\ a = PaymentStateOf(outcome)
                            /\ a = "SUCCESS" <=> outcome = "success"
    BY DEF PaymentStateOf, Closed, Outcomes
  <2>2. /\ ReservationStateOf(outcome) \in {"CONFIRMED", "CANCELLED", "EXPIRED"}
        /\ ReservationStateOf(outcome) = "CONFIRMED" <=> outcome = "success"
    BY DEF ReservationStateOf, Outcomes
  <2>3. /\ pay' = a /\ resv' = ReservationStateOf(outcome)
        /\ rows' = (rows /\ outcome = "success") /\ Answer(i, a)
        /\ UNCHANGED <<payKey, due, waiting, busy, pageVars, keyVars>>
    BY <1>5, <2>1 DEF Settle
  <2>4. rows' \in BOOLEAN /\ (rows' => rows) /\ (rows' <=> outcome = "success")
    BY <1>1, <1>5, <2>3 DEF TypeOK
  <2>5. Forward
    BY <1>2, <2>3, <2>4 DEF Forward, Closed
  <2>6. ServerOK'
    BY <2>1, <2>2, <2>3, <2>4 DEF ServerOK, Closed
  <2>7. PaymentKeyOK'
    BY <1>1, <1>2, <2>3 DEF PaymentKeyOK
  <2>8. CallOK(i)'
    BY <1>1, <1>2, <2>3, AnswerOK DEF Closed
  <2>9. /\ call' \in [Calls -> RequestType]
        /\ \A j \in Calls : call'[j] = call[j] \/ (call'[j].at # "tab" /\ CallOK(j)')
    BY <1>1, <2>3, <2>8, AnswerFacts
  <2> QED
    BY <1>1, <2>2, <2>3, <2>4, <2>5, <2>6, <2>7, <2>9, ServerIInv DEF TypeOK
<1> QED
  BY <1>3, <1>4, <1>5

LEMMA HandleCancelIInv == ASSUME IInv, NEW i \in Calls, HandleCancel(i) PROVE IInv'
<1> USE DEF serverVars, keyVars, pageVars
<1>1. TypeOK /\ ServerOK /\ PaymentKeyOK /\ CallsOK /\ call \in [Calls -> RequestType]
  BY CallTyped DEF IInv
<1>2. call[i].kind = "cancel" /\ UNCHANGED <<pay, payKey, due, waiting, busy, pageVars, keyVars>>
  BY DEF HandleCancel, Arrived
<1>3. CASE UNCHANGED <<resv, rows>> /\ Answer(i, "refused")
  BY <1>2, <1>3, AnswerOnlyIInv DEF Closed
<1>4. CASE resv = "PENDING" /\ resv' = "CANCELLED" /\ rows' = FALSE /\ Answer(i, "ok")
  <2>1. Forward /\ ServerOK' /\ PaymentKeyOK'
    BY <1>1, <1>2, <1>4 DEF Forward, ServerOK, PaymentKeyOK
  <2>2. CallOK(i)'
    BY <1>1, <1>2, <1>4, AnswerOK DEF Closed
  <2>3. /\ call' \in [Calls -> RequestType]
        /\ \A j \in Calls : call'[j] = call[j] \/ (call'[j].at # "tab" /\ CallOK(j)')
    BY <1>1, <1>4, <2>2, AnswerFacts
  <2> QED
    BY <1>1, <1>2, <1>4, <2>1, <2>3, ServerIInv DEF TypeOK
<1> QED
  BY <1>3, <1>4 DEF HandleCancel

(* The deadline passes, or a sweep expires the pending reservation. *)
LEMMA ClockIInv == ASSUME IInv, DeadlinePasses \/ Sweep PROVE IInv'
<1> USE DEF serverVars, keyVars, pageVars, callVars
<1>1. TypeOK /\ ServerOK /\ PaymentKeyOK /\ call \in [Calls -> RequestType]
  BY CallTyped DEF IInv
<1>2. UNCHANGED <<pay, payKey, call, waiting, busy, pageVars, keyVars>>
  BY DEF DeadlinePasses, Sweep, Expire
<1>3. /\ due' \in BOOLEAN /\ rows' \in BOOLEAN /\ (rows' => rows)
      /\ \/ UNCHANGED <<resv, rows>>
         \/ resv = "PENDING" /\ resv' = "EXPIRED" /\ rows' = FALSE
  <2>1. due \in BOOLEAN /\ rows \in BOOLEAN
    BY <1>1 DEF TypeOK
  <2>2. CASE DeadlinePasses
    BY <2>1, <2>2 DEF DeadlinePasses
  <2>3. CASE Sweep
    BY <2>1, <2>3 DEF Sweep, Expire
  <2> QED
    BY <2>2, <2>3
<1>4. Forward /\ ServerOK' /\ PaymentKeyOK'
  BY <1>1, <1>2, <1>3 DEF Forward, ServerOK, PaymentKeyOK
<1> QED
  BY <1>1, <1>2, <1>3, <1>4, ServerIInv DEF TypeOK

(* A request that gets lost is forgotten; nothing else changes. *)
LEMMA LoseIInv == ASSUME IInv, NEW i \in Calls, Lose(i) PROVE IInv'
<1>1. TypeOK /\ call \in [Calls -> RequestType]
  BY CallTyped DEF IInv
<1>2. /\ call' = [call EXCEPT ![i] = Gone]
      /\ UNCHANGED <<serverVars, waiting, busy, pageVars, keyVars>>
  BY DEF Lose
<1> QED
  BY <1>1, <1>2, KeysFacts, PageIInv DEF TypeOK, pageVars, keyVars

LEMMA NextIInv == IInv /\ [Next]_vars => IInv'
<1> SUFFICES ASSUME IInv, [Next]_vars PROVE IInv'
  OBVIOUS
<1>1. CASE UNCHANGED vars
  BY <1>1, PageIInv, CallTyped DEF vars, callVars, pageVars, keyVars, IInv, TypeOK
<1>2. CASE PageNext
  BY <1>2, PageStepIInv, ClickPayIInv, ClickCancelIInv, ProceedIInv DEF PageNext
<1>3. CASE ServerNext
  BY <1>3, HandleLookupIInv, HandleCheckIInv, HandleInsertIInv, HandleReplayIInv, HandleCompleteIInv,
     HandleCancelIInv, LoseIInv, ClockIInv DEF ServerNext
<1> QED
  BY <1>1, <1>2, <1>3 DEF Next

(* Every reachable state of the tab and the server satisfies the invariant. *)
THEOREM Invariance == Spec => []IInv
BY InitIInv, NextIInv, PTL DEF Spec

-----------------------------------------------------------------------------
(* Every variable keeps its type; in particular the tab draws no more keys than it
   sends calls, and no call is answered with the state of a missing payment. *)
THEOREM TypeCorrect == Spec => []TypeOK
<1>1. IInv => TypeOK
  BY DEF IInv
<1> QED
  BY <1>1, Invariance, PTL

(* Who was shown tickets has paid and keeps the reservation. *)
THEOREM PaidStaysTrue == Spec => []ToldPaidHolds
<1>1. IInv => ToldPaidHolds
  BY DEF IInv
<1> QED
  BY <1>1, Invariance, PTL

(* Who was told that the seats are free is not charged, and holds none. *)
THEOREM ReleasedStaysTrue == Spec => []ToldReleasedHolds
<1>1. IInv => ToldReleasedHolds
  BY DEF IInv
<1> QED
  BY <1>1, Invariance, PTL

(* A start call that has arrived leaves the network through HandleLookup, or is lost. *)
LEMMA TakenByLookup ==
  ASSUME IInv, [Next]_vars, NEW i \in Calls, Arrived(i, "start"), call'[i] # call[i],
         call'[i] # Gone
  PROVE  HandleLookup(i)
<1> USE DEF callVars, Arrived
<1>1. TypeOK /\ CallsOK /\ call \in [Calls -> RequestType]
  BY CallTyped DEF IInv
<1>2. ~ \E S \in SUBSET Calls : Drop(S)
  BY <1>1, DropForgets
<1>3. ~UNCHANGED call /\ waiting \in SUBSET Calls
  BY <1>1 DEF TypeOK
<1>4. ~ \E j \in Calls : Lose(j)
  BY <1>1 DEF Lose
<1>5. ~ \E j \in Calls : ClickPay(j) \/ ClickCancel(j)
  BY <1>1 DEF ClickPay, ClickCancel, Send, Unused
<1>6. ~ \E j \in Calls, next \in Calls, outcome \in Outcomes : Proceed(j, next, outcome)
  BY <1>1 DEF Proceed, Unused
<1>7. ~PageNext
  BY <1>2, <1>3, <1>5, <1>6 DEF PageNext, ShowTickets, ShowFailure, ShowCancelled, ShowRefusal, GiveUp,
    GoTo, StopWaiting, Reload, Leave, Return, CountdownEnds
<1>8. ~DeadlinePasses /\ ~Sweep
  BY <1>3 DEF DeadlinePasses, Sweep, Expire
<1>9. PICK j \in Calls : \/ HandleLookup(j) \/ HandleCheck(j) \/ HandleInsert(j) \/ HandleReplay(j)
                         \/ HandleComplete(j) \/ HandleCancel(j)
  BY <1>3, <1>4, <1>7, <1>8 DEF Next, ServerNext, vars
<1>10. j = i
  <2>1. \/ call' = [call EXCEPT ![j].at = "looked"]
        \/ call' = [call EXCEPT ![j].at = "checked"]
        \/ \E a : Answer(j, a)
    BY <1>9 DEF HandleLookup, HandleCheck, HandleInsert, HandleReplay, HandleComplete, Complete, Settle,
      HandleCancel
  <2> QED
    BY <1>1, <2>1 DEF Answer
<1>11. ~HandleCheck(i) /\ ~HandleInsert(i)
  BY DEF HandleCheck, HandleInsert
<1>12. ~HandleReplay(i) /\ ~HandleComplete(i) /\ ~HandleCancel(i)
  BY DEF HandleReplay, HandleComplete, Complete, HandleCancel
<1> QED
  BY <1>9, <1>10, <1>11, <1>12

(* A start call of a tab whose storage works carries the key of the payment that is
   there: it is found by the lookup, and answered with it, or gets lost. *)
THEOREM PaidRetry == Spec => PaidRetryAnswered
<1>1. IInv /\ [Next]_vars =>
        [storage = "works" /\ pay # "Absent" => \A i \in Calls :
           Arrived(i, "start") /\ call'[i] # call[i]
             => call'[i].answer = "ok" \/ call'[i] = Gone]_vars
  <2> SUFFICES ASSUME IInv, [Next]_vars, storage = "works", pay # "Absent", NEW i \in Calls,
                      Arrived(i, "start"), call'[i] # call[i], call'[i] # Gone
               PROVE  call'[i].answer = "ok"
    OBVIOUS
  <2>1. HandleLookup(i)
    BY TakenByLookup
  <2>2. call[i].key = stored /\ payKey = stored
    BY DEF Arrived, IInv, CallsOK, CallOK, PaymentKeyOK
  <2>3. Answer(i, "ok")
    BY <2>1, <2>2 DEF HandleLookup
  <2> QED
    BY <2>3, AnswerFacts DEF IInv
<1> QED
  BY <1>1, Invariance, PTL DEF Spec, PaidRetryAnswered

=============================================================================
