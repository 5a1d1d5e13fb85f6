------------------------------- MODULE Checkout -------------------------------
(***************************************************************************)
(* The checkout page of one pending reservation                            *)
(* (frontend/src/components/Checkout.tsx, frontend/src/api.ts) against the *)
(* controllers it calls.  Every POST is sent once; the browser gives it up *)
(* after 15 seconds or when the connection breaks, and the request may     *)
(* still reach the server later, after the customer has clicked again,     *)
(* reloaded the page or cancelled.  pay() and cancel() outlive their page: *)
(* a customer who walks away within the application and comes back finds a *)
(* fresh form, while the older flow goes on, sends its second call, and in *)
(* the end shows another page.                                             *)
(*                                                                         *)
(* complete and cancel lock the reservation for their whole transaction,   *)
(* so each one is a single step here; Booking takes them apart.  start     *)
(* locks nothing, and is three steps.                                      *)
(***************************************************************************)
EXTENDS PaymentPolicy, FiniteSets, Naturals

CONSTANTS
  Calls,  \* the POST calls of the tab: as many as there are bound the model
  NoCall

ASSUME CheckoutAssumption == IsFiniteSet(Calls) /\ NoCall \notin Calls

NoKey == 0

VARIABLES
  resv, pay,  \* Reservation.state and Payment.state ("Absent": no row)
  payKey,     \* Payment.idempotencyKey
  rows,       \* the reservation still has its ReservationSeat rows
  due,        \* expiresAt has passed on the server
  call,       \* call[i]: kind, argument, whereabouts and answer of call i
  screen,     \* what the tab shows; "closed" is the form with terminal = true
  waiting,    \* the calls that some pay() or cancel() of the tab awaits
  busy,       \* the one of them that keeps the form on the screen loading
  late,       \* the countdown of the page is at zero
  storage,    \* sessionStorage: "works", "denied" (every access throws), "full" (only setItem throws)
  stored, memory,  \* the key in sessionStorage, and in volatileIdempotencyKeys
  drawn,      \* keys generated so far
  told        \* everything the customer was ever told: "paid", "released"

serverVars == <<resv, pay, payKey, rows, due>>
keyVars == <<storage, stored, memory, drawn>>
pageVars == <<screen, late, told>>
callVars == <<call, waiting, busy>>
vars == <<serverVars, callVars, pageVars, keyVars>>

Keys == 0..Cardinality(Calls)

Request(kind, key, outcome, at) ==
  [kind |-> kind, key |-> key, outcome |-> outcome, at |-> at, answer |-> "none"]

(* A call that the server is done with and the page does not await *)
Gone == Request("none", NoKey, "success", "lost")

Closed == {"SUCCESS", "FAILED", "TIMEOUT"}

TypeOK ==
  /\ resv \in {"PENDING", "CONFIRMED", "CANCELLED", "EXPIRED"}
  /\ pay \in {"Absent", "PENDING"} \cup Closed
  /\ payKey \in Keys /\ rows \in BOOLEAN /\ due \in BOOLEAN
  /\ call \in [Calls -> [kind : {"none", "start", "complete", "cancel"},
                         key : Keys, outcome : Outcomes,
                         at : {"tab", "network", "looked", "checked", "answered", "lost"},
                         answer : {"none", "ok", "refused"} \cup Closed]]
  /\ waiting \in SUBSET Calls /\ busy \in waiting \cup {NoCall}
  /\ screen \in {"form", "closed", "tickets", "event"}
  /\ late \in BOOLEAN
  /\ storage \in {"works", "denied", "full"}
  /\ stored \in Keys /\ memory \in Keys /\ drawn \in Keys
  /\ told \in SUBSET {"paid", "released"}

Init ==
  /\ resv = "PENDING" /\ pay = "Absent" /\ payKey = NoKey /\ rows = TRUE /\ due = FALSE
  /\ call = [i \in Calls |-> Request("none", NoKey, "success", "tab")]
  /\ waiting = {} /\ busy = NoCall
  /\ screen = "form" /\ late = FALSE /\ told = {}
  /\ storage \in {"works", "denied", "full"}
  /\ stored = NoKey /\ memory = NoKey /\ drawn = 0

(***************************************************************************)
(* idempotencyKey(reservationId)                                           *)
(***************************************************************************)

(* Mutant: only the memory of the page is asked. *)
KeptInMemory == memory

(* getItem throws when storage is denied, and the memory is asked instead;
   when storage is full it answers, with null. *)
KeptKey == IF storage = "denied" THEN memory ELSE stored

TabKey == IF KeptKey # NoKey THEN KeptKey ELSE drawn + 1

(* A generated key goes to both places, as far as setItem does not throw. *)
RememberKey ==
  /\ memory' = IF KeptKey = NoKey THEN TabKey ELSE memory
  /\ stored' = IF KeptKey = NoKey /\ storage = "works" THEN TabKey ELSE stored
  /\ drawn'  = IF KeptKey = NoKey THEN drawn + 1 ELSE drawn
  /\ UNCHANGED storage

(***************************************************************************)
(* The page                                                                *)
(***************************************************************************)
(* Nobody has used i for a call yet. *)
Unused(i) == call[i].at = "tab"

Send(i, kind, key, outcome) ==
  /\ Unused(i)
  /\ waiting' = waiting \cup {i}
  /\ call' = [call EXCEPT ![i] = Request(kind, key, outcome, "network")]
  /\ busy' = i

Answered(i, kind, answers) ==
  /\ i \in waiting
  /\ call[i].kind = kind
  /\ call[i].at = "answered"
  /\ call[i].answer \in answers

Clickable == screen = "form" /\ busy = NoCall

ClickPay(i) ==
  /\ Clickable /\ ~late
  /\ Send(i, "start", TabKey, "success")
  /\ RememberKey
  /\ UNCHANGED <<serverVars, pageVars>>

(* The payment is known: it is completed with the outcome that was on the form at
   the click (and that shows here for the first time), also when the page of the
   click is gone. *)
Proceed(i, next, outcome) ==
  /\ Answered(i, "start", {"ok"}) /\ Unused(next)
  /\ waiting' = (waiting \ {i}) \cup {next}
  /\ busy' = IF busy = i THEN next ELSE busy
  /\ call' = [call EXCEPT ![i] = Gone,
                          ![next] = Request("complete", NoKey, outcome, "network")]
  /\ UNCHANGED <<serverVars, keyVars, pageVars>>

ClickCancel(i) ==
  /\ Clickable
  /\ Send(i, "cancel", NoKey, "success")
  /\ UNCHANGED <<serverVars, keyVars, pageVars>>

(* The tab does not await the calls S any more; an answer that is there is used,
   or nobody is left to get it. *)
Drop(S) ==
  /\ waiting' = waiting \ S
  /\ call' = [i \in Calls |-> IF i \in S /\ call[i].at = "answered" THEN Gone ELSE call[i]]

(* navigate(): the form of the moment, whichever it is, is left behind. *)
GoTo(next, i, what) ==
  /\ screen' = next /\ busy' = NoCall
  /\ told' = told \cup {what}
  /\ Drop({i})
  /\ UNCHANGED <<serverVars, keyVars, late>>

ShowTickets(i) == Answered(i, "complete", {"SUCCESS"}) /\ GoTo("tickets", i, "paid")
ShowCancelled(i) == Answered(i, "cancel", {"ok"}) /\ GoTo("event", i, "released")

StopWaiting(i) ==
  /\ Drop({i})
  /\ busy' = IF busy = i THEN NoCall ELSE busy
  /\ UNCHANGED <<serverVars, keyVars, late>>

(* Both messages say that the seats are free and nothing was paid; they reach
   nobody when the page of the click is gone. *)
ShowFailure(i) ==
  /\ Answered(i, "complete", {"FAILED", "TIMEOUT"})
  /\ IF busy = i THEN screen' = "closed" /\ told' = told \cup {"released"}
     ELSE UNCHANGED <<screen, told>>
  /\ StopWaiting(i)

ShowRefusal(i) ==
  /\ \E kind \in {"start", "complete", "cancel"} : Answered(i, kind, {"refused"})
  /\ StopWaiting(i)
  /\ UNCHANGED <<screen, told>>

(* The 15 seconds are over, or fetch fails. *)
GiveUp(i) == i \in waiting /\ StopWaiting(i) /\ UNCHANGED <<screen, told>>

(* The page is loaded again, from any of the screens; module state is lost. *)
Reload ==
  /\ screen' = "form" /\ memory' = NoKey
  /\ Drop(waiting) /\ busy' = NoCall
  /\ UNCHANGED <<serverVars, storage, stored, drawn, late, told>>

(* The customer follows a link to another page of the application, and comes
   back: the form is new, and what was under way goes on. *)
Leave ==
  /\ screen \in {"form", "closed"} /\ screen' = "event" /\ busy' = NoCall
  /\ UNCHANGED <<serverVars, call, waiting, keyVars, late, told>>

Return ==
  /\ screen \in {"tickets", "event"} /\ screen' = "form"
  /\ UNCHANGED <<serverVars, callVars, keyVars, late, told>>

CountdownEnds ==
  /\ ~late /\ late' = TRUE
  /\ UNCHANGED <<serverVars, callVars, keyVars, screen, told>>

(***************************************************************************)
(* The server                                                              *)
(***************************************************************************)
Arrived(i, kind) == call[i].kind = kind /\ call[i].at = "network"

Answer(i, a) ==
  call' = [call EXCEPT ![i] =
             IF i \in waiting THEN [@ EXCEPT !.at = "answered", !.answer = a, !.key = NoKey]
             ELSE Gone]

(* POST /api/payments, which holds no lock: the payment with this key, ... *)
HandleLookup(i) ==
  /\ Arrived(i, "start")
  /\ IF pay # "Absent" /\ payKey = call[i].key THEN Answer(i, "ok")
     ELSE call' = [call EXCEPT ![i].at = "looked"]
  /\ UNCHANGED <<serverVars, waiting, busy, pageVars, keyVars>>

(* ... or the reservation, which somebody may have paid or closed since, ... *)
HandleCheck(i) ==
  /\ call[i].at = "looked"
  /\ IF resv = "PENDING" /\ ~due THEN call' = [call EXCEPT ![i].at = "checked"]
     ELSE Answer(i, "refused")
  /\ UNCHANGED <<serverVars, waiting, busy, pageVars, keyVars>>

(* ... and the INSERT, or the payment that the reservation already has. *)
HandleInsert(i) ==
  /\ call[i].at = "checked"
  /\ Answer(i, "ok")
  /\ IF pay = "Absent" THEN pay' = "PENDING" /\ payKey' = call[i].key
     ELSE UNCHANGED <<pay, payKey>>
  /\ UNCHANGED <<resv, rows, due, waiting, busy, pageVars, keyVars>>

Settle(i, outcome) ==
  /\ pay' = PaymentStateOf(outcome)
  /\ resv' = ReservationStateOf(outcome)
  /\ rows' = (rows /\ outcome = "success")
  /\ Answer(i, PaymentStateOf(outcome))
  /\ UNCHANGED <<payKey, due, waiting, busy, pageVars, keyVars>>

(* POST /api/payments/:id/complete of a closed payment answers its state. *)
HandleReplay(i) ==
  /\ Arrived(i, "complete") /\ pay # "PENDING"
  /\ Answer(i, pay)
  /\ UNCHANGED <<serverVars, waiting, busy, pageVars, keyVars>>

Complete(i, sellable) ==
  /\ Arrived(i, "complete") /\ pay = "PENDING"
  /\ LET outcome == EffectiveOutcome(call[i].outcome, due) IN
       IF outcome = "success" /\ ~sellable
       THEN Answer(i, "refused") /\ UNCHANGED <<serverVars, waiting, busy, pageVars, keyVars>>
       ELSE Settle(i, outcome)

(* Mutant: the seats are not looked at. *)
HandleCompleteSeatless(i) == Complete(i, TRUE)

HandleComplete(i) == Complete(i, rows)

(* POST /api/reservations/:id/cancel *)
HandleCancel(i) ==
  /\ Arrived(i, "cancel")
  /\ IF resv = "PENDING"
     THEN resv' = "CANCELLED" /\ rows' = FALSE /\ Answer(i, "ok")
     ELSE UNCHANGED <<resv, rows>> /\ Answer(i, "refused")
  /\ UNCHANGED <<pay, payKey, due, waiting, busy, pageVars, keyVars>>

DeadlinePasses ==
  /\ ~due /\ due' = TRUE
  /\ UNCHANGED <<resv, pay, payKey, rows, callVars, pageVars, keyVars>>

Expire ==
  /\ due
  /\ resv' = "EXPIRED" /\ rows' = FALSE
  /\ UNCHANGED <<pay, payKey, due, callVars, pageVars, keyVars>>

(* Mutant: the UPDATE does not ask for the state it read before. *)
SweepUnguarded == resv \in {"PENDING", "CONFIRMED"} /\ Expire

(* ExpiryService; the payment is not touched. *)
Sweep == resv = "PENDING" /\ Expire

(* A request is lost, or the process dies with it. *)
Lose(i) ==
  /\ call[i].at \in {"network", "looked", "checked"}
  /\ call' = [call EXCEPT ![i] = Gone]
  /\ UNCHANGED <<serverVars, waiting, busy, pageVars, keyVars>>

PageNext ==
  \/ \E i \in Calls : \/ ClickPay(i) \/ ClickCancel(i)
                      \/ \E next \in Calls, outcome \in Outcomes : Proceed(i, next, outcome)
                      \/ ShowTickets(i) \/ ShowFailure(i)
                      \/ ShowCancelled(i) \/ ShowRefusal(i) \/ GiveUp(i)
  \/ Reload \/ Leave \/ Return \/ CountdownEnds

ServerNext ==
  \/ \E i \in Calls : \/ HandleLookup(i) \/ HandleCheck(i) \/ HandleInsert(i)
                      \/ HandleReplay(i) \/ HandleComplete(i)
                      \/ HandleCancel(i) \/ Lose(i)
  \/ DeadlinePasses \/ Sweep

Next == PageNext \/ ServerNext

Spec == Init /\ [][Next]_vars

(***************************************************************************)
(* Properties                                                              *)
(***************************************************************************)

(* Whoever was shown tickets has paid and keeps the reservation, whatever older
   calls of the tab still reach the server. *)
ToldPaidHolds == "paid" \in told => pay = "SUCCESS" /\ resv = "CONFIRMED" /\ rows

(* Whoever was told that the payment failed, or that the reservation is
   cancelled, is never charged by a call that arrives later, and holds no seat. *)
ToldReleasedHolds == "released" \in told => pay # "SUCCESS" /\ ~rows

(* A customer who pays again in the same tab, after an answer that was lost and a
   reload, is answered with the payment that exists, whatever has become of it, and
   is never told that the reservation cannot be paid: so every start call that comes
   to the server once the payment is there.  (One that came earlier, and checks after
   another one was paid, is refused.  Without sessionStorage the key does not survive
   the reload.) *)
PaidRetryAnswered ==
  [][storage = "works" /\ pay # "Absent" => \A i \in Calls :
       Arrived(i, "start") /\ call'[i] # call[i]
         => call'[i].answer = "ok" \/ call'[i] = Gone]_vars

=============================================================================
