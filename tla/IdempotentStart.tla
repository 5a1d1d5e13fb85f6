---------------------------- MODULE IdempotentStart ----------------------------
(***************************************************************************)
(* POST /api/payments (backend/src/payments.controller.ts, start) as many  *)
(* clients call it: several users, reservations and idempotency keys, each *)
(* call a sequence of separate SQL statements.  The unique reservationId   *)
(* lets the reservation name its payment.                                  *)
(***************************************************************************)
EXTENDS Naturals

CONSTANTS Calls, Users, Resv, Keys, NoKey, NoResv

ASSUME IdempotentStartAssumption == NoKey \notin Keys /\ NoResv \notin Resv

VARIABLES
  owner,   \* Reservation.userId
  open,    \* reservations that are PENDING and not expired
  payKey,  \* payKey[r]: Payment.idempotencyKey of the payment of r, NoKey: no row
  pc,      \* where each call is
  body,    \* body[c]: user, reservationId and idempotencyKey of the call
  answer   \* answer[c]: the reservation whose payment the call answered with

vars == <<owner, open, payKey, pc, body, answer>>

Bodies == [user : Users, resv : Resv, key : Keys]

TypeOK ==
  /\ owner \in [Resv -> Users]
  /\ open \in SUBSET Resv
  /\ payKey \in [Resv -> Keys \cup {NoKey}]
  /\ pc \in [Calls -> {"idle", "unknown", "checked", "duplicate", "answered", "refused"}]
  /\ body \in [Calls -> Bodies]
  /\ answer \in [Calls -> Resv \cup {NoResv}]
  /\ \A c \in Calls : pc[c] = "answered" <=> answer[c] # NoResv

(* Init fixes what each call is going to ask for. *)
Init ==
  /\ owner \in [Resv -> Users]
  /\ open = Resv
  /\ payKey = [r \in Resv |-> NoKey]
  /\ pc = [c \in Calls |-> "idle"]
  /\ body \in [Calls -> Bodies]
  /\ answer = [c \in Calls |-> NoResv]

Paid == {r \in Resv : payKey[r] # NoKey}
WithKey(k) == {r \in Resv : payKey[r] = k}
Own(c) == owner[body[c].resv] = body[c].user

Go(c, next) == pc' = [pc EXCEPT ![c] = next] /\ UNCHANGED <<owner, open, body>>
Refuse(c) == Go(c, "refused") /\ UNCHANGED <<payKey, answer>>
AnswerWith(c, r) == Go(c, "answered") /\ answer' = [answer EXCEPT ![c] = r]

(* The key is looked up; a known key must be used for the same request. *)
Lookup(c) ==
  /\ pc[c] = "idle"
  /\ UNCHANGED payKey
  /\ \/ /\ WithKey(body[c].key) = {}
        /\ Go(c, "unknown") /\ UNCHANGED answer
     \/ \E r \in WithKey(body[c].key) :
          IF r = body[c].resv /\ Own(c) THEN AnswerWith(c, r) ELSE Refuse(c)

(* The reservation is read: its owner and whether it can be paid. *)
CheckReservation(c) ==
  /\ pc[c] = "unknown"
  /\ IF Own(c) /\ body[c].resv \in open
     THEN Go(c, "checked") /\ UNCHANGED <<payKey, answer>>
     ELSE Refuse(c)

InsertUnless(c, conflicts) ==
  /\ pc[c] = "checked"
  /\ IF conflicts = {}
     THEN /\ payKey' = [payKey EXCEPT ![body[c].resv] = body[c].key]
          /\ AnswerWith(c, body[c].resv)
     ELSE Go(c, "duplicate") /\ UNCHANGED <<payKey, answer>>

(* Mutant: idempotencyKey has no unique index. *)
InsertKeyNotUnique(c) == InsertUnless(c, {body[c].resv} \cap Paid)

(* INSERT under both unique indexes. *)
Insert(c) == InsertUnless(c, ({body[c].resv} \cap Paid) \cup WithKey(body[c].key))

AnswerDuplicate(c, found) ==
  /\ pc[c] = "duplicate"
  /\ UNCHANGED payKey
  /\ IF found = {} THEN Refuse(c) ELSE \E r \in found : AnswerWith(c, r)

(* Mutant: the row is looked for by its key. *)
FindDuplicateByKey(c) == AnswerDuplicate(c, WithKey(body[c].key))

(* "duplicate key": the call answers with the payment of the reservation; an
   error when it was the key that is taken. *)
FindDuplicate(c) == AnswerDuplicate(c, {body[c].resv} \cap Paid)

(* The reservation is paid, cancelled or expires. *)
Close(r) ==
  /\ r \in open /\ open' = open \ {r}
  /\ UNCHANGED <<owner, payKey, pc, body, answer>>

Next ==
  \/ \E c \in Calls : Lookup(c) \/ CheckReservation(c) \/ Insert(c) \/ FindDuplicate(c)
  \/ \E r \in Resv : Close(r)

Spec == Init /\ [][Next]_vars

(* However calls with equal keys or equal reservations interleave, a call is
   answered with the payment of the reservation it names, and only for the
   owner of that reservation. *)
AnswerIsOwn == \A c \in Calls : pc[c] = "answered" => answer[c] = body[c].resv /\ Own(c)

(* "Create one Payment per idempotency key and reservation" (ADR 0004): no key
   ends up at two payments. *)
OnePaymentPerKey == \A k \in Keys : \A r, s \in WithKey(k) : r = s

=============================================================================
