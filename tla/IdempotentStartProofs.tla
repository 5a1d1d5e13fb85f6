------------------------- MODULE IdempotentStartProofs -------------------------
(***************************************************************************)
(* Theorems about IdempotentStart, for any number of calls, users,         *)
(* reservations and keys.                                                  *)
(***************************************************************************)
EXTENDS IdempotentStart, TLAPS

(* Whoever got as far as the INSERT, or was answered, owns the reservation:
   each way there has looked at the owner, who never changes. *)
PassedIsOwn == \A c \in Calls : pc[c] \in {"checked", "duplicate", "answered"} => Own(c)

IInv == TypeOK /\ PassedIsOwn /\ AnswerIsOwn /\ OnePaymentPerKey

-----------------------------------------------------------------------------
LEMMA InitIInv == Init => IInv
BY IdempotentStartAssumption
   DEF Init, IInv, TypeOK, PassedIsOwn, AnswerIsOwn, OnePaymentPerKey, WithKey

(* A call goes on, or is refused, and writes no row. *)
LEMMA GoIInv ==
  ASSUME IInv, NEW c \in Calls, NEW next \in {"unknown", "checked", "duplicate", "refused"},
         next \in {"checked", "duplicate"} => Own(c), pc[c] # "answered",
         Go(c, next), UNCHANGED <<payKey, answer>>
  PROVE  IInv'
<1> USE DEF Go, IInv, TypeOK
<1>1. TypeOK'
  OBVIOUS
<1>2. PassedIsOwn' /\ AnswerIsOwn'
  BY DEF PassedIsOwn, AnswerIsOwn, Own
<1>3. OnePaymentPerKey'
  BY DEF OnePaymentPerKey, WithKey
<1> QED
  BY <1>1, <1>2, <1>3

(* A call is answered with the payment of its own reservation. *)
LEMMA AnswerIInv ==
  ASSUME IInv, NEW c \in Calls, Own(c), UNCHANGED payKey,
         AnswerWith(c, body[c].resv)
  PROVE  IInv'
<1> USE DEF AnswerWith, Go, IInv, TypeOK
<1>1. body[c].resv \in Resv
  BY DEF Bodies
<1>2. TypeOK'
  BY <1>1, IdempotentStartAssumption
<1>3. PassedIsOwn' /\ AnswerIsOwn'
  BY <1>1 DEF PassedIsOwn, AnswerIsOwn, Own
<1>4. OnePaymentPerKey'
  BY DEF OnePaymentPerKey, WithKey
<1> QED
  BY <1>2, <1>3, <1>4

LEMMA LookupIInv == ASSUME IInv, NEW c \in Calls, Lookup(c) PROVE IInv'
<1>1. pc[c] = "idle" /\ UNCHANGED payKey
  BY DEF Lookup
<1>2. CASE Go(c, "unknown") /\ UNCHANGED answer
  BY <1>1, <1>2, GoIInv
<1>3. CASE \E r \in WithKey(body[c].key) :
             IF r = body[c].resv /\ Own(c) THEN AnswerWith(c, r) ELSE Refuse(c)
  BY <1>1, <1>3, GoIInv, AnswerIInv DEF Refuse
<1> QED
  BY <1>2, <1>3 DEF Lookup

LEMMA CheckIInv == ASSUME IInv, NEW c \in Calls, CheckReservation(c) PROVE IInv'
<1>1. pc[c] = "unknown"
  BY DEF CheckReservation
<1>2. CASE Own(c) /\ Go(c, "checked") /\ UNCHANGED <<payKey, answer>>
  BY <1>1, <1>2, GoIInv
<1>3. CASE Refuse(c)
  BY <1>1, <1>3, GoIInv DEF Refuse
<1> QED
  BY <1>2, <1>3 DEF CheckReservation

(* The row is inserted only when neither index refuses it. *)
LEMMA InsertIInv == ASSUME IInv, NEW c \in Calls, Insert(c) PROVE IInv'
<1> USE DEF IInv, TypeOK, Bodies
<1>1. pc[c] = "checked" /\ Own(c)
  BY DEF Insert, InsertUnless, PassedIsOwn
<1>2. CASE Go(c, "duplicate") /\ UNCHANGED <<payKey, answer>>
  BY <1>1, <1>2, GoIInv
<1>3. CASE /\ WithKey(body[c].key) = {}
           /\ payKey' = [payKey EXCEPT ![body[c].resv] = body[c].key]
           /\ AnswerWith(c, body[c].resv)
  <2>1. TypeOK' /\ PassedIsOwn' /\ AnswerIsOwn'
    BY <1>1, <1>3, IdempotentStartAssumption DEF AnswerWith, Go, PassedIsOwn, AnswerIsOwn, Own
  <2>2. OnePaymentPerKey'
    <3> SUFFICES ASSUME NEW k \in Keys, NEW r \in Resv, NEW s \in Resv, payKey'[r] = k, payKey'[s] = k
                 PROVE  r = s
      BY DEF OnePaymentPerKey, WithKey
    <3>1. CASE k = body[c].key
      BY <1>3, <3>1 DEF WithKey
    <3>2. CASE k # body[c].key
      BY <1>3, <3>2 DEF OnePaymentPerKey, WithKey
    <3> QED
      BY <3>1, <3>2
  <2> QED
    BY <2>1, <2>2
<1> QED
  BY <1>2, <1>3 DEF Insert, InsertUnless

LEMMA DuplicateIInv == ASSUME IInv, NEW c \in Calls, FindDuplicate(c) PROVE IInv'
<1>1. pc[c] = "duplicate" /\ Own(c) /\ UNCHANGED payKey
  BY DEF FindDuplicate, AnswerDuplicate, IInv, PassedIsOwn
<1>2. CASE Refuse(c)
  BY <1>1, <1>2, GoIInv DEF Refuse
<1>3. CASE AnswerWith(c, body[c].resv)
  BY <1>1, <1>3, AnswerIInv
<1> QED
  BY <1>2, <1>3 DEF FindDuplicate, AnswerDuplicate

LEMMA NextIInv == IInv /\ [Next]_vars => IInv'
<1> SUFFICES ASSUME IInv, [Next]_vars PROVE IInv'
  OBVIOUS
<1>1. CASE UNCHANGED vars \/ \E r \in Resv : Close(r)
  <2>1. TypeOK'
    BY <1>1 DEF vars, Close, IInv, TypeOK
  <2>2. UNCHANGED <<owner, payKey, pc, body, answer>>
    BY <1>1 DEF vars, Close
  <2>3. PassedIsOwn' /\ AnswerIsOwn' /\ OnePaymentPerKey'
    BY <2>2 DEF IInv, PassedIsOwn, AnswerIsOwn, OnePaymentPerKey, WithKey, Own
  <2> QED
    BY <2>1, <2>3 DEF IInv
<1>2. ASSUME NEW c \in Calls, Lookup(c) \/ CheckReservation(c) \/ Insert(c) \/ FindDuplicate(c)
      PROVE  IInv'
  BY <1>2, LookupIInv, CheckIInv, InsertIInv, DuplicateIInv
<1> QED
  BY <1>1, <1>2 DEF Next

(* Every reachable state of the start calls satisfies the invariant. *)
THEOREM Invariance == Spec => []IInv
BY InitIInv, NextIInv, PTL DEF Spec

-----------------------------------------------------------------------------
(* A call of the payment start is only ever answered with the payment of the
   reservation it names, and only when the caller owns that reservation. *)
THEOREM AnswersStayOwn == Spec => []AnswerIsOwn
<1>1. IInv => AnswerIsOwn
  BY DEF IInv
<1> QED
  BY <1>1, Invariance, PTL

(* No idempotency key is ever at two payments. *)
THEOREM KeysStayUnique == Spec => []OnePaymentPerKey
<1>1. IInv => OnePaymentPerKey
  BY DEF IInv
<1> QED
  BY <1>1, Invariance, PTL

=============================================================================
