------------------------------ MODULE WaitingRoom ------------------------------
(***************************************************************************)
(* WaitingRoomController (backend/src/waiting-room.controller.ts) for one  *)
(* event: the Redis sequence, the table WaitingRoomEntry, and the customer *)
(* who joins, waits and joins again.                                       *)
(*                                                                         *)
(* Each member of Joins is one POST .../join that finds no active entry,   *)
(* and also the id of the entry it saves.  Each member of Admins is an     *)
(* administrator who calls .../admit again and again, one call at a time.  *)
(*                                                                         *)
(* Nobody sees a row before its INSERT is committed, but its createdAt is  *)
(* the time at which the transaction began; and a row that is committed    *)
(* stays, whether or not the answer reaches the user.                      *)
(***************************************************************************)
EXTENDS FiniteSets, Naturals

CONSTANTS
  Users, Joins, Admins,
  By,          \* By[j]: the user of join call j
  NoToken,     \* admissionToken is null
  NoEntry,     \* the entry of a user who was never answered
  Capacity,    \* WAITING_ROOM_INITIAL_ADMISSIONS
  MaxCount,    \* bound on body.count (500 in the code)
  MaxLosses    \* bound on how often Redis loses the sequence

ASSUME WaitingRoomAssumption ==
  /\ IsFiniteSet(Joins) /\ Joins \cap Admins = {}
  /\ By \in [Joins -> Users] /\ NoEntry \notin Joins
  /\ NoToken \notin Joins \cup Admins
  /\ Capacity \in Nat /\ MaxCount \in Nat \ {0} /\ MaxLosses \in Nat

VARIABLES
  seq,      \* waiting:event:<id>:sequence
  losses,   \* times that Redis has lost it
  call,     \* call[j]: where the join call is
  pos,      \* pos[j]: the position it drew, 0 if there is none
  state,    \* state[j]: WaitingRoomEntry.state, "Absent" before the commit
  token,    \* token[j]: who drew its token: the join itself, or an administrator
  expired,  \* entries whose tokenExpiresAt has passed
  born,     \* born[j]: rank of createdAt among the entries of its user, 0 before the INSERT
  batch,    \* batch[a]: entries that admit has read and not yet saved
  left,     \* left[a]: history: queued entries that this read left out
  told,     \* told[u]: the entry in the last join answer to u
  unsure    \* history: users who joined while a join of theirs was under way,
            \* and were not answered since all of those ended

joinVars == <<seq, losses, call, pos>>
rowVars == <<state, token, expired, born>>
answerVars == <<told, unsure>>
adminVars == <<batch, left>>
vars == <<joinVars, rowVars, adminVars, answerVars>>

Stage == {"idle", "checked", "drawn", "inserted", "saved", "ended"}

TypeOK ==
  /\ seq \in 0..Cardinality(Joins) /\ losses \in 0..MaxLosses
  /\ call \in [Joins -> Stage]
  /\ pos \in [Joins -> Nat] /\ born \in [Joins -> Nat]
  /\ state \in [Joins -> {"Absent", "QUEUED", "ADMITTED"}]
  /\ token \in [Joins -> Joins \cup Admins \cup {NoToken}]
  /\ expired \in SUBSET Joins
  /\ batch \in [Admins -> SUBSET Joins] /\ left \in [Admins -> SUBSET Joins]
  /\ told \in [Users -> Joins \cup {NoEntry}]
  /\ unsure \in SUBSET Users

Init ==
  /\ seq = 0 /\ losses = 0
  /\ call = [j \in Joins |-> "idle"]
  /\ pos = [j \in Joins |-> 0]
  /\ state = [j \in Joins |-> "Absent"]
  /\ token = [j \in Joins |-> NoToken]
  /\ expired = {}
  /\ born = [j \in Joins |-> 0]
  /\ batch = [a \in Admins |-> {}] /\ left = [a \in Admins |-> {}]
  /\ told = [u \in Users |-> NoEntry] /\ unsure = {}

Saved == {j \in Joins : state[j] # "Absent"}
Queued == {j \in Joins : state[j] = "QUEUED"}
Of(u) == {j \in Joins : By[j] = u}

(* Mutant: order by createdAt, ascending. *)
Oldest(S) == {j \in S : \A i \in S : born[j] <= born[i]}
Newest(S) == {j \in S : \A i \in S : born[i] <= born[j]}

(* The entry that join answers with: the newest one of the user, unless its
   token has expired. *)
Active(u) == Newest(Saved \cap Of(u)) \ expired

Tell(u, j) == told' = [told EXCEPT ![u] = j]

(* A join call of u that found nothing goes on. *)
Joining(u) == \E j \in Of(u) : call[j] \in {"checked", "drawn", "inserted", "saved"}

(***************************************************************************)
(* POST /api/waiting-room/:eventId/join                                    *)
(***************************************************************************)

(* Mutant: the position is drawn before the lookup. *)
RejoinDraws(u) ==
  /\ \E j \in Active(u) : Tell(u, j)
  /\ seq' = seq + 1
  /\ UNCHANGED <<losses, call, pos, rowVars, adminVars, unsure>>

(* An active entry is found and returned. *)
Rejoin(u) ==
  /\ \E j \in Active(u) : Tell(u, j)
  /\ unsure' = IF Joining(u) THEN unsure ELSE unsure \ {u}
  /\ UNCHANGED <<joinVars, rowVars, adminVars>>

(* The ids of a user are used up in one order; which one makes no difference. *)
NextId(u) == CHOOSE j \in Of(u) : call[j] = "idle"

(* None is found; nothing is reserved by having looked. *)
JoinCheck(j) ==
  /\ call[j] = "idle" /\ j = NextId(By[j])
  /\ Active(By[j]) = {}
  /\ call' = [call EXCEPT ![j] = "checked"]
  /\ unsure' = IF Joining(By[j]) THEN unsure \cup {By[j]} ELSE unsure
  /\ UNCHANGED <<seq, losses, pos, rowVars, adminVars, told>>

Draw(j, p) ==
  /\ call[j] = "checked"
  /\ seq' = seq + 1
  /\ pos' = [pos EXCEPT ![j] = p]
  /\ call' = [call EXCEPT ![j] = "drawn"]
  /\ UNCHANGED <<losses, rowVars, adminVars, answerVars>>

(* Mutant: the position is counted in the table. *)
JoinCount(j) == Draw(j, Cardinality(Saved) + 1)

(* INCR *)
JoinDraw(j) == Draw(j, seq + 1)

(* The transaction of the INSERT begins. *)
JoinInsert(j) ==
  /\ call[j] = "drawn"
  /\ call' = [call EXCEPT ![j] = "inserted"]
  /\ born' = [born EXCEPT ![j] = Cardinality({i \in Of(By[j]) : born[i] # 0}) + 1]
  /\ UNCHANGED <<seq, losses, pos, state, token, expired, adminVars, answerVars>>

CommitEntry(j, admitted) ==
  /\ call[j] = "inserted"
  /\ call' = [call EXCEPT ![j] = "saved"]
  /\ state' = [state EXCEPT ![j] = IF admitted THEN "ADMITTED" ELSE "QUEUED"]
  /\ token' = [token EXCEPT ![j] = IF admitted THEN j ELSE NoToken]
  /\ UNCHANGED <<seq, losses, pos, expired, born, adminVars, answerVars>>

(* Mutant: the entries now admitted are counted, not the positions drawn. *)
JoinCommitCounting(j) == CommitEntry(j, Cardinality(Saved \ (Queued \cup expired)) < Capacity)

JoinCommit(j) == CommitEntry(j, pos[j] <= Capacity)

JoinAnswer(j) ==
  /\ call[j] = "saved"
  /\ call' = [call EXCEPT ![j] = "ended"]
  /\ Tell(By[j], j)
  /\ UNCHANGED <<seq, losses, pos, rowVars, adminVars, unsure>>

(* The call fails, its process dies, or its answer is lost.  Before INCR it leaves
   nothing behind, and its id is free again; afterwards a drawn position may never
   be used, and a row that is committed stays. *)
JoinFails(j) ==
  /\ call[j] \in {"checked", "drawn", "inserted", "saved"}
  /\ call' = [call EXCEPT ![j] = IF @ = "checked" THEN "idle" ELSE "ended"]
  /\ pos' = [pos EXCEPT ![j] = IF call[j] = "saved" THEN @ ELSE 0]
  /\ UNCHANGED <<seq, losses, rowVars, adminVars, answerVars>>

(***************************************************************************)
(* POST /api/waiting-room/:eventId/admit: the first n of the queue are     *)
(* read, and later saved in one transaction with new tokens.               *)
(***************************************************************************)

(* Mutant: the order is that of createdAt, which is known within a user. *)
EldestOf(S, B) == \A i \in S \ B, j \in B : By[i] = By[j] => born[j] <= born[i]

(* ORDER BY position LIMIT count: any of the entries that share the last place
   may be taken. *)
FirstOf(S, B) == \A i \in S \ B, j \in B : pos[j] <= pos[i]

ReadBatch(a, S) ==
  /\ batch[a] = {}
  /\ \E n \in 1..MaxCount, B \in SUBSET S :
       /\ Cardinality(B) = n \/ (B = S /\ Cardinality(S) < n)
       /\ FirstOf(S, B)
       /\ batch' = [batch EXCEPT ![a] = B]
       /\ left' = [left EXCEPT ![a] = IF B = {} THEN {} ELSE Queued \ B]
  /\ UNCHANGED <<joinVars, rowVars, answerVars>>

(* Mutant: the query does not ask for the state. *)
AdmitReadAll(a) == ReadBatch(a, Saved)

AdmitRead(a) == ReadBatch(a, Queued)

Close(a) ==
  /\ batch[a] # {}
  /\ batch' = [batch EXCEPT ![a] = {}] /\ left' = [left EXCEPT ![a] = {}]

SaveBatch(a, next) ==
  /\ Close(a)
  /\ state' = [j \in Joins |-> IF j \in batch[a] THEN next ELSE state[j]]
  /\ token' = [j \in Joins |-> IF j \in batch[a] THEN a ELSE token[j]]
  /\ expired' = expired \ batch[a]
  /\ UNCHANGED <<joinVars, born, answerVars>>

(* Mutant: the tokens are written and the state is not. *)
AdmitSaveTokens(a) == SaveBatch(a, "QUEUED")

AdmitSave(a) == SaveBatch(a, "ADMITTED")

AdmitFails(a) == Close(a) /\ UNCHANGED <<joinVars, rowVars, answerVars>>

TokenExpires(j) ==
  /\ state[j] = "ADMITTED" /\ j \notin expired
  /\ expired' = expired \cup {j}
  /\ UNCHANGED <<joinVars, state, token, born, adminVars, answerVars>>

(* The Redis server restarts without its data, and INCR begins again at 1. *)
SequenceLost ==
  /\ seq > 0 /\ losses < MaxLosses
  /\ seq' = 0 /\ losses' = losses + 1
  /\ UNCHANGED <<call, pos, rowVars, adminVars, answerVars>>

JoinStep(j) ==
  \/ JoinCheck(j) \/ JoinDraw(j) \/ JoinInsert(j) \/ JoinCommit(j) \/ JoinAnswer(j) \/ JoinFails(j)
AdmitStep(a) == AdmitRead(a) \/ AdmitSave(a) \/ AdmitFails(a)

Next ==
  \/ \E u \in Users : Rejoin(u)
  \/ \E j \in Joins : JoinStep(j) \/ TokenExpires(j)
  \/ \E a \in Admins : AdmitStep(a)
  \/ SequenceLost

(* One administrator, whichever it is, goes on admitting, and succeeds now and then. *)
Diligent == CHOOSE a \in Admins : TRUE

Fairness == WF_vars(AdmitRead(Diligent)) /\ SF_vars(AdmitSave(Diligent))

Spec == Init /\ [][Next]_vars /\ Fairness

(***************************************************************************)
(* Properties                                                              *)
(***************************************************************************)

(* No more than Capacity entries admit themselves for every life of the sequence,
   however the joins of any number of replicas interleave, whatever tokens have
   expired since, and also when a join draws before a loss and saves after it. *)
CapacityKept == Cardinality({j \in Joins : token[j] = j}) <= Capacity * (1 + losses)

(* Two entries have the same place in the queue only when Redis has lost the
   sequence between them, also when users join twice and positions are lost. *)
PlacesDistinct ==
  \A i \in Saved : Cardinality({j \in Saved : pos[j] = pos[i]}) <= 1 + losses

(* Everybody who is queued is admitted some day, whoever joins meanwhile and
   although admit calls fail. *)
QueueServed == \A j \in Joins : state[j] = "QUEUED" ~> state[j] = "ADMITTED"

(* "Admission tokens are [...] stored with the waiting-room entry, [...] and
   expire after the configured TTL" (overview.md): no admit call takes a token
   away before, except one that had already read the entry as queued. *)
TokenLivesItsTime ==
  [][\A j \in Joins :
       state[j] = "ADMITTED" /\ j \notin expired /\ (\A a \in Admins : j \notin batch[a])
         => token'[j] = token[j] /\ \A a \in Admins : j \notin batch'[a]]_vars

(* "your place is kept and you can check the status again" (EventPage.tsx): a user
   who was told an entry is told the same one again as long as it is queued, also
   when answers were lost.  (Except a user who started a second join while the first
   was under way: both may save an entry, and the newer one is named from then on.
   Once a join is answered after both have ended, this entry stays.) *)
PlaceKept ==
  [][\A u \in Users \ unsure : told[u] \in Queued => told'[u] = told[u]]_vars

(* "an administrator can admit queued entries in sequence order" (ADR 0005): an
   entry with a smaller position is passed over only by an admit call that read the
   table before this entry was in it. *)
AdmittedInOrder ==
  [][\A i, j \in Joins :
       state[j] # "ADMITTED" /\ state'[j] = "ADMITTED" /\ state'[i] = "QUEUED" /\ pos[i] < pos[j]
         => \E a \in Admins : j \in batch[a] /\ i \notin left[a]]_vars

=============================================================================
