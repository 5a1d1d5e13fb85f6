----------------------------- MODULE EventEditing -----------------------------
(***************************************************************************)
(* PATCH /events/:id, POST /events/:id/publish and POST /events/:id/pricing*)
(* of one event (backend/src/catalog.controller.ts), as its organizer and  *)
(* administrators call them at the same time, from whatever client.        *)
(*                                                                         *)
(* A call reads the row, and later hands an entity to Repository.save,     *)
(* which reads the row again, compares, and writes the columns that        *)
(* differ.  The entity of PATCH has only the columns of the body and those *)
(* that no body names: the compiler target ES2022 gives every property of  *)
(* UpdateEventDto a value, undefined if it was not sent, Object.assign     *)
(* copies it, and save leaves undefined columns alone.                     *)
(***************************************************************************)
EXTENDS Naturals

CONSTANTS
  Calls,    \* PATCH and publish calls that may run at the same time
  NoCall,   \* no call
  MaxTime   \* bound on the times of the event, all of them in the future

ASSUME EventEditingAssumption == MaxTime \in Nat \ {0} /\ NoCall \notin Calls

NoTime == 0
Times == 1..MaxTime

VARIABLES
  row,     \* startsAt (NoTime: no row), endsAt (NoTime: null) and published of the row
  priced,  \* a PricingCategory row exists
  pc,      \* where each call is
  entity,  \* entity[c]: the entity the call is going to save
  columns, \* columns[c]: those of it that are not undefined, then those that differ
  overlap  \* history: two calls have been under way at the same time

editVars == <<row, priced, pc, entity, columns, overlap>>

Columns == {"start", "end", "published"}
Rows == [start : Times \cup {NoTime}, end : Times \cup {NoTime}, published : BOOLEAN]

(* An event as POST /events saves it, without and with an end; and no event *)
Draft(start, end) == [start |-> start, end |-> end, published |-> FALSE]
NoRow == Draft(NoTime, NoTime)
Exists == row.start # NoTime

EditTypeOK ==
  /\ row \in Rows
  /\ priced \in BOOLEAN
  /\ pc \in [Calls -> {"idle", "publishing", "saving", "writing"}]
  /\ entity \in [Calls -> Rows]
  /\ columns \in [Calls -> SUBSET Columns]
  /\ overlap \in BOOLEAN

(* validateEventTimes, without its look at the clock *)
Valid(start, end) == end # NoTime => end > start

EditInit ==
  /\ row = NoRow
  /\ priced = FALSE
  /\ pc = [c \in Calls |-> "idle"]
  /\ entity = [c \in Calls |-> NoRow]
  /\ columns = [c \in Calls |-> {}]
  /\ overlap = FALSE

(* POST /events *)
Create(start, end) ==
  /\ ~Exists
  /\ Valid(start, end)
  /\ row' = Draft(start, end)
  /\ UNCHANGED <<priced, pc, entity, columns, overlap>>

Prepare(c, next, e, given) ==
  /\ pc' = [pc EXCEPT ![c] = next]
  /\ entity' = [entity EXCEPT ![c] = e]
  /\ columns' = [columns EXCEPT ![c] = given]
  /\ overlap' = (overlap \/ \E d \in Calls \ {c} : pc[d] # "idle")
  /\ UNCHANGED <<row, priced>>

Or(sent, kept) == IF sent = NoTime THEN kept ELSE sent

PatchWith(c, start, end, published, valid) ==
  /\ pc[c] = "idle" /\ Exists
  /\ valid
  /\ Prepare(c, "saving", [start |-> start, end |-> end, published |-> published],
       {"published"} \cup (IF start = NoTime THEN {} ELSE {"start"})
                     \cup (IF end = NoTime THEN {} ELSE {"end"}))

ValidPatch(start, end) == Valid(Or(start, row.start), Or(end, row.end))

(* Mutants: only the times of the body are compared; the body sets published, as
   that of create does. *)
PatchBodyOnly(c, start, end) ==
  PatchWith(c, start, end, row.published, start # NoTime => Valid(start, end))
PatchUnpublishes(c, start, end) == PatchWith(c, start, end, FALSE, ValidPatch(start, end))

(* PATCH: NoTime for a time that is not in the body *)
Patch(c, start, end) == PatchWith(c, start, end, row.published, ValidPatch(start, end))

PublishRead(c) ==
  /\ pc[c] = "idle" /\ Exists
  /\ Prepare(c, "publishing", row, Columns)

(* Mutant: the refusal of an event without prices is dropped. *)
PublishUnpriced(c) ==
  /\ pc[c] = "publishing"
  /\ Prepare(c, "saving", [entity[c] EXCEPT !.published = TRUE], Columns)

PublishCheck(c) ==
  /\ pc[c] = "publishing"
  /\ priced
  /\ Prepare(c, "saving", [entity[c] EXCEPT !.published = TRUE], Columns)

AddPrice ==
  /\ Exists
  /\ priced' = TRUE
  /\ UNCHANGED <<row, pc, entity, columns, overlap>>

(* save reads the row again ... *)
Compare(c) ==
  /\ pc[c] = "saving"
  /\ pc' = [pc EXCEPT ![c] = "writing"]
  /\ columns' = [columns EXCEPT ![c] = {f \in @ : entity[c][f] # row[f]}]
  /\ UNCHANGED <<row, priced, entity, overlap>>

End(c) ==
  /\ pc' = [pc EXCEPT ![c] = "idle"]
  /\ entity' = [entity EXCEPT ![c] = NoRow]
  /\ columns' = [columns EXCEPT ![c] = {}]
  /\ UNCHANGED <<priced, overlap>>

(* ... and UPDATEs the columns that differed. *)
Write(c) ==
  /\ pc[c] = "writing"
  /\ row' = [f \in Columns |-> IF f \in columns[c] THEN entity[c][f] ELSE row[f]]
  /\ End(c)

(* The call is refused or fails. *)
Fail(c) == pc[c] # "idle" /\ End(c) /\ UNCHANGED row

Serve(c) == PublishCheck(c) \/ Compare(c)

(* Calls of clients: they come, are answered or fail. *)
ClientNext(S) ==
  \/ \E start \in Times, end \in Times \cup {NoTime} : Create(start, end)
  \/ \E c \in S :
       \/ \E start, end \in Times \cup {NoTime} : Patch(c, start, end)
       \/ PublishRead(c) \/ Write(c) \/ Fail(c)
  \/ AddPrice

(* Nothing is published without a price, however publish, PATCH and pricing calls
   overlap and whatever they write back. *)
PublishedHasPrice == row.published => priced

(* 'Event times are invalid' (catalog.controller.ts): as long as no two calls have
   overlapped, no sequence of partial updates, each naming one time or both,
   leaves an event that ends before it starts. *)
TimesOrdered == ~overlap => Valid(row.start, row.end)

=============================================================================
