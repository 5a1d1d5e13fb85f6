------------------------------ MODULE EventForm ------------------------------
(***************************************************************************)
(* The form that creates, prices and publishes an event in three calls     *)
(* (frontend/src/components/EventForm.tsx), next to everybody else who     *)
(* edits the event.                                                        *)
(*                                                                         *)
(* submit() sends the calls that are still missing, one after the other.   *)
(* Whatever goes wrong with one of them ends it and leaves the form as it  *)
(* is; a call whose answer is lost may have been carried out.  An event    *)
(* that was created and not answered for is nobody's draft and has no part *)
(* in the model; a pricing or publish call that still runs is one of those *)
(* that EventEditing has anyway.                                           *)
(***************************************************************************)
EXTENDS EventEditing

CONSTANT MaxSteps  \* bound on answers counted per kind of call

ASSUME EventFormAssumption == MaxSteps \in Nat

VARIABLES
  step,          \* the call that submit() awaits, or "idle" (loading = false)
  draft,         \* the form has a draft: the event of EventEditing
  pricingReady,  \* its pricing call was answered
  slot,          \* the call of EventEditing that the form's publish is
  answered,      \* history: creations and prices that were carried out and answered
  done           \* the form has reported success, and is empty again

formVars == <<step, draft, pricingReady, slot, answered, done>>

FormTypeOK ==
  /\ step \in {"idle", "create", "price", "publish"}
  /\ draft \in BOOLEAN /\ pricingReady \in BOOLEAN /\ done \in BOOLEAN
  /\ slot \in Calls \cup {NoCall}
  /\ answered \in [{"create", "price"} -> 0..MaxSteps]

FormInit ==
  /\ step = "idle"
  /\ draft = FALSE /\ pricingReady = FALSE /\ done = FALSE
  /\ slot = NoCall
  /\ answered = [k \in {"create", "price"} |-> 0]

(* The event is made by this form or by another client; one event is modelled. *)
Submit ==
  /\ step = "idle" /\ ~done
  /\ Exists => draft
  /\ step' = IF ~draft THEN "create" ELSE IF ~pricingReady THEN "price" ELSE "publish"
  /\ UNCHANGED <<editVars, draft, pricingReady, slot, answered, done>>

Count(k) ==
  /\ answered[k] < MaxSteps
  /\ answered' = [answered EXCEPT ![k] = @ + 1]

(* POST /events is answered: setDraft.  The form sends no endsAt. *)
FormCreates ==
  /\ step = "create"
  /\ \E start \in Times : Create(start, NoTime)
  /\ Count("create")
  /\ step' = "price" /\ draft' = TRUE
  /\ UNCHANGED <<pricingReady, slot, done>>

(* POST /events/:id/pricing is answered: setPricingReady. *)
FormPrices ==
  /\ step = "price"
  /\ AddPrice
  /\ Count("price")
  /\ step' = "publish" /\ pricingReady' = TRUE
  /\ UNCHANGED <<draft, slot, done>>

(* POST /events/:id/publish reaches the server. *)
FormPublishes(c) ==
  /\ step = "publish" /\ slot = NoCall
  /\ PublishRead(c)
  /\ slot' = c
  /\ UNCHANGED <<step, draft, pricingReady, answered, done>>

(* It is answered: done(event), and the form is emptied. *)
FormDone ==
  /\ slot # NoCall
  /\ Write(slot)
  /\ step' = "idle" /\ slot' = NoCall /\ done' = TRUE
  /\ draft' = FALSE /\ pricingReady' = FALSE
  /\ UNCHANGED answered

(* catch and finally: only the error and loading change.  A publish call that was
   given up goes on without the form. *)
Back(keeps) ==
  /\ step' = "idle" /\ slot' = NoCall
  /\ draft' = (draft /\ keeps) /\ pricingReady' = (pricingReady /\ keeps)
  /\ UNCHANGED <<answered, done>>

(* Mutant: the catch block empties the form. *)
FormForgets == step # "idle" /\ Back(FALSE) /\ row' = NoRow /\ UNCHANGED <<priced, pc, entity, columns, overlap>>

FormFails == step # "idle" /\ Back(TRUE) /\ UNCHANGED editVars

FormRefused == slot # NoCall /\ Fail(slot) /\ Back(TRUE)

(* The price is saved and the form does not hear of it. *)
PriceUnanswered == step = "price" /\ AddPrice /\ Back(TRUE)

FormStep ==
  \/ Submit \/ FormCreates \/ FormPrices \/ FormDone
  \/ FormFails \/ FormRefused \/ PriceUnanswered
  \/ \E c \in Calls : FormPublishes(c)

(* Steps of the server, and of everybody else *)
OthersStep ==
  /\ \/ \E c \in Calls : Serve(c)
     \/ step # "create" /\ ClientNext(Calls \ {slot})
  /\ UNCHANGED formVars

(* The form repeats a call only when its answer was lost: refusals, failures of later
   calls and any number of new attempts make no second event and no second price.
   (A call that was carried out and not answered is repeated.) *)
NoStepTwice == \A k \in {"create", "price"} : answered[k] <= 1

(* "The event was priced and published" (Manage.tsx): the event that the form has
   reported has a price and is public, and stays so whatever updates follow, as
   long as no two calls overlapped. *)
DoneStaysPublic == done /\ ~overlap => row.published /\ priced

=============================================================================
