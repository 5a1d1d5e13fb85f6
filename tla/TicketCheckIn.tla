----------------------------- MODULE TicketCheckIn -----------------------------
(***************************************************************************)
(* POST /api/tickets/:id/check-in (backend/src/tickets.controller.ts) as   *)
(* the gates of several events use it, while accounts sign in there and    *)
(* change their roles.  A gate is a device with one call at a time;        *)
(* tickets are shown at any gate, also again and also as a copy.           *)
(***************************************************************************)
EXTENDS Accounts, FiniteSets

CONSTANTS
  Tickets,
  NoTicket  \* the gate has no call

ASSUME TicketCheckInAssumption == NoTicket \notin Tickets /\ IsFiniteSet(Devices)

Gates == Devices

VARIABLES
  organizer,  \* organizer[t]: Event.organizerId of the event of t
  used,       \* tickets with checkedInAt
  entity,     \* entity[g]: the ticket that the call of g has read as unused
  admitted    \* admitted[t]: people let in with t

checkVars == <<organizer, used, entity, admitted>>
vars == <<accountVars, checkVars>>

(* A gate never lets two people in with one ticket, so there is a bound. *)
TypeOK ==
  /\ AccountsTypeOK
  /\ organizer \in [Tickets -> Users]
  /\ used \in SUBSET Tickets
  /\ entity \in [Gates -> Tickets \cup {NoTicket}]
  /\ admitted \in [Tickets -> 0..Cardinality(Gates)]

Init ==
  /\ AccountsInit
  /\ organizer \in [Tickets -> Users]
  /\ used = {}
  /\ entity = [g \in Gates |-> NoTicket]
  /\ admitted = [t \in Tickets |-> 0]

(* What the guard and the handler make of the claims; the table User is not asked. *)
MayCheck(g, t) ==
  /\ Guard(g, {"ORGANIZER", "ADMIN"})
  /\ claims[g].role = "ADMIN" \/ organizer[t] = claims[g].sub

ReadIf(g, t, accepted) ==
  /\ entity[g] = NoTicket
  /\ accepted
  /\ entity' = [entity EXCEPT ![g] = t]
  /\ UNCHANGED <<accountVars, organizer, used, admitted>>

(* Mutant: checkedInAt is not looked at. *)
ReadAlsoUsed(g, t) == ReadIf(g, t, MayCheck(g, t))

(* The ticket, its reservation and its event are read and the checks pass; a
   refused call changes nothing. *)
Read(g, t) == ReadIf(g, t, MayCheck(g, t) /\ t \notin used)

Finish(g, marks, lets) ==
  /\ entity[g] # NoTicket
  /\ used' = used \cup (IF marks THEN {entity[g]} ELSE {})
  /\ admitted' = [admitted EXCEPT ![entity[g]] = IF lets THEN @ + 1 ELSE @]
  /\ entity' = [entity EXCEPT ![g] = NoTicket]
  /\ UNCHANGED <<accountVars, organizer>>

(* Mutant: the save is not awaited, and may fail after the answer. *)
SaveLater(g) == \E marks \in BOOLEAN : Finish(g, marks, TRUE)

(* Mutant: the call is repeated after it was carried out, and is not read again. *)
SaveRepeats(g) ==
  /\ entity[g] # NoTicket
  /\ used' = used \cup {entity[g]}
  /\ admitted' = [admitted EXCEPT ![entity[g]] = @ + 1]
  /\ UNCHANGED <<accountVars, organizer, entity>>

Save(g) == Finish(g, TRUE, TRUE)

(* The UPDATE is done but the gate gets no answer; or it is not done. *)
SaveUnanswered(g) == Finish(g, TRUE, FALSE)
SaveFails(g) == Finish(g, FALSE, FALSE)

CheckStep(g) == (\E t \in Tickets : Read(g, t)) \/ Save(g) \/ SaveUnanswered(g) \/ SaveFails(g)

Next ==
  \/ \E g \in Gates : CheckStep(g)
  \/ AccountsStep /\ UNCHANGED checkVars

Spec == Init /\ [][Next]_vars

(* A ticket that is used, or that somebody was let in with, and that no gate is
   just checking, is used up: no gate begins to let anybody in with it again,
   after whatever failed or unanswered calls. *)
UsedUpForGood ==
  [][\A t \in Tickets :
       (t \in used \/ admitted[t] > 0) /\ (\A g \in Gates : entity[g] # t) =>
         /\ admitted'[t] = admitted[t]
         /\ \A g \in Gates : entity'[g] # t]_vars

(* A gate begins to let people in only for somebody who is on the staff, or was
   within the last hour: the role in a token outlives the role of the account no
   longer than the token, also when the role changes while the login that signs
   it is under way. *)
RightsEndInTime ==
  [][\A g \in Gates : entity[g] = NoTicket /\ entity'[g] # NoTicket =>
       \/ role[claims[g].sub] \in {"ORGANIZER", "ADMIN"}
       \/ since[claims[g].sub] < Hour]_vars

(* 'Ticket was already checked in' (tickets.controller.ts): nobody is let in with
   a ticket that somebody was let in with before. *)
AdmittedOnce == \A t \in Tickets : admitted[t] <= 1

=============================================================================
