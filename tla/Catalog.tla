------------------------------- MODULE Catalog -------------------------------
(***************************************************************************)
(* An organizer fills in the form, other clients edit the same event, and  *)
(* a customer looks for events: EventEditing, EventForm and HomePage put   *)
(* together.                                                               *)
(***************************************************************************)
EXTENDS HomePage

vars == <<editVars, formVars, getVars, homeVars>>

TypeOK == EditTypeOK /\ FormTypeOK /\ GetTypeOK /\ HomeTypeOK

Init == EditInit /\ FormInit /\ GetInit /\ HomeInit

Next ==
  \/ FormStep /\ UNCHANGED <<getVars, homeVars>>
  \/ OthersStep /\ UNCHANGED <<getVars, homeVars>>
  \/ HomeStep /\ UNCHANGED <<editVars, formVars>>

Spec == Init /\ [][Next]_vars

(* Unless it shows an error, a page that has stopped loading shows the answer to the
   filters that are on it now, however often these changed while older calls were
   under way, were repeated or came back. *)
ListFitsFilters == ~loading /\ ~failed => list.from = from

=============================================================================
