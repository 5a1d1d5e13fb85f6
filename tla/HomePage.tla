------------------------------- MODULE HomePage -------------------------------
(***************************************************************************)
(* The list of events (frontend/src/components/Home.tsx) while a customer  *)
(* changes the filters, and GET /events behind it                          *)
(* (backend/src/catalog.controller.ts).  The filter "from" stands for all  *)
(* of them, and one event for the list.                                    *)
(***************************************************************************)
EXTENDS EventForm, GetRequest

CONSTANT Filters  \* what the customer may choose as "from"; NoTime: nothing

Home == "home"

ASSUME HomeAssumption ==
  Home \in Effects /\ NoTime \in Filters /\ Filters \subseteq Times \cup {NoTime}

VARIABLES
  from,     \* the filter on the screen
  timer,    \* the 250 ms before the list is fetched are running
  loading,  \* the page says that it loads
  failed,   \* it shows an error
  list      \* the last answer: its filter, and whether the event is in it

homeVars == <<from, timer, loading, failed, list>>

HomeTypeOK ==
  /\ from \in Filters
  /\ timer \in BOOLEAN /\ loading \in BOOLEAN /\ failed \in BOOLEAN
  /\ list \in [from : Filters, has : BOOLEAN]

(* The effect has run for the first time. *)
HomeInit ==
  /\ from = NoTime
  /\ timer = TRUE /\ loading = TRUE /\ failed = FALSE
  /\ list = [from |-> NoTime, has |-> FALSE]

(* The effect is cleaned up and runs again. *)
RunAgain ==
  /\ timer' = TRUE /\ loading' = TRUE
  /\ Abort(Home)

ChangeFilter ==
  /\ from' \in Filters \ {from}
  /\ RunAgain
  /\ UNCHANGED <<failed, list>>

TimerFires ==
  /\ timer /\ timer' = FALSE
  /\ failed' = FALSE
  /\ Send(Home)
  /\ UNCHANGED <<from, loading, list>>

(* GET /events: published events from a date on *)
Listed == row.published /\ row.start >= from

(* The server computes the answer and the page gets it in one step: in between, a
   change of the filters would abort the call. *)
HomeAnswers ==
  /\ Return(Home)
  /\ list' = [from |-> from, has |-> Listed] /\ loading' = FALSE
  /\ UNCHANGED <<from, timer, failed>>

(* The events of the last answer stay. *)
HomeFails ==
  /\ Return(Home)
  /\ failed' = TRUE /\ loading' = FALSE
  /\ UNCHANGED <<from, timer, list>>

(* Mutant: catch and finally do not ask whether the effect is active. *)
HomeRejectsInactive ==
  Reject(Home) /\ failed' = TRUE /\ loading' = FALSE /\ UNCHANGED <<from, timer, list>>

(* catch and finally of an effect that is no longer active *)
HomeRejects == Reject(Home) /\ UNCHANGED homeVars

HomeWaits == (Pause(Home) \/ Resend(Home)) /\ UNCHANGED homeVars

HomeStep ==
  ChangeFilter \/ TimerFires \/ HomeAnswers \/ HomeFails \/ HomeRejects \/ HomeWaits

=============================================================================
