------------------------------ MODULE EventPage ------------------------------
(***************************************************************************)
(* The way from the page of one event into the checkout, as one tab of the *)
(* browser goes it (frontend/src/components/EventPage.tsx, Login.tsx,      *)
(* auth.tsx, api.ts): choose seats, log in if necessary and come back,     *)
(* join, wait, reserve.                                                    *)
(*                                                                         *)
(* A flow is one run of reserve().  It goes on when its page is gone: the  *)
(* customer may be elsewhere, or on a new instance of the page, when it    *)
(* ends.  The server is seen only through its answers; WaitingRoom and     *)
(* Booking say what it does.  Other customers come and go, so any seat may *)
(* be free or not whenever the page asks, and any reservation be refused.  *)
(*                                                                         *)
(* The history of the tab is a list of entries with their location.state.  *)
(* Two entries of /events/:id that the customer steps between show one     *)
(* instance of the page; any other step mounts a new one.                  *)
(***************************************************************************)
EXTENDS FiniteSets, Naturals

CONSTANTS
  Seats,       \* fewer than the ten that can be selected
  MaxFlows,    \* bound on the runs of reserve() that go on at a time
  MaxLogins,   \* bound on the tokens that login issues
  MaxAsks,     \* bound on the clicks that have to log in first
  MaxHistory   \* entries that the browser keeps; the oldest one is dropped

ASSUME EventPageAssumption ==
  /\ MaxFlows \in Nat /\ MaxLogins \in Nat /\ MaxAsks \in Nat /\ MaxHistory \in Nat \ {0}

NoSession == 0
Flows == 1..MaxFlows

VARIABLES
  session,   \* token of the session in AuthProvider
  issued,    \* tokens issued so far
  dead,      \* tokens up to this one have expired
  hist,      \* the entries: a place, and the click whose choice state.resumeReservation
             \* asks to resume, 0 if it does not
  now,       \* the entry that is shown
  page,      \* state of the mounted instance of EventPage
  pending,   \* narm-pending-reservation in sessionStorage, {} for none
  flow,      \* flow[f]: what run f of reserve() waits for
  storage,   \* "works", or "denied" (every access throws)
  asks,      \* clicks so far that had to log in first
  answered   \* history: those for which the page went on after the login

sessionVars == <<session, issued, dead>>
placeVars == <<hist, now>>
askVars == <<asks, answered>>
vars == <<sessionVars, placeVars, page, pending, flow, storage, askVars>>

Entry == [place : {"event", "login", "other"}, resume : 0..MaxAsks]
At(place, ask) == [place |-> place, resume |-> ask]

NewPage == [loaded |-> FALSE, shown |-> {}, selected |-> {}, busy |-> FALSE, resumed |-> FALSE]

NoFlow == [at |-> "over", token |-> NoSession, here |-> FALSE]

TypeOK ==
  /\ session \in 0..issued /\ issued \in 0..MaxLogins /\ dead \in 0..issued
  /\ \E n \in 1..MaxHistory : hist \in [1..n -> Entry]
  /\ now \in DOMAIN hist
  /\ page \in [loaded : BOOLEAN, shown : SUBSET Seats, selected : SUBSET Seats,
               busy : BOOLEAN, resumed : BOOLEAN]
  /\ pending \in SUBSET Seats
  /\ flow \in [Flows -> [at : {"join", "poll", "reserve", "accepted", "denied", "over"},
                         token : 0..issued, here : BOOLEAN]]
  /\ storage \in {"works", "denied"}
  /\ asks \in 0..MaxAsks /\ answered \in SUBSET (1..asks)

Init ==
  /\ session = NoSession /\ issued = 0 /\ dead = 0
  /\ hist = [i \in 1..1 |-> At("event", 0)] /\ now = 1
  /\ page = NewPage
  /\ pending = {}
  /\ flow = [f \in Flows |-> NoFlow]
  /\ storage \in {"works", "denied"}
  /\ asks = 0 /\ answered = {}

Here == hist[now]
Screen == Here.place

(***************************************************************************)
(* The page                                                                *)
(***************************************************************************)

(* The effect that resumes a reservation is going to run at once. *)
EffectDue ==
  Screen = "event" /\ page.loaded /\ session # NoSession /\ Here.resume # 0 /\ ~page.resumed

OnPage == Screen = "event" /\ page.loaded /\ ~EffectDue

(* The page is unmounted, and none or a new one mounted; its flows go on. *)
Abandoned == [f \in Flows |-> [flow[f] EXCEPT !.here = FALSE]]
Unmount == page' = NewPage /\ flow' = Abandoned

Push(e) ==
  LET n == IF now = MaxHistory THEN now ELSE now + 1 IN
  /\ hist' = [i \in 1..n |-> IF i = n THEN e ELSE hist[i + now + 1 - n]]
  /\ now' = n

Replace(e) == hist' = [hist EXCEPT ![now] = e] /\ now' = now

(* GET /events/:id, every ten seconds *)
Refresh(free) ==
  /\ Screen = "event"
  /\ page' = [page EXCEPT !.loaded = TRUE, !.shown = free, !.selected = @ \cap free]
  /\ UNCHANGED <<sessionVars, placeVars, pending, flow, storage, askVars>>

Toggle(s) ==
  /\ OnPage /\ s \in page.shown
  /\ page' = [page EXCEPT !.selected = IF s \in @ THEN @ \ {s} ELSE @ \cup {s}]
  /\ UNCHANGED <<sessionVars, placeVars, pending, flow, storage, askVars>>

(* reserve(chosen) with a session; the page is busy *)
Start(chosen, resumed) ==
  /\ \E f \in Flows : flow[f].at = "over"
  /\ flow' = [flow EXCEPT ![CHOOSE f \in Flows : flow[f].at = "over"] =
                [at |-> "join", token |-> session, here |-> TRUE]]
  /\ page' = [page EXCEPT !.selected = chosen, !.busy = TRUE, !.resumed = resumed]

ClickReserveIf(ready) ==
  /\ OnPage /\ page.selected # {} /\ ready
  /\ session # NoSession
  /\ Start(page.selected, page.resumed)
  /\ UNCHANGED <<sessionVars, placeVars, pending, storage, askVars>>

(* Mutant: the button is not disabled while a flow runs. *)
ClickReserveAgain == ClickReserveIf(TRUE)

ClickReserve == ClickReserveIf(~page.busy)

(* reserve() without a session: the choice is stored, and the login page told
   to lead back. *)
ClickLogIn ==
  /\ OnPage /\ page.selected # {} /\ ~page.busy
  /\ session = NoSession
  /\ asks < MaxAsks /\ asks' = asks + 1
  /\ pending' = IF storage = "works" THEN page.selected ELSE pending
  /\ Push(At("login", asks + 1)) /\ Unmount
  /\ UNCHANGED <<sessionVars, storage, answered>>

(* The effect: what is still free of the stored choice is reserved. *)
ResumeLeaving(state) ==
  /\ EffectDue
  /\ Replace(At("event", state))
  /\ answered' = answered \cup {Here.resume}
  /\ LET available == pending \cap page.shown IN
       IF available # {}
       THEN Start(available, TRUE) /\ UNCHANGED pending
       ELSE /\ page' = [page EXCEPT !.resumed = TRUE]
            /\ pending' = {}
            /\ UNCHANGED flow
  /\ UNCHANGED <<sessionVars, storage, asks>>

(* Mutant: the entry of the history keeps its state. *)
ResumeKeepingState == ResumeLeaving(Here.resume)

Resume == ResumeLeaving(0)

(***************************************************************************)
(* The rest of the tab                                                     *)
(***************************************************************************)

(* A link to another page, or to the login page, which then leads nowhere else *)
Leave(place) ==
  /\ ~EffectDue
  /\ Screen # place
  /\ place = "login" => session = NoSession
  /\ Push(At(place, 0)) /\ Unmount
  /\ UNCHANGED <<sessionVars, pending, storage, askVars>>

(* The same link on the login page replaces its entry. *)
LinkToSelf ==
  /\ Screen = "login" /\ Replace(At("login", 0))
  /\ UNCHANGED <<sessionVars, page, pending, flow, storage, askVars>>

(* A link to the event, or a cancel() that outlived the checkout page and may find
   the tab on the event page *)
Come ==
  /\ ~EffectDue
  /\ Push(At("event", 0))
  /\ IF Screen = "event" THEN UNCHANGED <<page, flow>> ELSE Unmount
  /\ UNCHANGED <<sessionVars, pending, storage, askVars>>

(* Where login leads *)
Returned(e) == IF e.resume # 0 THEN At("event", e.resume) ELSE At("other", 0)

(* Back, Forward and the list of entries; a login page that finds a session leads on
   at once. *)
Go(i) ==
  /\ ~EffectDue
  /\ i \in DOMAIN hist \ {now} /\ now' = i
  /\ hist' = IF hist[i].place = "login" /\ session # NoSession
             THEN [hist EXCEPT ![i] = Returned(@)] ELSE hist
  /\ IF Screen = "event" /\ hist[i].place = "event" THEN UNCHANGED <<page, flow>> ELSE Unmount
  /\ UNCHANGED <<sessionVars, pending, storage, askVars>>

(* The page is loaded again: all flows end, the session is read from
   localStorage, the state of the entry stays. *)
Reload ==
  /\ page' = NewPage
  /\ flow' = [f \in Flows |-> NoFlow]
  /\ session' = IF storage = "works" /\ session > dead THEN session ELSE NoSession
  /\ UNCHANGED <<issued, dead, placeVars, pending, storage, askVars>>

(* The login call, as one step *)
LogIn ==
  /\ Screen = "login" /\ session = NoSession
  /\ issued < MaxLogins
  /\ issued' = issued + 1 /\ session' = issued + 1
  /\ Replace(Returned(Here))
  /\ UNCHANGED <<dead, page, pending, flow, storage, askVars>>

EndSession ==
  /\ session # NoSession /\ session' = NoSession
  /\ UNCHANGED <<issued, dead, placeVars, page, pending, flow, storage, askVars>>

SignOut == ~EffectDue /\ EndSession

(* Any other request with an expired token is answered by 401. *)
OtherDenied == session <= dead /\ EndSession

TokenExpires ==
  /\ dead < issued /\ dead' = dead + 1
  /\ UNCHANGED <<session, issued, placeVars, page, pending, flow, storage, askVars>>

(***************************************************************************)
(* A flow                                                                  *)
(***************************************************************************)
Accepts(f, at) == flow[f].at = at /\ flow[f].token > dead

Proceed(f, at, busy) ==
  /\ flow' = [flow EXCEPT ![f].at = at]
  /\ page' = IF flow[f].here THEN [page EXCEPT !.busy = busy] ELSE page
  /\ UNCHANGED <<sessionVars, placeVars, pending, storage, askVars>>

(* The join call finds or makes an entry, which is queued ... *)
Queued(f) == Accepts(f, "join") /\ Proceed(f, "poll", page.busy)

(* ... or admitted, then or when the flow asks again. *)
Admitted(f) == (Accepts(f, "join") \/ Accepts(f, "poll")) /\ Proceed(f, "reserve", TRUE)

(* The reservation is made; the answer is on its way. *)
Accepted(f) == Accepts(f, "reserve") /\ Proceed(f, "accepted", page.busy)

(* The guard finds the token expired; the answer is on its way. *)
DeniedIf(f, refused) ==
  /\ flow[f].at \in {"join", "poll", "reserve"} /\ refused
  /\ Proceed(f, "denied", page.busy)

(* Mutant: a refused reservation (403) is taken for a refused token (401). *)
DeniedAlsoForbidden(f) == DeniedIf(f, flow[f].token <= dead \/ flow[f].at = "reserve")

Denied(f) == DeniedIf(f, flow[f].token <= dead)

(* The catch block *)
End(f) ==
  /\ flow' = [flow EXCEPT ![f] = NoFlow]
  /\ page' = IF flow[f].here THEN [page EXCEPT !.busy = FALSE] ELSE page

(* 401: the session ends, whichever token it has by now. *)
DeniedArrives(f) ==
  /\ flow[f].at = "denied"
  /\ session' = NoSession
  /\ End(f)
  /\ UNCHANGED <<issued, dead, placeVars, pending, storage, askVars>>

FailsAt(f, places) ==
  /\ flow[f].at \in places
  /\ End(f)
  /\ UNCHANGED <<sessionVars, placeVars, pending, storage, askVars>>

(* Mutant: the number of attempts has no bound. *)
FailsUnlessQueued(f) == FailsAt(f, {"join", "reserve", "accepted", "denied"})

(* The call is refused (403, 409), fails, is not answered in 15 seconds, or it
   was the last of 60 attempts. *)
Fails(f) == FailsAt(f, {"join", "poll", "reserve", "accepted", "denied"})

(* The tab goes to the checkout from wherever it is. *)
Arrives(f) ==
  /\ flow[f].at = "accepted" /\ storage = "works"
  /\ Push(At("other", 0))
  /\ page' = NewPage
  /\ pending' = {}
  /\ flow' = [Abandoned EXCEPT ![f] = NoFlow]
  /\ UNCHANGED <<sessionVars, storage, askVars>>

(* setItem throws: the reservation exists, and the page shows an error. *)
ArrivesUnstored(f) == flow[f].at = "accepted" /\ storage = "denied" /\ Fails(f)

FlowStep(f) ==
  \/ Queued(f) \/ Admitted(f) \/ Accepted(f) \/ Denied(f)
  \/ DeniedArrives(f) \/ Fails(f) \/ Arrives(f) \/ ArrivesUnstored(f)

Next ==
  \/ \E free \in SUBSET Seats : Refresh(free)
  \/ \E s \in Seats : Toggle(s)
  \/ ClickReserve \/ ClickLogIn \/ Resume
  \/ \E place \in {"login", "other"} : Leave(place)
  \/ LinkToSelf \/ Come
  \/ \E i \in 1..MaxHistory : Go(i)
  \/ Reload \/ LogIn \/ SignOut \/ OtherDenied \/ TokenExpires
  \/ \E f \in Flows : FlowStep(f)

(* A call that is not answered is given up after 15 seconds, and an entry that is
   not admitted after 60 attempts. *)
Spec == Init /\ [][Next]_vars /\ \A f \in Flows : WF_vars(Fails(f))

(***************************************************************************)
(* Properties                                                              *)
(***************************************************************************)

(* A click that had to log in first is answered by at most one run of reserve() that
   the page starts by itself, whatever reloads, steps through the history, abandoned
   flows and further logins come in between.  (It reserves the choice stored last:
   that may be the one of a later click, which is then reserved once for each.) *)
ResumedOnce ==
  [][EffectDue /\ (\E f \in Flows : flow[f].at = "over" /\ flow'[f].at = "join")
       => Here.resume \notin answered]_vars

(* The flows that the mounted page has started and that are not over *)
Running == {f \in Flows : flow[f].here}

(* The button is disabled while the page runs a flow, and enabled when it runs none,
   whatever flows of earlier pages are still under way.  (Once a page has resumed, a
   second flow may run beside the first: the effect does not look whether the page is
   busy, and the first one to fail enables the button.  There is no third.) *)
FlowsOfThePage ==
  LET least == IF page.busy THEN 1 ELSE 0 IN
  Cardinality(Running) \in least..(IF page.resumed THEN least + 1 ELSE least)

(* A page that is busy becomes usable again. *)
BusyEnds == page.busy ~> ~page.busy

(* A flow closes a session whose token is still good only by the late answer to
   an older token: the flow of a page that was left before the new login. *)
GoodSessionStays ==
  [][session > dead /\ session' = NoSession /\ flow' # flow /\ storage = "works"
       => \E f \in Flows : flow[f].at = "denied" /\ flow[f].token < session]_vars

=============================================================================
