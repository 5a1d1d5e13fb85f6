---------------------------- MODULE EventPageProofs ----------------------------
(***************************************************************************)
(* Theorems about EventPage, for any number of seats, runs of reserve(),   *)
(* logins, clicks and entries of the history, with storage working or      *)
(* denied.                                                                 *)
(***************************************************************************)
EXTENDS EventPage, FiniteSetTheorems, TLAPS

PageType ==
  [loaded : BOOLEAN, shown : SUBSET Seats, selected : SUBSET Seats,
   busy : BOOLEAN, resumed : BOOLEAN]

FlowType(n) ==
  [at : {"join", "poll", "reserve", "accepted", "denied", "over"},
   token : 0..n, here : BOOLEAN]

(* A flow that is over belongs to no page. *)
OverIsGone == \A f \in Flows : flow[f].at = "over" => ~flow[f].here

(* A flow is denied only with a token that has expired. *)
DeniedIsDead == \A f \in Flows : flow[f].at = "denied" => flow[f].token <= dead

(* No two entries of the history ask to resume for the same click, and none for a
   click for which the page has gone on, or that is still to come. *)
AsksOnce ==
  /\ \A i \in DOMAIN hist : hist[i].resume \in 0..asks /\ hist[i].resume \notin answered
  /\ \A i, k \in DOMAIN hist : hist[i].resume = hist[k].resume /\ hist[i].resume # 0 => i = k

IInv == TypeOK /\ FlowsOfThePage /\ OverIsGone /\ DeniedIsDead /\ AsksOnce

-----------------------------------------------------------------------------
LEMMA Typed ==
  TypeOK => /\ page \in PageType /\ flow \in [Flows -> FlowType(issued)]
            /\ issued \in Nat /\ session \in Nat /\ dead \in Nat /\ asks \in Nat
            /\ now \in DOMAIN hist /\ DOMAIN hist \subseteq 1..MaxHistory
            /\ \A i \in DOMAIN hist : hist[i] \in Entry
BY EventPageAssumption DEF TypeOK, PageType, FlowType

LEMMA FreshTyped ==
  /\ NewPage \in PageType /\ ~NewPage.busy /\ ~NewPage.resumed
  /\ \A n \in Nat : NoFlow \in FlowType(n)
  /\ ~NoFlow.here /\ NoFlow.at = "over"
BY DEF NewPage, NoFlow, NoSession, PageType, FlowType

LEMMA EntryTyped ==
  ASSUME NEW place \in {"event", "login", "other"}, NEW ask \in 0..MaxAsks
  PROVE  At(place, ask) \in Entry /\ At(place, ask).resume = ask
BY DEF At, Entry

LEMMA RunningFinite == IsFiniteSet(Running) /\ Cardinality(Running) \in Nat
<1>1. IsFiniteSet(Flows)
  BY FS_Interval, EventPageAssumption DEF Flows
<1>2. IsFiniteSet(Running)
  BY <1>1, FS_Subset DEF Running
<1> QED
  BY <1>2, FS_CardinalityType

-----------------------------------------------------------------------------
(* The page and the flows that it shows change together, or not at all. *)
LEMMA RunningStays ==
  ASSUME IInv, page' \in PageType, page'.busy = page.busy,
         page'.resumed = page.resumed \/ page'.resumed = TRUE,
         \A f \in Flows : flow'[f].here = flow[f].here
  PROVE  FlowsOfThePage'
<1>1. Running' = Running
  BY DEF Running
<1>2. page \in PageType /\ FlowsOfThePage
  BY Typed DEF IInv
<1> QED
  BY <1>1, <1>2, RunningFinite DEF FlowsOfThePage, PageType

LEMMA NoneRunning ==
  ASSUME page' = NewPage, \A f \in Flows : ~flow'[f].here
  PROVE  FlowsOfThePage'
<1>1. Running' = {}
  BY DEF Running
<1>2. Cardinality(Running') = 0
  BY <1>1, FS_EmptySet
<1> QED
  BY <1>2, FreshTyped DEF FlowsOfThePage

LEMMA InitIInv == Init => IInv
<1> SUFFICES ASSUME Init PROVE IInv
  OBVIOUS
<1> USE EventPageAssumption DEF Init
<1>1. flow \in [Flows -> FlowType(issued)] /\ page \in PageType
  BY FreshTyped
<1>2. /\ hist \in [1..1 -> Entry] /\ now \in DOMAIN hist /\ 1 \in 1..MaxHistory
      /\ \A i \in DOMAIN hist : i = 1 /\ hist[i].resume = 0
  BY EntryTyped
<1>3. TypeOK
  <2>1. /\ session \in 0..issued /\ issued \in 0..MaxLogins /\ dead \in 0..issued
        /\ pending \in SUBSET Seats /\ asks \in 0..MaxAsks /\ answered \in SUBSET (1..asks)
        /\ storage \in {"works", "denied"}
    BY DEF NoSession
  <2> QED
    BY <1>1, <1>2, <2>1 DEF TypeOK, PageType, FlowType
<1>4. FlowsOfThePage
  <2>1. Running = {}
    BY FreshTyped DEF Running
  <2> QED
    BY <2>1, FS_EmptySet, FreshTyped DEF FlowsOfThePage
<1>5. OverIsGone /\ DeniedIsDead /\ AsksOnce
  BY <1>2, FreshTyped DEF OverIsGone, DeniedIsDead, AsksOnce
<1> QED
  BY <1>3, <1>4, <1>5 DEF IInv

-----------------------------------------------------------------------------
(* The seats are shown again or chosen: the flows go on. *)
LEMMA ViewIInv ==
  ASSUME IInv,
         \/ \E free \in SUBSET Seats : Refresh(free)
         \/ \E s \in Seats : Toggle(s)
  PROVE  IInv'
<1> USE DEF sessionVars, placeVars, askVars
<1>1. page \in PageType
  BY Typed DEF IInv
<1>2. UNCHANGED <<session, issued, dead, hist, now, pending, flow, storage, asks, answered>>
  BY DEF Refresh, Toggle
<1>3. page' \in PageType /\ page'.busy = page.busy /\ page'.resumed = page.resumed
  <2>1. CASE \E free \in SUBSET Seats : Refresh(free)
    <3>1. PICK free \in SUBSET Seats :
            page' = [page EXCEPT !.loaded = TRUE, !.shown = free, !.selected = page.selected \cap free]
      BY <2>1 DEF Refresh
    <3>2. page.selected \cap free \in SUBSET Seats
      OBVIOUS
    <3> QED
      BY <1>1, <3>1, <3>2 DEF PageType
  <2>2. CASE \E s \in Seats : Toggle(s)
    <3>1. PICK s \in Seats :
            page' = [page EXCEPT !.selected =
                       IF s \in page.selected THEN page.selected \ {s} ELSE page.selected \cup {s}]
      BY <2>2 DEF Toggle
    <3> QED
      BY <1>1, <3>1 DEF PageType
  <2> QED
    BY <2>1, <2>2
<1>4. TypeOK'
  BY <1>2, <1>3 DEF IInv, TypeOK, PageType
<1>5. FlowsOfThePage'
  BY <1>2, <1>3, RunningStays
<1> QED
  BY <1>2, <1>4, <1>5 DEF IInv, OverIsGone, DeniedIsDead, AsksOnce

-----------------------------------------------------------------------------
(* What becomes of the history *)

(* A new entry asks for nothing, or for a new click. *)
LEMMA PushAsks ==
  ASSUME IInv, NEW e \in Entry, Push(e), asks' \in 0..MaxAsks, asks <= asks',
         UNCHANGED answered, e.resume = 0 \/ (e.resume = asks' /\ asks' = asks + 1)
  PROVE  /\ \E n \in 1..MaxHistory : hist' \in [1..n -> Entry]
         /\ now' \in DOMAIN hist' /\ AsksOnce'
<1> DEFINE n == IF now = MaxHistory THEN now ELSE now + 1
           d == now + 1 - n
<1>1. /\ asks \in Nat /\ answered \in SUBSET (1..asks)
      /\ \A i \in DOMAIN hist : hist[i] \in Entry
  BY Typed DEF IInv, TypeOK
<1>2. PICK m \in 1..MaxHistory : hist \in [1..m -> Entry] /\ now \in 1..m
  BY DEF IInv, TypeOK
<1>3. n \in 1..MaxHistory /\ d \in {0, 1} /\ now + 1 = n + d /\ m \in Nat /\ now \in Nat /\ n \in Nat
  BY <1>2, EventPageAssumption
<1>4. hist' = [i \in 1..n |-> IF i = n THEN e ELSE hist[i + d]] /\ now' = n
  <2>1. \A i \in 1..n : i + now + 1 - n = i + d
    BY <1>3
  <2> QED
    BY <2>1 DEF Push
<1> HIDE DEF n, d
<1>5. \A i \in 1..n : i # n => i + d \in 1..m
  BY <1>2, <1>3
<1>6. hist' \in [1..n -> Entry] /\ now' \in DOMAIN hist'
  BY <1>2, <1>3, <1>4, <1>5
<1>7. \A i \in 1..n : hist'[i] = IF i = n THEN e ELSE hist[i + d]
  BY <1>4
<1>8. \A i \in 1..m : hist[i].resume \in 0..asks /\ hist[i].resume \notin answered
  BY <1>2 DEF IInv, AsksOnce
<1>9. e.resume \in 0..asks' /\ e.resume \notin answered
  BY <1>1
<1>10. \A i \in 1..n : hist'[i].resume \in 0..asks' /\ hist'[i].resume \notin answered'
  <2> SUFFICES ASSUME NEW i \in 1..n
               PROVE  hist'[i].resume \in 0..asks' /\ hist'[i].resume \notin answered
    OBVIOUS
  <2>1. CASE i = n
    BY <1>7, <1>9, <2>1
  <2>2. CASE i # n
    BY <1>1, <1>5, <1>7, <1>8, <2>2
  <2> QED
    BY <2>1, <2>2
<1>11. ASSUME NEW i \in 1..n, NEW k \in 1..n, hist'[i].resume = hist'[k].resume, hist'[i].resume # 0
       PROVE  i = k
  <2>1. e.resume # 0 => \A l \in 1..m : hist[l].resume # e.resume
    BY <1>1, <1>8
  <2>2. CASE i = n \/ k = n
    BY <1>5, <1>7, <1>11, <2>1, <2>2
  <2>3. CASE i # n /\ k # n
    <3>1. i + d = k + d
      BY <1>2, <1>5, <1>7, <1>11, <2>3 DEF IInv, AsksOnce
    <3> QED
      BY <1>3, <3>1
  <2> QED
    BY <2>2, <2>3
<1>12. DOMAIN hist' = 1..n
  BY <1>6
<1>13. AsksOnce'
  BY <1>10, <1>11, <1>12 DEF AsksOnce
<1> QED
  BY <1>3, <1>6, <1>13

(* An entry is replaced by one that asks for the same or for nothing. *)
LEMMA ReplaceAsks ==
  ASSUME IInv, NEW j \in DOMAIN hist, NEW e \in Entry, hist' = [hist EXCEPT ![j] = e],
         now' \in DOMAIN hist, UNCHANGED asks,
         \/ e.resume = hist[j].resume /\ answered' = answered
         \/ e.resume = 0 /\ answered' \in {answered, answered \cup {hist[j].resume}} /\ 0 \notin answered'
  PROVE  /\ \E n \in 1..MaxHistory : hist' \in [1..n -> Entry]
         /\ now' \in DOMAIN hist' /\ AsksOnce'
<1>1. PICK m \in 1..MaxHistory : hist \in [1..m -> Entry]
  BY DEF IInv, TypeOK
<1>2. /\ hist' \in [1..m -> Entry] /\ DOMAIN hist = 1..m /\ DOMAIN hist' = 1..m
      /\ hist'[j] = e /\ \A i \in 1..m \ {j} : hist'[i] = hist[i]
  BY <1>1
<1>3. asks \in Nat /\ \A i \in 1..m : hist[i].resume \in 0..asks /\ hist[i].resume \notin answered
  BY <1>2, Typed DEF IInv, AsksOnce
<1>4. \A i, k \in 1..m : hist[i].resume = hist[k].resume /\ hist[i].resume # 0 => i = k
  BY <1>2 DEF IInv, AsksOnce
<1>5. CASE e.resume = hist[j].resume /\ answered' = answered
  <2>1. \A i \in 1..m : hist'[i].resume = hist[i].resume
    BY <1>2, <1>5
  <2> QED
    BY <1>1, <1>2, <1>3, <1>4, <1>5, <2>1 DEF AsksOnce
<1>6. CASE e.resume = 0 /\ answered' \in {answered, answered \cup {hist[j].resume}} /\ 0 \notin answered'
  <2>1. \A i \in 1..m : hist'[i].resume = IF i = j THEN 0 ELSE hist[i].resume
    BY <1>2, <1>6
  <2>2. \A i \in 1..m : hist'[i].resume \in 0..asks /\ hist'[i].resume \notin answered'
    BY <1>2, <1>3, <1>4, <1>6, <2>1
  <2>3. \A i, k \in 1..m : hist'[i].resume = hist'[k].resume /\ hist'[i].resume # 0 => i = k
    BY <1>4, <2>1
  <2> QED
    BY <1>1, <1>2, <2>2, <2>3 DEF AsksOnce
<1> QED
  BY <1>5, <1>6

-----------------------------------------------------------------------------
(* The way through the history leaves flows as they are, or ends some of them. *)
LEMMA MovedIInv ==
  ASSUME IInv, UNCHANGED <<issued, dead, storage>>, session' \in 0..issued,
         page' \in PageType, pending' \in SUBSET Seats, FlowsOfThePage',
         flow' \in [Flows -> FlowType(issued)],
         \A f \in Flows : \/ flow'[f].at = flow[f].at /\ flow'[f].token = flow[f].token
                          \/ flow'[f].at = "over",
         \A f \in Flows : flow'[f].at = "over" => ~flow'[f].here,
         \E n \in 1..MaxHistory : hist' \in [1..n -> Entry], now' \in DOMAIN hist', AsksOnce',
         asks' \in 0..MaxAsks, answered' \in SUBSET (1..asks')
  PROVE  IInv'
<1>1. TypeOK'
  BY DEF IInv, TypeOK, PageType, FlowType
<1>2. OverIsGone' /\ DeniedIsDead'
  BY DEF IInv, OverIsGone, DeniedIsDead
<1> QED
  BY <1>1, <1>2 DEF IInv

LEMMA AbandonedTyped ==
  ASSUME IInv
  PROVE  /\ Abandoned \in [Flows -> FlowType(issued)]
         /\ \A f \in Flows : /\ ~Abandoned[f].here
                             /\ Abandoned[f].at = flow[f].at /\ Abandoned[f].token = flow[f].token
BY Typed DEF IInv, Abandoned, FlowType

(* The page stays, or another instance comes, which shows no flow. *)
LEMMA PageMoves ==
  ASSUME IInv, UNCHANGED <<page, flow>> \/ Unmount
  PROVE  /\ page' \in PageType /\ FlowsOfThePage' /\ flow' \in [Flows -> FlowType(issued)]
         /\ \A f \in Flows : \/ flow'[f].at = flow[f].at /\ flow'[f].token = flow[f].token
                             \/ flow'[f].at = "over"
         /\ \A f \in Flows : flow'[f].at = "over" => ~flow'[f].here
<1>1. page \in PageType /\ flow \in [Flows -> FlowType(issued)]
  BY Typed DEF IInv
<1>2. CASE UNCHANGED <<page, flow>>
  <2>1. FlowsOfThePage'
    BY <1>1, <1>2, RunningStays
  <2> QED
    BY <1>1, <1>2, <2>1 DEF IInv, OverIsGone
<1>3. CASE Unmount
  <2>1. page' = NewPage /\ flow' = Abandoned
    BY <1>3 DEF Unmount
  <2>2. FlowsOfThePage'
    BY <2>1, AbandonedTyped, NoneRunning
  <2> QED
    BY <2>1, <2>2, AbandonedTyped, FreshTyped
<1> QED
  BY <1>2, <1>3

(* Links, the login link of reserve(), and the way back *)
LEMMA LeaveIInv ==
  ASSUME IInv,
         ClickLogIn \/ Come \/ \E place \in {"login", "other"} : Leave(place)
  PROVE  IInv'
<1> USE DEF sessionVars, askVars
<1>1. /\ session \in 0..issued /\ asks \in 0..MaxAsks /\ answered \in SUBSET (1..asks)
      /\ asks \in Nat /\ pending \in SUBSET Seats /\ page.selected \in SUBSET Seats
  BY Typed DEF IInv, TypeOK, PageType
<1>2. CASE ClickLogIn
  <2>1. /\ UNCHANGED <<session, issued, dead, storage, answered>> /\ asks' = asks + 1
        /\ asks' \in 0..MaxAsks /\ pending' \in SUBSET Seats /\ Unmount /\ Push(At("login", asks'))
    BY <1>1, <1>2, EventPageAssumption DEF ClickLogIn
  <2>2. At("login", asks') \in Entry /\ At("login", asks').resume = asks'
    BY <2>1, EntryTyped
  <2>3. \E n \in 1..MaxHistory : hist' \in [1..n -> Entry]
    BY <1>1, <2>1, <2>2, PushAsks
  <2>4. now' \in DOMAIN hist' /\ AsksOnce'
    BY <1>1, <2>1, <2>2, PushAsks
  <2>5. answered' \in SUBSET (1..asks')
    BY <1>1, <2>1
  <2> QED
    BY <1>1, <2>1, <2>3, <2>4, <2>5, PageMoves, MovedIInv
<1>3. ASSUME NEW place \in {"event", "login", "other"}, Push(At(place, 0)),
             UNCHANGED <<session, issued, dead, pending, storage, asks, answered>>,
             UNCHANGED <<page, flow>> \/ Unmount
      PROVE  IInv'
  <2>1. At(place, 0) \in Entry /\ At(place, 0).resume = 0
    BY EntryTyped, EventPageAssumption
  <2>2. \E n \in 1..MaxHistory : hist' \in [1..n -> Entry]
    BY <1>1, <1>3, <2>1, PushAsks
  <2>3. now' \in DOMAIN hist' /\ AsksOnce'
    BY <1>1, <1>3, <2>1, PushAsks
  <2> QED
    BY <1>1, <1>3, <2>2, <2>3, PageMoves, MovedIInv
<1> QED
  BY <1>2, <1>3 DEF Come, Leave

(* Steps within the history, and the login link on the login page *)
LEMMA GoIInv ==
  ASSUME IInv, LinkToSelf \/ \E i \in 1..MaxHistory : Go(i)
  PROVE  IInv'
<1> USE DEF sessionVars, askVars
<1>1. /\ session \in 0..issued /\ asks \in 0..MaxAsks /\ answered \in SUBSET (1..asks)
      /\ asks \in Nat /\ pending \in SUBSET Seats
      /\ now \in DOMAIN hist /\ \A i \in DOMAIN hist : hist[i] \in Entry
  BY Typed DEF IInv, TypeOK
<1>2. 0 \notin answered
  BY <1>1
<1>3. CASE LinkToSelf
  <2>1. /\ UNCHANGED <<session, issued, dead, page, flow, pending, storage, asks, answered>>
        /\ hist' = [hist EXCEPT ![now] = At("login", 0)] /\ now' = now
    BY <1>3 DEF LinkToSelf, Replace
  <2>2. At("login", 0) \in Entry /\ At("login", 0).resume = 0
    BY EntryTyped, EventPageAssumption
  <2>3. \E n \in 1..MaxHistory : hist' \in [1..n -> Entry]
    BY <1>1, <1>2, <2>1, <2>2, ReplaceAsks
  <2>4. now' \in DOMAIN hist' /\ AsksOnce'
    BY <1>1, <1>2, <2>1, <2>2, ReplaceAsks
  <2> QED
    BY <1>1, <2>1, <2>3, <2>4, PageMoves, MovedIInv
<1>4. ASSUME NEW i \in 1..MaxHistory, Go(i) PROVE IInv'
  <2>1. /\ UNCHANGED <<session, issued, dead, pending, storage, asks, answered>>
        /\ UNCHANGED <<page, flow>> \/ Unmount
        /\ i \in DOMAIN hist /\ now' = i
        /\ hist' = [hist EXCEPT ![i] = Returned(hist[i])] \/ hist' = hist
    BY <1>4 DEF Go
  <2>2. Returned(hist[i]) \in Entry /\ Returned(hist[i]).resume = hist[i].resume
    <3>1. hist[i].resume \in 0..MaxAsks
      BY <1>1, <2>1 DEF Entry
    <3> QED
      BY <3>1, EntryTyped, EventPageAssumption DEF Returned
  <2>3. (\E n \in 1..MaxHistory : hist' \in [1..n -> Entry]) /\ now' \in DOMAIN hist' /\ AsksOnce'
    <3>1. CASE hist' = [hist EXCEPT ![i] = Returned(hist[i])]
      BY <2>1, <2>2, <3>1, ReplaceAsks
    <3>2. CASE hist' = hist
      BY <2>1, <3>2 DEF IInv, TypeOK, AsksOnce
    <3> QED
      BY <2>1, <3>1, <3>2
  <2> QED
    BY <1>1, <2>1, <2>3, PageMoves, MovedIInv
<1> QED
  BY <1>3, <1>4

LEMMA ReloadIInv == ASSUME IInv, Reload PROVE IInv'
<1> USE DEF placeVars, askVars
<1>1. /\ UNCHANGED <<issued, dead, hist, now, pending, storage, asks, answered>>
      /\ session' \in {session, NoSession} /\ page' = NewPage /\ flow' = [f \in Flows |-> NoFlow]
  BY DEF Reload
<1>2. session' \in 0..issued /\ issued \in Nat
  BY <1>1, Typed DEF IInv, TypeOK, NoSession
<1>3. page' \in PageType /\ FlowsOfThePage' /\ flow' \in [Flows -> FlowType(issued)]
  BY <1>1, <1>2, FreshTyped, NoneRunning
<1>4. \A f \in Flows : flow'[f].at = "over" /\ ~flow'[f].here
  BY <1>1, FreshTyped
<1>5. (\E n \in 1..MaxHistory : hist' \in [1..n -> Entry]) /\ now' \in DOMAIN hist' /\ AsksOnce'
  BY <1>1 DEF IInv, TypeOK, AsksOnce
<1>6. pending' \in SUBSET Seats /\ asks' \in 0..MaxAsks /\ answered' \in SUBSET (1..asks')
  BY <1>1 DEF IInv, TypeOK
<1> QED
  BY <1>1, <1>2, <1>3, <1>4, <1>5, <1>6, MovedIInv

(* Tokens are issued, expire and are put away. *)
LEMMA SessionIInv ==
  ASSUME IInv, LogIn \/ SignOut \/ OtherDenied \/ TokenExpires
  PROVE  IInv'
<1> USE DEF sessionVars, placeVars, askVars
<1>1. /\ flow \in [Flows -> FlowType(issued)] /\ issued \in Nat /\ dead \in Nat /\ session \in Nat
      /\ page \in PageType /\ now \in DOMAIN hist /\ hist[now] \in Entry
  BY Typed DEF IInv
<1>2. /\ UNCHANGED <<page, pending, flow, storage, asks, answered>>
      /\ session' \in 0..issued' /\ issued' \in 0..MaxLogins /\ dead' \in 0..issued'
      /\ issued <= issued' /\ dead <= dead' /\ now' = now
  BY <1>1, EventPageAssumption
    DEF IInv, LogIn, Replace, SignOut, OtherDenied, EndSession, TokenExpires, NoSession, TypeOK
<1>3. (\E n \in 1..MaxHistory : hist' \in [1..n -> Entry]) /\ now' \in DOMAIN hist' /\ AsksOnce'
  <2>1. CASE LogIn
    <3>1. Returned(Here) \in Entry /\ Returned(Here).resume = hist[now].resume
      <4>1. hist[now].resume \in 0..MaxAsks
        BY <1>1 DEF Entry
      <4> QED
        BY <4>1, EntryTyped, EventPageAssumption DEF Returned, Here
    <3>2. hist' = [hist EXCEPT ![now] = Returned(Here)]
      BY <2>1 DEF LogIn, Replace
    <3> QED
      BY <1>1, <1>2, <3>1, <3>2, ReplaceAsks
  <2>2. CASE SignOut \/ OtherDenied \/ TokenExpires
    <3>1. hist' = hist
      BY <2>2 DEF SignOut, OtherDenied, EndSession, TokenExpires
    <3> QED
      BY <1>2, <3>1 DEF IInv, TypeOK, AsksOnce
  <2> QED
    BY <2>1, <2>2
<1>4. flow' \in [Flows -> FlowType(issued')]
  <2>1. FlowType(issued) \subseteq FlowType(issued')
    BY <1>1, <1>2 DEF FlowType
  <2> QED
    BY <1>1, <1>2, <2>1
<1>5. TypeOK'
  BY <1>2, <1>3, <1>4 DEF IInv, TypeOK, FlowType
<1>6. FlowsOfThePage'
  BY <1>1, <1>2, RunningStays
<1>7. DeniedIsDead'
  <2> SUFFICES ASSUME NEW f \in Flows, flow[f].at = "denied" PROVE flow[f].token <= dead'
    BY <1>2 DEF DeniedIsDead
  <2> QED
    BY <1>1, <1>2 DEF IInv, DeniedIsDead, FlowType
<1> QED
  BY <1>2, <1>3, <1>5, <1>6, <1>7 DEF IInv, OverIsGone

-----------------------------------------------------------------------------
(* A run of reserve() starts on a page that is idle, or that resumes just now. *)
LEMMA StartIInv ==
  ASSUME IInv, NEW chosen \in SUBSET Seats, NEW resumed \in BOOLEAN, Start(chosen, resumed),
         UNCHANGED <<sessionVars, pending, storage, asks>>,
         \/ ~page.busy /\ resumed = page.resumed
         \/ ~page.resumed /\ resumed,
         \E n \in 1..MaxHistory : hist' \in [1..n -> Entry], now' \in DOMAIN hist', AsksOnce',
         answered' \in SUBSET (1..asks)
  PROVE  IInv'
<1> USE DEF sessionVars
<1>1. /\ page \in PageType /\ flow \in [Flows -> FlowType(issued)]
      /\ session \in 0..issued /\ dead \in Nat
  BY Typed DEF IInv, TypeOK
<1>2. PICK g \in Flows : flow[g].at = "over" /\ g = CHOOSE f \in Flows : flow[f].at = "over"
  BY DEF Start
<1>3. PICK new \in FlowType(issued) :
        new.at = "join" /\ new.here /\ flow' = [flow EXCEPT ![g] = new]
  BY <1>1, <1>2 DEF Start, FlowType
<1>4. /\ flow' \in [Flows -> FlowType(issued)]
      /\ flow'[g] = new /\ \A f \in Flows \ {g} : flow'[f] = flow[f]
  BY <1>1, <1>2, <1>3
<1>5. page' = [page EXCEPT !.selected = chosen, !.busy = TRUE, !.resumed = resumed]
  BY DEF Start
<1>6. page' \in PageType /\ page'.busy = TRUE /\ page'.resumed = resumed
  BY <1>1, <1>5 DEF PageType
<1>7. TypeOK'
  BY <1>4, <1>6 DEF IInv, TypeOK, PageType, FlowType
<1>8. FlowsOfThePage'
  <2>1. Running' = Running \cup {g} /\ g \notin Running
    BY <1>2, <1>3, <1>4 DEF Running, IInv, OverIsGone
  <2>2. Cardinality(Running') = Cardinality(Running) + 1
    BY <2>1, RunningFinite, FS_AddElement
  <2>3. CASE ~page.busy /\ resumed = page.resumed
    <3>1. Cardinality(Running) \in 0..(IF page.resumed THEN 1 ELSE 0)
      BY <2>3 DEF IInv, FlowsOfThePage
    <3> QED
      BY <1>6, <2>2, <2>3, <3>1, RunningFinite DEF FlowsOfThePage
  <2>4. CASE ~page.resumed /\ resumed
    <3>1. Cardinality(Running) \in 0..1
      BY <2>4, RunningFinite DEF IInv, FlowsOfThePage
    <3>2. page'.busy /\ page'.resumed
      BY <1>6, <2>4
    <3> QED
      BY <2>2, <3>1, <3>2, RunningFinite DEF FlowsOfThePage
  <2> QED
    BY <2>3, <2>4
<1>9. OverIsGone' /\ DeniedIsDead'
  BY <1>3, <1>4 DEF IInv, OverIsGone, DeniedIsDead
<1> QED
  BY <1>7, <1>8, <1>9 DEF IInv

LEMMA ClickReserveIInv == ASSUME IInv, ClickReserve PROVE IInv'
<1> USE DEF sessionVars, placeVars, askVars
<1>1. page.selected \in SUBSET Seats /\ page.resumed \in BOOLEAN
  BY Typed DEF IInv, PageType
<1>2. /\ Start(page.selected, page.resumed) /\ ~page.busy
      /\ UNCHANGED <<sessionVars, hist, now, pending, storage, asks, answered>>
  BY DEF ClickReserve, ClickReserveIf
<1>3. (\E n \in 1..MaxHistory : hist' \in [1..n -> Entry]) /\ now' \in DOMAIN hist' /\ AsksOnce'
  BY <1>2 DEF IInv, TypeOK, AsksOnce
<1>4. answered' \in SUBSET (1..asks)
  BY <1>2 DEF IInv, TypeOK
<1> QED
  BY <1>1, <1>2, <1>3, <1>4, StartIInv

(* The effect goes on with what was chosen before the login, or finds it taken. *)
LEMMA ResumeIInv == ASSUME IInv, Resume PROVE IInv'
<1> USE DEF sessionVars, placeVars, askVars
<1> DEFINE available == pending \cap page.shown
<1>1. /\ page \in PageType /\ pending \in SUBSET Seats /\ available \in SUBSET Seats
      /\ now \in DOMAIN hist /\ hist[now] \in Entry /\ asks \in Nat
      /\ session \in 0..issued /\ asks \in 0..MaxAsks
  BY Typed DEF IInv, TypeOK
<1>2. /\ ~page.resumed /\ hist[now].resume # 0
      /\ hist' = [hist EXCEPT ![now] = At("event", 0)] /\ now' = now
      /\ answered' = answered \cup {hist[now].resume}
      /\ UNCHANGED <<sessionVars, storage, asks>>
  BY DEF Resume, ResumeLeaving, EffectDue, Replace, Here
<1>3. answered' \in SUBSET (1..asks) /\ 0 \notin answered'
  <2>1. answered \in SUBSET (1..asks) /\ hist[now].resume \in 0..asks
    BY <1>1 DEF IInv, TypeOK, AsksOnce
  <2> QED
    BY <1>1, <1>2, <2>1
<1>4. (\E n \in 1..MaxHistory : hist' \in [1..n -> Entry]) /\ now' \in DOMAIN hist' /\ AsksOnce'
  <2>1. At("event", 0) \in Entry /\ At("event", 0).resume = 0
    BY EntryTyped, EventPageAssumption
  <2> QED
    BY <1>1, <1>2, <1>3, <2>1, ReplaceAsks
<1>5. CASE available # {}
  <2>1. Start(available, TRUE) /\ UNCHANGED pending
    BY <1>5 DEF Resume, ResumeLeaving
  <2> HIDE DEF available
  <2> QED
    BY <1>1, <1>2, <1>3, <1>4, <2>1, StartIInv
<1>6. CASE available = {}
  <2>1. UNCHANGED flow /\ pending' = {} /\ page' = [page EXCEPT !.resumed = TRUE]
    BY <1>6 DEF Resume, ResumeLeaving
  <2>2. page' \in PageType /\ page'.busy = page.busy /\ page'.resumed = TRUE
    BY <1>1, <2>1 DEF PageType
  <2>3. FlowsOfThePage'
    BY <2>1, <2>2, RunningStays
  <2>4. flow \in [Flows -> FlowType(issued)] /\ \A f \in Flows : flow[f].at = "over" => ~flow[f].here
    BY Typed DEF IInv, OverIsGone
  <2> QED
    BY <1>1, <1>2, <1>3, <1>4, <2>1, <2>2, <2>3, <2>4, MovedIInv
<1> QED
  BY <1>5, <1>6

-----------------------------------------------------------------------------
(* A flow goes on, to another call of reserve() or to the answer to one. *)
LEMMA ProceedIInv ==
  ASSUME IInv, NEW f \in Flows, NEW at \in {"poll", "reserve", "accepted", "denied"},
         NEW busy \in {page.busy, TRUE}, Proceed(f, at, busy), flow[f].at # "over",
         at = "denied" => flow[f].token <= dead
  PROVE  IInv'
<1> USE DEF sessionVars, placeVars, askVars
<1>1. page \in PageType /\ flow \in [Flows -> FlowType(issued)]
  BY Typed DEF IInv
<1>2. /\ UNCHANGED <<session, issued, dead, hist, now, pending, storage, asks, answered>>
      /\ flow' = [flow EXCEPT ![f].at = at]
      /\ page' = IF flow[f].here THEN [page EXCEPT !.busy = busy] ELSE page
  BY DEF Proceed
<1>3. /\ flow' \in [Flows -> FlowType(issued)]
      /\ \A g \in Flows : flow'[g].here = flow[g].here /\ flow'[g].token = flow[g].token
      /\ \A g \in Flows : flow'[g].at = IF g = f THEN at ELSE flow[g].at
  BY <1>1, <1>2 DEF FlowType
<1>4. busy \in BOOLEAN /\ page' \in PageType
  BY <1>1, <1>2 DEF PageType
<1>5. TypeOK'
  BY <1>2, <1>3, <1>4 DEF IInv, TypeOK, PageType, FlowType
<1>6. FlowsOfThePage'
  <2>1. CASE page' = page
    BY <1>3, <1>4, <2>1, RunningStays
  <2>2. CASE flow[f].here /\ page' # page
    <3>1. page'.busy = TRUE /\ page'.resumed = page.resumed /\ ~page.busy
      BY <1>1, <1>2, <2>2 DEF PageType
    <3>2. Running' = Running /\ f \in Running
      BY <1>3, <2>2 DEF Running
    <3>3. Cardinality(Running) # 0
      BY <3>2, RunningFinite, FS_EmptySet
    <3>4. Cardinality(Running) \in 0..(IF page.resumed THEN 1 ELSE 0)
      BY <3>1 DEF IInv, FlowsOfThePage
    <3> QED
      BY <3>1, <3>2, <3>3, <3>4, RunningFinite DEF FlowsOfThePage
  <2> QED
    BY <1>2, <2>1, <2>2
<1>7. OverIsGone' /\ DeniedIsDead'
  BY <1>2, <1>3 DEF IInv, OverIsGone, DeniedIsDead
<1> QED
  BY <1>2, <1>5, <1>6, <1>7 DEF IInv, AsksOnce

(* A flow ends in its catch block, whatever becomes of the session by that. *)
LEMMA EndIInv ==
  ASSUME IInv, NEW f \in Flows, flow[f].at # "over", End(f), session' \in {session, NoSession},
         UNCHANGED <<issued, dead, placeVars, pending, storage, askVars>>
  PROVE  IInv'
<1> USE DEF placeVars, askVars
<1>1. page \in PageType /\ flow \in [Flows -> FlowType(issued)] /\ issued \in Nat
  BY Typed DEF IInv
<1>2. /\ flow' = [flow EXCEPT ![f] = NoFlow]
      /\ page' = IF flow[f].here THEN [page EXCEPT !.busy = FALSE] ELSE page
  BY DEF End
<1>3. /\ flow' \in [Flows -> FlowType(issued)]
      /\ flow'[f] = NoFlow /\ \A g \in Flows \ {f} : flow'[g] = flow[g]
  BY <1>1, <1>2, FreshTyped
<1>4. page' \in PageType /\ page'.resumed = page.resumed
  BY <1>1, <1>2 DEF PageType
<1>5. TypeOK'
  <2>1. session' \in 0..issued
    BY <1>1 DEF IInv, TypeOK, NoSession
  <2> QED
    BY <1>3, <1>4, <2>1 DEF IInv, TypeOK, PageType, FlowType
<1>6. FlowsOfThePage'
  <2>1. CASE flow[f].here
    <3>1. page'.busy = FALSE
      BY <1>1, <1>2, <2>1 DEF PageType
    <3>2. Running' = Running \ {f} /\ f \in Running
      BY <1>3, <2>1, FreshTyped DEF Running
    <3>3. Cardinality(Running') = Cardinality(Running) - 1
      BY <3>2, RunningFinite, FS_RemoveElement
    <3>4. Cardinality(Running) # 0
      BY <3>2, RunningFinite, FS_EmptySet
    <3>5. Cardinality(Running) \in 1..(IF page.resumed THEN 2 ELSE 1)
      BY <3>4, RunningFinite DEF IInv, FlowsOfThePage
    <3> QED
      BY <1>4, <3>1, <3>3, <3>5, RunningFinite DEF FlowsOfThePage
  <2>2. CASE ~flow[f].here
    <3>1. page' = page
      BY <1>2, <2>2
    <3>2. Running' = Running
      BY <1>3, <2>2, FreshTyped DEF Running
    <3> QED
      BY <3>1, <3>2 DEF IInv, FlowsOfThePage
  <2> QED
    BY <2>1, <2>2
<1>7. OverIsGone' /\ DeniedIsDead'
  BY <1>3, FreshTyped DEF IInv, OverIsGone, DeniedIsDead
<1> QED
  BY <1>5, <1>6, <1>7 DEF IInv, AsksOnce

(* The tab goes to the checkout, from wherever it is. *)
LEMMA ArrivesIInv == ASSUME IInv, NEW f \in Flows, Arrives(f) PROVE IInv'
<1> USE DEF sessionVars, askVars
<1>1. /\ UNCHANGED <<session, issued, dead, storage, asks, answered>>
      /\ page' = NewPage /\ pending' = {} /\ Push(At("other", 0))
      /\ flow' = [Abandoned EXCEPT ![f] = NoFlow]
  BY DEF Arrives
<1>2. session \in 0..issued /\ issued \in Nat /\ asks \in 0..MaxAsks /\ answered \in SUBSET (1..asks) /\ asks \in Nat
  BY Typed DEF IInv, TypeOK
<1>3. /\ flow' \in [Flows -> FlowType(issued)]
      /\ flow'[f] = NoFlow /\ \A g \in Flows \ {f} : flow'[g] = Abandoned[g]
  BY <1>1, <1>2, FreshTyped, AbandonedTyped
<1>4. /\ \A g \in Flows : ~flow'[g].here
      /\ \A g \in Flows : \/ flow'[g].at = flow[g].at /\ flow'[g].token = flow[g].token
                          \/ flow'[g].at = "over"
  BY <1>3, FreshTyped, AbandonedTyped
<1>5. page' \in PageType /\ FlowsOfThePage'
  BY <1>1, <1>4, FreshTyped, NoneRunning
<1>6. At("other", 0) \in Entry /\ At("other", 0).resume = 0
  BY EntryTyped, EventPageAssumption
<1>7. (\E n \in 1..MaxHistory : hist' \in [1..n -> Entry]) /\ now' \in DOMAIN hist' /\ AsksOnce'
  BY <1>1, <1>2, <1>6, PushAsks
<1> QED
  BY <1>1, <1>2, <1>3, <1>4, <1>5, <1>7, MovedIInv

LEMMA FlowIInv == ASSUME IInv, NEW f \in Flows, FlowStep(f) PROVE IInv'
<1> USE DEF sessionVars, placeVars, askVars
<1>1. CASE Queued(f) \/ Admitted(f) \/ Accepted(f) \/ Denied(f)
  BY <1>1, ProceedIInv DEF Queued, Admitted, Accepted, Accepts, Denied, DeniedIf
<1>2. CASE DeniedArrives(f) \/ Fails(f) \/ ArrivesUnstored(f)
  BY <1>2, EndIInv DEF DeniedArrives, Fails, FailsAt, ArrivesUnstored
<1> QED
  BY <1>1, <1>2, ArrivesIInv DEF FlowStep

LEMMA NextIInv == IInv /\ [Next]_vars => IInv'
<1> SUFFICES ASSUME IInv, [Next]_vars PROVE IInv'
  OBVIOUS
<1>1. CASE UNCHANGED vars
  BY <1>1 DEF vars, sessionVars, placeVars, askVars, IInv, TypeOK, FlowsOfThePage, Running,
    OverIsGone, DeniedIsDead, AsksOnce
<1> QED
  BY <1>1, ViewIInv, SessionIInv, LeaveIInv, GoIInv, ReloadIInv, ClickReserveIInv, ResumeIInv, FlowIInv
    DEF Next

(* Every reachable state of the tab satisfies the invariant. *)
THEOREM Invariance == Spec => []IInv
BY InitIInv, NextIInv, PTL DEF Spec

-----------------------------------------------------------------------------
(* A busy page runs a flow and an idle one none; only a page that has resumed may run
   one more, and never a third, whatever flows of earlier pages are under way. *)
THEOREM PageFlows == Spec => []FlowsOfThePage
<1>1. IInv => FlowsOfThePage
  BY DEF IInv
<1> QED
  BY <1>1, Invariance, PTL

(* A click that had to log in first is answered by at most one run of reserve() that
   the page starts by itself, through reloads, any steps in the history, and logins. *)
THEOREM ResumesOnce == Spec => ResumedOnce
<1>1. IInv /\ [Next]_vars =>
        [EffectDue /\ (\E f \in Flows : flow[f].at = "over" /\ flow'[f].at = "join")
           => Here.resume \notin answered]_vars
  BY Typed DEF IInv, AsksOnce, Here
<1> QED
  BY <1>1, Invariance, PTL DEF Spec, ResumedOnce

(* A flow closes a session whose token is still good only by the late answer to an
   older token. *)
THEOREM GoodSessions == Spec => GoodSessionStays
<1>1. IInv /\ [Next]_vars =>
        [session > dead /\ session' = NoSession /\ flow' # flow /\ storage = "works"
           => \E f \in Flows : flow[f].at = "denied" /\ flow[f].token < session]_vars
  <2> SUFFICES ASSUME IInv, [Next]_vars, session > dead, session' = NoSession, flow' # flow,
                      storage = "works"
               PROVE  \E f \in Flows : flow[f].at = "denied" /\ flow[f].token < session
    OBVIOUS
  <2> USE DEF sessionVars
  <2>1. /\ session \in Nat /\ dead \in Nat /\ session # NoSession
        /\ flow \in [Flows -> FlowType(issued)] /\ issued \in Nat
    BY Typed DEF IInv, NoSession
  <2>2. PICK f \in Flows : DeniedArrives(f)
    BY <2>1 DEF Next, vars, Refresh, Toggle, ClickReserve, ClickReserveIf, ClickLogIn, Resume,
      ResumeLeaving, Leave, LinkToSelf, Come, Go, Reload, LogIn, SignOut, OtherDenied, EndSession,
      TokenExpires, FlowStep, Queued, Admitted, Accepted, Denied, DeniedIf, Proceed, Fails, FailsAt,
      Arrives, ArrivesUnstored
  <2>3. flow[f].at = "denied" /\ flow[f].token <= dead /\ flow[f].token \in Nat
    BY <2>1, <2>2 DEF DeniedArrives, IInv, DeniedIsDead, FlowType
  <2> QED
    BY <2>1, <2>3
<1> QED
  BY <1>1, Invariance, PTL DEF Spec, GoodSessionStays

=============================================================================
