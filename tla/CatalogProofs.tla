---------------------------- MODULE CatalogProofs ----------------------------
(***************************************************************************)
(* Theorems about the catalog, for any number of calls at the same time,   *)
(* any times, any filters and any number of steps of the form.             *)
(***************************************************************************)
EXTENDS Catalog, TLAPS

Active(c) == pc[c] # "idle"

(* What the row will be when c has written. *)
Merged(c, f) == IF f \in columns[c] THEN entity[c][f] ELSE row[f]

(* Only a priced event is or will be published. *)
PricedFirst == (row.published => priced) /\ \A c \in Calls : entity[c].published => priced

(* The row never goes away, and calls are about one that exists. *)
RowStays ==
  \A c \in Calls :
    /\ Active(c) => Exists
    /\ "start" \in columns[c] => entity[c].start # NoTime
    /\ pc[c] = "publishing" => columns[c] = Columns

(* As long as calls come one at a time, what a call read is what it finds. *)
OneAtATime ==
  ~overlap =>
    /\ \A c, d \in Calls : c # d => ~Active(c) \/ ~Active(d)
    /\ Valid(row.start, row.end)
    /\ \A c \in Calls : Active(c) => Valid(Merged(c, "start"), Merged(c, "end"))

EditInv == EditTypeOK /\ PricedFirst /\ RowStays /\ OneAtATime

-----------------------------------------------------------------------------
LEMMA InitEditInv == EditInit => EditInv
<1> USE EventEditingAssumption DEF EditInit, NoRow, Draft, Columns, Times, NoTime
<1>1. ASSUME EditInit PROVE EditTypeOK /\ PricedFirst /\ RowStays
  BY <1>1 DEF EditTypeOK, Rows, PricedFirst, RowStays, Active
<1>2. ASSUME EditInit PROVE OneAtATime
  BY <1>2 DEF OneAtATime, Active, Valid
<1> QED
  BY <1>1, <1>2 DEF EditInv

LEMMA CreateEditInv ==
  ASSUME EditInv, NEW start \in Times, NEW end \in Times \cup {NoTime}, Create(start, end)
  PROVE  EditInv'
<1> USE EventEditingAssumption DEF EditInv, Create, Draft, Exists, EditTypeOK, Times, NoTime
<1>1. EditTypeOK' /\ PricedFirst' /\ RowStays'
  BY DEF Rows, PricedFirst, RowStays, Active
<1>2. OneAtATime'
  BY DEF OneAtATime, RowStays, Active, Valid
<1> QED
  BY <1>1, <1>2

LEMMA AddPriceEditInv == ASSUME EditInv, AddPrice PROVE EditInv'
BY DEF EditInv, AddPrice, EditTypeOK, PricedFirst, RowStays, OneAtATime, Active, Exists, Merged

(* A call begins with an entity that would leave an event with valid times. *)
LEMMA PrepareEditInv ==
  ASSUME EditInv, Exists, NEW c \in Calls, NEW next \in {"publishing", "saving"},
         NEW e \in Rows, NEW given \in SUBSET Columns, Prepare(c, next, e, given),
         e.published => priced,
         "start" \in given => e.start # NoTime,
         next = "publishing" => given = Columns,
         ~overlap' => Valid(IF "start" \in given THEN e.start ELSE row.start,
                            IF "end" \in given THEN e.end ELSE row.end)
  PROVE  EditInv'
<1> USE DEF EditInv, Prepare, EditTypeOK
<1>1. EditTypeOK' /\ PricedFirst'
  BY DEF PricedFirst
<1>2. RowStays'
  BY DEF RowStays, Active, Exists
<1>3. OneAtATime'
  <2> SUFFICES ASSUME ~overlap' PROVE OneAtATime'
    BY DEF OneAtATime
  <2>1. ~overlap /\ \A d \in Calls \ {c} : ~Active(d) /\ ~Active(d)'
    BY DEF Active
  <2>2. Valid(Merged(c, "start")', Merged(c, "end")')
    BY DEF Merged
  <2> QED
    BY <2>1, <2>2 DEF OneAtATime, Active, Valid
<1> QED
  BY <1>1, <1>2, <1>3

LEMMA PatchEditInv ==
  ASSUME EditInv, NEW c \in Calls, NEW start \in Times \cup {NoTime},
         NEW end \in Times \cup {NoTime}, Patch(c, start, end)
  PROVE  EditInv'
<1> DEFINE e == [start |-> start, end |-> end, published |-> row.published]
           given == {"published"} \cup (IF start = NoTime THEN {} ELSE {"start"})
                                  \cup (IF end = NoTime THEN {} ELSE {"end"})
<1>1. Prepare(c, "saving", e, given) /\ Exists /\ ValidPatch(start, end)
  BY DEF Patch, PatchWith
<1>2. e \in Rows /\ given \in SUBSET Columns /\ (e.published => priced)
  BY DEF EditInv, EditTypeOK, PricedFirst, Rows, Columns
<1>3. Valid(IF "start" \in given THEN e.start ELSE row.start,
            IF "end" \in given THEN e.end ELSE row.end)
  BY <1>1 DEF ValidPatch, Or
<1> HIDE DEF e, given
<1>4. "start" \in given => e.start # NoTime
  BY DEF e, given
<1> QED
  BY <1>1, <1>2, <1>3, <1>4, PrepareEditInv

LEMMA PublishEditInv ==
  ASSUME EditInv, NEW c \in Calls, PublishRead(c) \/ PublishCheck(c)
  PROVE  EditInv'
<1> USE DEF EditInv, EditTypeOK
<1>1. CASE PublishRead(c)
  <2>1. Prepare(c, "publishing", row, Columns) /\ Exists
    BY <1>1 DEF PublishRead
  <2>2. ~overlap' => Valid(row.start, row.end)
    BY <2>1 DEF Prepare, OneAtATime
  <2>3. row \in Rows /\ (row.published => priced) /\ row.start # NoTime
    BY <2>1 DEF PricedFirst, Exists
  <2>4. "start" \in Columns /\ "end" \in Columns
    BY DEF Columns
  <2> QED
    BY <2>1, <2>2, <2>3, <2>4, PrepareEditInv
<1>2. CASE PublishCheck(c)
  <2> DEFINE e == [entity[c] EXCEPT !.published = TRUE]
  <2>1. Prepare(c, "saving", e, Columns) /\ priced /\ pc[c] = "publishing"
    BY <1>2 DEF PublishCheck
  <2>2. e \in Rows /\ e.start = entity[c].start /\ e.end = entity[c].end
    BY DEF Rows
  <2>3. "start" \in Columns /\ "end" \in Columns
    BY DEF Columns
  <2>4. Exists /\ columns[c] = Columns /\ e.start # NoTime
    BY <2>1, <2>2, <2>3 DEF RowStays, Active
  <2>5. ~overlap' => Valid(e.start, e.end)
    BY <2>1, <2>2, <2>3, <2>4 DEF Prepare, OneAtATime, Merged, Active
  <2> HIDE DEF e
  <2> QED
    BY <2>1, <2>2, <2>3, <2>4, <2>5, PrepareEditInv
<1> QED
  BY <1>1, <1>2

LEMMA CompareEditInv ==
  ASSUME EditInv, NEW c \in Calls, Compare(c)
  PROVE  EditInv'
<1> USE DEF EditInv, EditTypeOK, Compare
<1>1. EditTypeOK' /\ PricedFirst' /\ RowStays'
  BY DEF PricedFirst, RowStays, Active, Exists
<1>2. \A d \in Calls : /\ Active(d)' = Active(d)
                        /\ Merged(d, "start")' = Merged(d, "start")
                        /\ Merged(d, "end")' = Merged(d, "end")
  BY DEF Active, Merged
<1>3. OneAtATime'
  BY <1>2 DEF OneAtATime, Valid
<1> QED
  BY <1>1, <1>3

LEMMA EndEditInv ==
  ASSUME EditInv, NEW c \in Calls, Write(c) \/ Fail(c)
  PROVE  EditInv'
<1> USE DEF EditInv, EditTypeOK, End
<1>1. Active(c) /\ End(c)
  BY DEF Write, Fail, Active
<1>2. row' = row \/ row' = [f \in Columns |-> Merged(c, f)]
  BY DEF Write, Fail, Merged
<1>3. row' \in Rows /\ row'.start # NoTime /\ (row'.published => priced)
  <2>1. CASE row' = row
    BY <1>1, <2>1 DEF RowStays, Exists, PricedFirst
  <2>2. CASE row' = [f \in Columns |-> Merged(c, f)]
    <3>1. /\ Merged(c, "start") \in Times \cup {NoTime} /\ Merged(c, "start") # NoTime
          /\ Merged(c, "end") \in Times \cup {NoTime}
          /\ Merged(c, "published") \in BOOLEAN /\ (Merged(c, "published") => priced)
      BY <1>1 DEF Merged, Rows, RowStays, Exists, PricedFirst
    <3> QED
      BY <2>2, <3>1 DEF Rows, Columns
  <2> QED
    BY <1>2, <2>1, <2>2
<1>4. EditTypeOK' /\ PricedFirst'
  BY <1>1, <1>3 DEF PricedFirst, Rows, NoRow, Draft, Times, NoTime
<1>5. RowStays'
  BY <1>1, <1>3 DEF RowStays, Active, Exists
<1>6. OneAtATime'
  <2> SUFFICES ASSUME ~overlap PROVE OneAtATime'
    BY <1>1 DEF OneAtATime
  <2>1. \A d \in Calls : ~Active(d)'
    BY <1>1 DEF OneAtATime, Active
  <2>2. Valid(row'.start, row'.end)
    BY <1>1, <1>2 DEF OneAtATime, Columns
  <2> QED
    BY <2>1, <2>2 DEF OneAtATime, Valid
<1> QED
  BY <1>4, <1>5, <1>6

(* Every step of the server and of clients, the form included; the calls in S may
   be answered or fail. *)
EditAction(S) ==
  \/ \E start \in Times, end \in Times \cup {NoTime} : Create(start, end)
  \/ AddPrice
  \/ \E c \in Calls :
       \/ \E start, end \in Times \cup {NoTime} : Patch(c, start, end)
       \/ PublishRead(c) \/ PublishCheck(c) \/ Compare(c)
  \/ \E c \in S : Write(c) \/ Fail(c)

LEMMA EditActionEditInv ==
  ASSUME EditInv, NEW S \in SUBSET Calls, EditAction(S)
  PROVE  EditInv'
BY CreateEditInv, AddPriceEditInv, PatchEditInv, PublishEditInv, CompareEditInv, EndEditInv
DEF EditAction

(* The event is not deleted, and keeps its price. *)
LEMMA ExistsStays ==
  ASSUME EditInv, NEW S \in SUBSET Calls, EditAction(S)
  PROVE  (Exists => Exists') /\ (priced => priced')
<1> USE DEF Exists
<1>1. ASSUME NEW c \in Calls, Write(c) PROVE (Exists => Exists') /\ priced' = priced
  <2>1. Exists'
    BY <1>1, EndEditInv, EventEditingAssumption
    DEF Write, End, EditInv, EditTypeOK, RowStays, Columns, Active
  <2> QED
    BY <1>1, <2>1 DEF Write, End
<1> QED
  BY <1>1 DEF EditAction, Create, AddPrice, Patch, PatchWith, PublishRead, PublishCheck,
    Prepare, Compare, Fail, End

-----------------------------------------------------------------------------
(* What the form knows of its three calls. *)
FormOK ==
  /\ step # "idle" => ~done
  /\ done => Exists
  /\ step = "create" => ~draft
  /\ step = "price" => draft /\ ~pricingReady
  /\ slot # NoCall => step = "publish" /\ Active(slot)
  /\ pricingReady => draft
  /\ answered["create"] <= 1 /\ (answered["create"] > 0 => Exists)
  /\ answered["price"] <= 1 /\ (answered["price"] > 0 => pricingReady \/ done)

WillBePublic(c) == pc[c] \in {"saving", "writing"} => Merged(c, "published")

(* As long as calls come one at a time, the publish call of the form publishes,
   and whatever comes after it reads an event that is public and leaves it so. *)
PublicOK ==
  ~overlap =>
    /\ slot # NoCall => WillBePublic(slot)
    /\ done => row.published /\ \A c \in Calls : WillBePublic(c)

FormInv == EditInv /\ FormTypeOK /\ FormOK /\ PublicOK

LEMMA InitFormInv == EditInit /\ FormInit => FormInv
<1> SUFFICES ASSUME EditInit, FormInit PROVE FormInv
  OBVIOUS
<1>1. FormTypeOK
  <2>1. answered \in [{"create", "price"} -> 0..MaxSteps]
    BY EventFormAssumption DEF FormInit
  <2> QED
    BY <2>1 DEF FormInit, FormTypeOK
<1>2. FormOK /\ PublicOK
  BY DEF FormInit, FormOK, PublicOK
<1> QED
  BY <1>1, <1>2, InitEditInv DEF FormInv

(* A call that the form has no part in leaves the event as public as it will be. *)
LEMMA PublicStays ==
  ASSUME FormInv, EditAction(Calls \ {slot}), UNCHANGED <<slot, done>>
  PROVE  PublicOK'
<1> SUFFICES ASSUME ~overlap', slot # NoCall \/ done PROVE PublicOK'
  BY DEF PublicOK
<1> USE DEF FormInv, EditInv, EditTypeOK
<1>1. Exists
  BY DEF FormOK, RowStays, FormTypeOK
<1>2. CASE AddPrice
  BY <1>2 DEF AddPrice, PublicOK, WillBePublic, Merged
<1>3. ASSUME NEW c \in Calls, NEW next \in {"publishing", "saving"}, NEW e \in Rows, NEW given,
             Prepare(c, next, e, given),
             next = "saving" /\ row.published => "published" \in given /\ e.published,
             c = slot => next = "saving" /\ "published" \in given /\ e.published
      PROVE  PublicOK'
  <2>1. ~overlap /\ \A d \in Calls \ {c} : ~Active(d)
    BY <1>3 DEF Prepare, Active
  <2>2. slot # NoCall => slot = c
    BY <2>1 DEF FormOK, FormTypeOK
  <2>3. \A d \in Calls \ {c} : WillBePublic(d)'
    BY <1>3, <2>1 DEF Prepare, Active, WillBePublic
  <2>4. pc'[c] = next /\ columns'[c] = given /\ entity'[c] = e
    BY <1>3 DEF Prepare
  <2>5. "published" \in given => Merged(c, "published")' = e.published
    BY <2>4 DEF Merged, Rows
  <2>6. (row.published \/ c = slot) /\ next = "saving" => "published" \in given /\ e.published
    BY <1>3
  <2>7. (row.published \/ c = slot) => WillBePublic(c)'
    BY <2>4, <2>5, <2>6 DEF WillBePublic
  <2> QED
    BY <1>3, <2>1, <2>2, <2>3, <2>7 DEF Prepare, PublicOK
<1>4. ASSUME NEW c \in Calls, NEW start \in Times \cup {NoTime},
             NEW end \in Times \cup {NoTime}, Patch(c, start, end)
      PROVE  PublicOK'
  <2> DEFINE e == [start |-> start, end |-> end, published |-> row.published]
  <2>1. slot # c /\ e \in Rows /\ e.published = row.published
    BY <1>4, EventEditingAssumption DEF Patch, PatchWith, FormOK, Active, Rows
  <2>2. \E given : Prepare(c, "saving", e, given) /\ "published" \in given
    BY <1>4 DEF Patch, PatchWith
  <2> HIDE DEF e
  <2> QED
    BY <1>3, <2>1, <2>2
<1>5. ASSUME NEW c \in Calls, PublishRead(c) \/ PublishCheck(c) PROVE PublicOK'
  <2>1. CASE PublishRead(c)
    <3>1. slot # c
      BY <2>1, EventEditingAssumption DEF PublishRead, FormOK, Active
    <3> QED
      BY <1>3, <2>1, <3>1 DEF PublishRead
  <2>2. CASE PublishCheck(c)
    BY <1>3, <2>2 DEF PublishCheck, Columns, Rows
  <2> QED
    BY <1>5, <2>1, <2>2
<1>6. ASSUME NEW c \in Calls, Compare(c) PROVE PublicOK'
  <2>1. \A d \in Calls : WillBePublic(d)' = WillBePublic(d)
    BY <1>6 DEF Compare, WillBePublic, Merged
  <2> QED
    BY <1>6, <2>1 DEF Compare, PublicOK, FormTypeOK
<1>7. ASSUME NEW c \in Calls \ {slot}, Write(c) \/ Fail(c) PROVE PublicOK'
  <2>1. Active(c) /\ End(c) /\ ~overlap
    BY <1>7 DEF Write, Fail, End, Active
  <2>2. slot = NoCall /\ done
    BY <1>7, <2>1 DEF OneAtATime, FormOK, FormTypeOK
  <2>3. \A d \in Calls : WillBePublic(d)'
    BY <2>1 DEF OneAtATime, End, Active, WillBePublic
  <2>4. row'.published
    BY <1>7, <2>1, <2>2 DEF Write, Fail, Columns, PublicOK, WillBePublic, Merged
  <2> QED
    BY <2>2, <2>3, <2>4 DEF PublicOK
<1> QED
  BY <1>1, <1>2, <1>4, <1>5, <1>6, <1>7 DEF EditAction, Create

(* The form does not move. *)
LEMMA OthersFormInv ==
  ASSUME FormInv, OthersStep
  PROVE  FormInv'
<1> USE DEF FormInv, formVars, EditInv, EditTypeOK
<1>1. EditAction(Calls \ {slot})
  BY DEF OthersStep, Serve, ClientNext, EditAction
<1>2. EditInv' /\ FormTypeOK'
  BY <1>1, EditActionEditInv DEF OthersStep, FormTypeOK
<1>3. Exists => Exists'
  BY <1>1, ExistsStays
<1>4. slot # NoCall => Active(slot)'
  BY DEF OthersStep, Serve, ClientNext, Create, AddPrice, Patch, PatchWith, PublishRead,
    PublishCheck, Prepare, Compare, Write, Fail, End, Active, FormOK, FormTypeOK
<1>5. FormOK'
  BY <1>3, <1>4 DEF OthersStep, FormOK, FormTypeOK
<1>6. PublicOK'
  BY <1>1, PublicStays DEF OthersStep
<1> QED
  BY <1>2, <1>5, <1>6

(* The form gives up, and keeps what it has. *)
LEMMA BackFormInv ==
  ASSUME FormInv, step # "idle", Back(TRUE),
         UNCHANGED editVars \/ AddPrice \/ (slot # NoCall /\ Fail(slot))
  PROVE  FormInv'
<1> USE DEF FormInv
<1>1. EditInv' /\ (Exists => Exists')
  <2>1. CASE UNCHANGED editVars
    BY <2>1 DEF editVars, EditInv, EditTypeOK, PricedFirst, RowStays, OneAtATime, Active,
      Exists, Merged
  <2>2. CASE AddPrice
    BY <2>2, AddPriceEditInv DEF AddPrice, Exists
  <2>3. CASE slot # NoCall /\ Fail(slot)
    BY <2>3, EndEditInv DEF FormTypeOK, Fail, Exists
  <2> QED
    BY <2>1, <2>2, <2>3
<1>2. FormTypeOK' /\ FormOK' /\ PublicOK'
  BY <1>1 DEF Back, FormTypeOK, FormOK, PublicOK
<1> QED
  BY <1>1, <1>2

LEMMA CreatesPricesFormInv ==
  ASSUME FormInv, FormCreates \/ FormPrices
  PROVE  FormInv'
<1> USE DEF FormInv, FormTypeOK, FormOK, Count
<1>1. CASE FormCreates
  <2>1. EditInv' /\ ~Exists /\ Exists'
    BY <1>1, CreateEditInv, EventEditingAssumption
    DEF FormCreates, Create, Exists, Draft, Times, NoTime
  <2> QED
    BY <1>1, <2>1, EventFormAssumption DEF FormCreates, PublicOK
<1>2. CASE FormPrices
  <2>1. EditInv' /\ Exists /\ Exists'
    BY <1>2, AddPriceEditInv DEF FormPrices, AddPrice, Exists
  <2> QED
    BY <1>2, <2>1, EventFormAssumption DEF FormPrices, PublicOK
<1> QED
  BY <1>1, <1>2

LEMMA PublishesFormInv ==
  ASSUME FormInv, NEW c \in Calls, FormPublishes(c)
  PROVE  FormInv'
<1> USE DEF FormInv, FormPublishes
<1>1. EditInv'
  BY PublishEditInv
<1>2. Exists' = Exists /\ Active(c)' /\ WillBePublic(c)'
  BY DEF PublishRead, Prepare, Exists, Active, WillBePublic, EditInv, EditTypeOK
<1>3. FormTypeOK' /\ FormOK' /\ PublicOK'
  BY <1>2 DEF FormTypeOK, FormOK, PublicOK
<1> QED
  BY <1>1, <1>3

LEMMA DoneFormInv == ASSUME FormInv, FormDone PROVE FormInv'
<1> USE DEF FormInv, FormDone, FormTypeOK
<1>1. EditInv' /\ Exists'
  BY EndEditInv, ExistsStays DEF EditAction, FormOK, EditInv, RowStays
<1>2. FormTypeOK' /\ FormOK'
  BY <1>1 DEF FormOK
<1>3. PublicOK'
  <2> SUFFICES ASSUME ~overlap' PROVE PublicOK'
    BY DEF PublicOK
  <2>1. ~overlap /\ pc[slot] = "writing" /\ End(slot)
    BY DEF Write, End
  <2>2. row'.published
    BY <2>1 DEF Write, PublicOK, WillBePublic, Merged, Columns
  <2>3. \A d \in Calls : WillBePublic(d)'
    BY <2>1 DEF EditInv, EditTypeOK, OneAtATime, End, Active, WillBePublic
  <2> QED
    BY <2>2, <2>3 DEF PublicOK
<1> QED
  BY <1>1, <1>2, <1>3

LEMMA FormStepFormInv == ASSUME FormInv, FormStep PROVE FormInv'
<1>1. CASE Submit
  BY <1>1 DEF Submit, FormInv, editVars, EditInv, EditTypeOK, PricedFirst, RowStays,
    OneAtATime, Active, Exists, Merged, FormTypeOK, FormOK, PublicOK, WillBePublic
<1>2. CASE FormFails \/ FormRefused \/ PriceUnanswered
  BY <1>2, BackFormInv DEF FormFails, FormRefused, PriceUnanswered, FormInv, FormOK
<1> QED
  BY <1>1, <1>2, CreatesPricesFormInv, PublishesFormInv, DoneFormInv DEF FormStep

-----------------------------------------------------------------------------
(* The page of the customer: the list on the screen is the answer to its filters,
   unless a call, the pause before one, or an error says otherwise. *)
HomeOK ==
  /\ timer => get[Home] = "none"
  /\ timer \/ get[Home] # "none" => loading
  /\ ~loading /\ ~failed => list.from = from

IInv ==
  /\ FormInv
  /\ GetTypeOK /\ HomeTypeOK /\ HomeOK

LEMMA InitIInv == Init => IInv
<1> SUFFICES ASSUME Init PROVE IInv
  OBVIOUS
<1>1. GetTypeOK /\ HomeTypeOK
  BY HomeAssumption DEF Init, GetInit, HomeInit, GetTypeOK, HomeTypeOK
<1>2. HomeOK
  BY HomeAssumption DEF Init, GetInit, HomeInit, HomeOK
<1> QED
  BY <1>1, <1>2, InitFormInv DEF Init, IInv

LEMMA HomeIInv ==
  ASSUME IInv, HomeStep, UNCHANGED <<editVars, formVars>>
  PROVE  IInv'
<1> USE HomeAssumption DEF IInv, GetTypeOK, HomeTypeOK, HomeOK, homeVars
<1>1. FormInv' /\ priced' = priced
  BY DEF editVars, formVars, FormInv, EditInv, EditTypeOK, PricedFirst, RowStays,
    OneAtATime, Active, Exists, Merged, FormTypeOK, FormOK, PublicOK, WillBePublic
<1>2. CASE ChangeFilter
  BY <1>1, <1>2 DEF ChangeFilter, RunAgain, Abort
<1>3. CASE TimerFires
  BY <1>1, <1>3 DEF TimerFires, Send, At
<1>4. CASE HomeAnswers
  <2>1. Listed \in BOOLEAN
    BY DEF Listed
  <2>2. list' = [from |-> from, has |-> Listed] /\ list'.from = from
    BY <1>4 DEF HomeAnswers
  <2>3. list' \in [from : Filters, has : BOOLEAN]
    BY <2>1, <2>2
  <2> QED
    BY <1>1, <1>4, <2>2, <2>3 DEF HomeAnswers, Return, At, InFlight
<1>5. CASE HomeFails
  BY <1>1, <1>5 DEF HomeFails, Return, At, InFlight
<1>6. CASE HomeRejects
  BY <1>1, <1>6 DEF HomeRejects, Reject
<1>7. CASE HomeWaits
  BY <1>1, <1>7 DEF HomeWaits, Pause, Resend, At
<1> QED
  BY <1>2, <1>3, <1>4, <1>5, <1>6, <1>7 DEF HomeStep

LEMMA NextIInv == IInv /\ [Next]_vars => IInv'
<1> SUFFICES ASSUME IInv, [Next]_vars PROVE IInv'
  OBVIOUS
<1>1. ASSUME FormInv', UNCHANGED <<getVars, homeVars>> PROVE IInv'
  BY <1>1 DEF IInv, getVars, homeVars, GetTypeOK, HomeTypeOK, HomeOK
<1>2. CASE UNCHANGED vars
  <2>1. FormInv'
    BY <1>2 DEF vars, editVars, formVars, IInv, FormInv, EditInv, EditTypeOK, PricedFirst,
      RowStays, OneAtATime, Active, Exists, Merged, FormTypeOK, FormOK, PublicOK, WillBePublic
  <2> QED
    BY <1>1, <1>2, <2>1 DEF vars, editVars
<1>3. CASE FormStep /\ UNCHANGED <<getVars, homeVars>>
  BY <1>1, <1>3, FormStepFormInv DEF IInv
<1>4. CASE OthersStep /\ UNCHANGED <<getVars, homeVars>>
  BY <1>1, <1>4, OthersFormInv DEF IInv
<1>5. CASE HomeStep /\ UNCHANGED <<editVars, formVars>>
  BY <1>5, HomeIInv
<1> QED
  BY <1>2, <1>3, <1>4, <1>5 DEF Next

(* Every reachable state of the catalog, the form and the home page satisfies the invariant. *)
THEOREM Invariance == Spec => []IInv
BY InitIInv, NextIInv, PTL DEF Spec

-----------------------------------------------------------------------------
(* Nothing is published without a price. *)
THEOREM PublishedPriced == Spec => []PublishedHasPrice
<1>1. IInv => PublishedHasPrice
  BY DEF IInv, FormInv, EditInv, PricedFirst, PublishedHasPrice
<1> QED
  BY <1>1, Invariance, PTL

(* Partial updates that do not overlap never leave an event that ends before it starts. *)
THEOREM TimesStayOrdered == Spec => []TimesOrdered
<1>1. IInv => TimesOrdered
  BY DEF IInv, FormInv, EditInv, OneAtATime, TimesOrdered
<1> QED
  BY <1>1, Invariance, PTL

(* The form repeats no step that was answered. *)
THEOREM StepsOnce == Spec => []NoStepTwice
<1>1. IInv => NoStepTwice
  BY DEF IInv, FormInv, FormOK, NoStepTwice
<1> QED
  BY <1>1, Invariance, PTL

(* What the form has reported as published stays so. *)
THEOREM ReportedStaysPublic == Spec => []DoneStaysPublic
<1>1. IInv => DoneStaysPublic
  BY DEF IInv, FormInv, EditInv, PricedFirst, PublicOK, DoneStaysPublic
<1> QED
  BY <1>1, Invariance, PTL

(* The list on the screen is the answer to the filters on the screen. *)
THEOREM ListFits == Spec => []ListFitsFilters
<1>1. IInv => ListFitsFilters
  BY DEF IInv, HomeOK, ListFitsFilters
<1> QED
  BY <1>1, Invariance, PTL

=============================================================================
