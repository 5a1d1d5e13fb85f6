# Verification of KiTicket

TLA+ models of the KiTicket ticketing system, the TLC runs that check them, and
theorems checked by TLAPS. Everything is translated from the source; paths below
are relative to the repository.

## 1. The system

A NestJS API (`backend/src`, three replicas in `infra/k8s`) over PostgreSQL (the
truth), Redis (seat locks, queue sequence), RabbitMQ (best-effort events) and
Socket.IO (hints), and a React client (`frontend/src`).

| Component | State | Operations | What makes it correct |
|---|---|---|---|
| Seat locks `lock.service.ts` | one Redis key per (event, seat) holding a reservation id, with TTL | acquire (all or none), release (owner only) | two running create calls never hold the same seat; a late release harms nobody |
| Reservations `reservations.controller.ts` | tables Reservation, ReservationSeat | create, get, cancel | no seat twice; seat rows agree with the reservation state |
| Expiry sweep `ExpiryService` | a timer and a `running` flag per replica | select a batch, then expire one by one | expires only what is pending; every overdue reservation is closed |
| Payments `payments.controller.ts`, `payment-policy.ts` | table Payment (unique reservation, unique key) | start, complete | paid iff confirmed; a closed payment is final; retries are harmless |
| Tickets `tickets.controller.ts` | table Ticket | issue (in complete), list, QR, verify, check in | one ticket per sold seat; one check-in per ticket |
| Waiting room `waiting-room.controller.ts` | Redis sequence, table WaitingRoomEntry | join, status, admit, assertAdmission | initial capacity kept, order kept, everybody admitted in the end |
| Catalog `catalog.controller.ts` | Venue, Sector, Seat, Event, PricingCategory | create, edit, publish, analytics, detail | an event that is edited concurrently stays well-formed |
| Broker `broker.service.ts` | connection, channel, queue, table Notification | publish, consume | nothing acknowledged before it is recorded; outages do not reach requests |
| Realtime `realtime.gateway.ts` | socket rooms | emit, subscribe | hints only; nothing depends on them |
| Auth `auth.controller.ts`, `security.ts` | table User, signed tokens | register, login, change role, guard | a role that is taken away ends with its tokens |
| Event page, login, session `EventPage.tsx`, `Login.tsx`, `auth.tsx` | React state, sessionStorage, history entries, the token | select, log in and come back, join, wait, reserve | no click is answered by two runs; the button knows of the runs of its page, which never stays busy |
| Checkout `Checkout.tsx`, `api.ts` | React state, sessionStorage | pay, cancel, retry, walk away | what the page says of a payment is true |
| Event form `EventForm.tsx` | React state: draft, price saved | create, price, publish; repeat what is missing | no step twice; a reported event is public |
| Home `Home.tsx`, GET in `api.ts` | filters, list, timer, the call under way | filter, fetch, repeat, abort | the list belongs to the filters |

How they interact: an admitted client calls create, which takes the Redis locks
and then writes Reservation and ReservationSeat in one transaction. Cancel,
completion and the sweep each close the reservation in a transaction of their own
under its row lock, then release the Redis locks, and then emit hints and events.
Nothing joins the steps after the commit to the transaction.

Hard behaviour: requests on several replicas interleave between every two awaits;
Redis keys vanish; answers of Redis and of COMMIT are lost; processes die between
two steps; releases are late; clocks of replicas differ; a payment completion races
the sweep, a cancel and its own retry; batches are limited and break off.
PROJECT.json lists each hazard at its line.

## 2. The modules

| Module | Models | Uses | Checked by |
|---|---|---|---|
| `SeatLocks` | the Redis keys and the two Lua scripts | | through `Booking` |
| `PaymentPolicy` | `determinePaymentTransition` | | through `Booking`, `Checkout` |
| `Reservations` | create, cancel, the sweep, late and lost releases, clocks | extends `SeatLocks` | through `Booking` |
| `Payments` | start, complete, tickets | extends `Reservations`, `PaymentPolicy` | through `Booking` |
| `Booking` | the composition of the four, its properties and fairness | extends `Payments`; implements `SeatInventory` | `MCBooking` |
| `SeatInventory` | abstract: what the seat rows promise | | as a property of `Booking` |
| `BookingProofs` | theorems about `Booking` | extends `Booking`, `TLAPS` | TLAPS |
| `IdempotentStart` | start with users and keys | | `MCIdempotentStart` |
| `IdempotentStartProofs` | theorems about `IdempotentStart` | extends `IdempotentStart`, `TLAPS` | TLAPS |
| `Checkout` | the checkout page and `api.ts` against the controllers | extends `PaymentPolicy` | `MCCheckout` |
| `CheckoutProofs` | theorems about `Checkout` | extends `Checkout`, `TLAPS` | TLAPS |
| `WaitingRoom` | join, admit, expiring tokens, loss of the sequence | | `MCWaitingRoom` |
| `WaitingRoomProofs` | theorems about `WaitingRoom` | extends `WaitingRoom`, `TLAPS` | TLAPS |
| `EventPage` | seat choice, login, `reserve()` and the session in one tab | | `MCEventPage` |
| `EventPageProofs` | theorems about `EventPage` | extends `EventPage`, `TLAPS` | TLAPS |
| `EventEditing` | create, PATCH, publish, pricing of one event | | through `Catalog` |
| `EventForm` | the form of three calls among the other clients | extends `EventEditing` | through `Catalog` |
| `GetRequest` | a GET of `api()`: repeated once, aborted by its effect | | through `Catalog` |
| `HomePage` | the list of events with its filters, GET /events | extends `EventForm`, `GetRequest` | through `Catalog` |
| `Catalog` | the composition of the four, and its properties | extends `HomePage` | `MCCatalog` |
| `CatalogProofs` | theorems about `Catalog` | extends `Catalog`, `TLAPS` | TLAPS |
| `Accounts` | login, change of roles, tokens of one hour, the guard | | through `TicketCheckIn` |
| `TicketCheckIn` | check-in at several gates by accounts whose roles change | extends `Accounts` | `MCTicketCheckIn` |
| `TicketCheckInProofs` | theorems about `TicketCheckIn` | extends `TicketCheckIn`, `TLAPS` | TLAPS |
| `Notifications` | publish, consume, outages | | `MCNotifications` |
| `NotificationsProofs` | theorems about `Notifications` | extends `Notifications`, `TLAPS` | TLAPS |

`Booking` is the core. It takes every transaction apart where another actor can
come in between. `Checkout` uses the same controllers with each transaction as one
step, because cancel, completion and the sweep hold the row lock of the reservation
from their first locking statement to their commit; what that leaves out is what
`Booking` checks. `start` holds no lock, and is three steps there too. `Payments` and
`IdempotentStart` share its code: the first asks what it does to a reservation, the
second which payment it answers with.

Definitions that begin with the comment "Mutant" are never part of a specification.
They are what a definition next to them would be with a plausible mistake in the
code, and show that a property can tell the difference.

## 3. How state and actions correspond to the code

**Common conventions.** One event, since keys, rows and queues of different events
never meet. Each create or join call is a member of a set, which is also the id it
draws. A handler is cut at its awaits: what happens between two of them, or in one
transaction that holds the row it works on, is one action. A refusal that writes
nothing (404, 403, 409, 422) is a stuttering step. A failure is an action of its
own wherever an answer, a connection or a process can be lost.

**PostgreSQL.** READ COMMITTED. Unique indexes make the second INSERT wait for the
transaction that wrote the first and then fail. `FOR UPDATE` and UPDATE hold the row
until the end of the transaction: `tx[r] # "none"` says that a completion has it, and
cancel and the sweep have `tx[r] = "none"` in their guards. `InDeadlock` says that
none of a set of transactions can ever commit; PostgreSQL then lets one of them fail
(`DeadlockVictim`).

**Redis.** A Lua script is one step. A key may vanish at any time (TTL, restart,
eviction). A release after a commit is remembered in `releasing` and runs at any
later time or never.

**Clocks.** `deadline[r]` is `ahead`, `near` or `passed`. While it is `near`, two
replicas may answer `expiresAt <= new Date()` differently, and so may one replica
before and after.

**create** (`reservations.controller.ts:33-84`): `AcquireLocks` (or
`AcquireUnanswered`, which stands before the try block), `CheckOccupied`, one
`InsertSeat` per row in the order PostgreSQL meets them, `Commit`. `Conflict`,
`CreateFails`, `DeadlockVictim` end in the catch block, which releases;
`CommitUnanswered` runs the catch block although the reservation exists;
`CreateDies` releases nothing.

**cancel** (95-115) is `Cancel`. **The sweep** (137-181) is `SweepSelect`, `SweepRead`
(the seats are read outside the transaction), `SweepExpire` or `SweepSkip`, and
`SweepFails`, which ends the whole sweep.

**start** (`payments.controller.ts:35-61`) is `StartCheck` and `StartInsert`.
**complete** (64-134) is `CompleteDecide` (rows locked, clock read, seats read),
`CompleteCommit` or `CompleteRollsBack`. It looks at the payment and at the seats, not
at `Reservation.state`; the models keep that.

**Waiting room** (`waiting-room.controller.ts`): `JoinCheck` (lookup), `JoinDraw`
(INCR), `JoinInsert` (the transaction of the INSERT begins, and `now()` gives the row its
createdAt), `JoinCommit` (the others see the row), `JoinAnswer`; `JoinFails` may come
between any two of them, so that a row may be committed whose answer never arrives.
`AdmitRead` (SELECT), `AdmitSave` (one transaction). `born` is the rank of createdAt among
the entries of a user, which is what `Rejoin` looks at. `told` is the entry in the last
join answer of a user. `left` (what a SELECT of admit left out) and `unsure` (users whose
joins have overlapped) are history variables. `SequenceLost` is Redis coming back without
the key; `ReadBatch` leaves open which of the entries with one position comes first, as
ORDER BY does.

**Checkout** (`Checkout.tsx`, `api.ts`): `call[i]` is a POST between the click and its
answer. The server takes `start` apart where it awaits (`payments.controller.ts:36-61`):
`HandleLookup` finds the payment by its key or nothing, `HandleCheck` reads the reservation,
`HandleInsert` inserts or falls back on what is there. `pay` and `cancel` outlive the page that started them: `waiting` are the calls
that some flow of the tab awaits, `busy` is the one that keeps the form on the screen
loading. After `Leave` and `Return` the form is new while the older flow goes on, sends
its second call (`Proceed`) and navigates (`GoTo`), wherever the customer is by then.
`GiveUp` is the 15 second timer or a broken connection: the request may still arrive.
`stored` and `memory` are the two places of the idempotency key; `storage` says what kind
of sessionStorage the browser has. The outcome that the form had at the click is chosen at
`Proceed`, where it is used for the first time.

**Event page** (`EventPage.tsx`, `Login.tsx`, `auth.tsx`): `flow[f]` is one run of
`reserve()`, from join to the answer of POST /reservations; `here` says that its page
is still mounted. The server appears only through its answers: an expired token gets
401 (`Denied`), everything else may be refused or fail (`Fails`), because other
customers do what they like. Polling that finds the entry still queued changes
nothing and is no step; that it ends after 60 attempts is `Fails`. `hist` are the entries
of the tab's history, each with its place and its `location.state`; `now` is the one that
is shown. `resume` in an entry is `resumeReservation`, as the number of the click that led
to the login page. `Push` forgets what lay ahead, `Replace` is navigate with `replace`, and
`Go` is Back, Forward or a choice from the list. Stepping between two entries of the event
page keeps the instance (the route is the same) and changes its `location.state`, so that
the effect of line 45 may run again; every other step mounts a new one (`Unmount`).
`EffectDue` gives that effect precedence over the customer, as React does. `answered` is a
history variable: the clicks for which the effect has run. The login call is one step, and
localStorage works when sessionStorage does.

**Catalog** (`catalog.controller.ts`, `EventForm.tsx`, `Home.tsx`, `api.ts`).
`Repository.save` reads the row again (`Compare`) and updates the columns that differ
(`Write`). With the compiler target ES2022 a DTO has every declared property, undefined if
it was not sent; Object.assign copies these over the entity, and save leaves undefined
columns alone. `overlap` is a history variable.
`submit()` of the form is `Submit`, `FormCreates`, `FormPrices`, `FormPublishes`, `FormDone`;
an attempt that fails keeps `draft` and `pricingReady`, and the next one goes on from there.
The publish call of the form is one of the calls of `EventEditing` (`slot`), and may go on
after the form has given it up. An event whose creation was not answered is nobody's draft
and stays out of the model; `answered` counts what was answered.
The effect of the home page is a timer of 250 ms and a GET; a new filter cleans it up and
starts it again (`RunAgain`). `stray` are the aborted calls that still come back as
rejections. The filter `from` stands for all filters, since the page and the query treat
them alike.

**Accounts and check-in** (`auth.controller.ts:32-55`, `security.ts:18-31`,
`tickets.controller.ts:73-87`): a token says what the role was when login read it; the
guard looks at the token only. Time passes in ticks, of which a token lives `Hour`; a login
call does not outlast a tick (`api.ts` gives it up after 15 seconds). A check-in call is
`Read` and `Save`, with no lock in between.

**Notifications** (`broker.service.ts`): `channel[p]` is `live`, `broken` (the
connection is gone, the client does not know yet), `none` (`this.channel =
undefined`) or `dead` (the process). RabbitMQ takes back what a lost connection had
not acknowledged. Without a channel ack and nack throw; nothing handles the rejected
promise, and Node.js (22 in the images) ends the process: `Settle`, `Dead`.

## 4. The runs

| Run | Instance | Shows |
|---|---|---|
| booking_safety | 2 create calls, 2 seats, 1 sweeper, batch 1; symmetry | all safety, action and refinement properties of the core |
| booking_create | 3 create calls, 2 seats, nothing else | no running call loses its locks to another; every call ends |
| booking_expiry | 2 pending reservations, 2 sweepers, batch 1 | overdue reservations are closed (what sweeps may not do is proved for any number of them) |
| start_answers | 3 calls, 2 users, 2 reservations, 2 keys; symmetry | answers belong to the request; one payment per key |
| checkout | 4 calls of one tab, all kinds of storage; symmetry | what the page says is and stays true, also of flows that outlive their page |
| waiting_room | 3 joins (two of one user), 2 users, 2 administrators, capacity 1, batches of 1 or 2, 1 loss | places, capacity, order, tokens, lost answers, service of the queue |
| event_page | 2 runs of reserve() at a time, 2 logins, 2 clicks that lead to the login page, 2 entries of the history, 1 seat, both kinds of storage | no click is answered twice; the button knows of the flows of its page, which never stays busy |
| catalog | 2 calls, times 1 and 2, 2 filters, 1 form, 1 customer; symmetry | prices and times, the form, the list of events |
| gates | 2 gates, 2 accounts in any roles, 1 ticket, tokens of 2 ticks; symmetry | check-in, and the end of rights that were taken away |
| gates_twice | the same | violation, see 6 |
| notes | 3 replicas, 1 event | no message is acknowledged unrecorded; none waits for ever while replicas are connected |
| notes_outage | 1 replica, 2 events | violation, see 6 |

**Why the bounds are enough.** Two reservations and two seats contain overlap in all,
one or none of the seats, and the opposite insertion orders that deadlock; the third
create call of booking_create meets the late release of the first one while the second
is running. One sweeper is enough for its races with cancel and complete, two for the
races of replicas; batch 1 against two overdue reservations is the full batch. Four
calls of the page are two whole payments (start, complete, start, complete), or one
payment with a cancel or retry on either side. Three joins with capacity 1 have two
entries beyond the capacity and leave room for a second, overlapping or later, join of the
same user; one loss gives a position to two of them, and `WaitingRoomProofs` holds for any
number. Two runs of `reserve()` are one of a page that was left and one of the page that is
there, or two of one page; a third on one page is what `FlowsOfThePage` excludes, and it
would have to be started where the page is idle with two runs or has not resumed with two,
which two show. Two logins have an old token and a new one. Two entries of the history, of
which the oldest is dropped, are the pair [event page, event page after a login] in which
Back and Forward keep the instance; two clicks put a resuming entry on either side. One seat
is enough because the control flow asks only whether anything is chosen or left of the
choice. `EventPageProofs` holds for any number of each. Times 1 and 2 have an event that ends after it starts, and a PATCH of one time that would
turn it round; the filters have none, and one that the event passes or not. `MaxSteps` 2
lets a form repeat a step. One ticket is enough because tickets share nothing; with two
gates it is read twice, and with tokens of two ticks one is older than a change of role
and one younger. Every property of a passing run that is not a liveness property is proved for all sizes
(section 7). Two events per
replica are needed only where one request's consumer kills another's transaction
(notes_outage). `MaxNotes` 2 tells none, one and duplicate rows apart.

Symmetry is used only in runs without liveness properties. booking_expiry fixes which
seat belongs to which reservation instead (`OneEach`).

**CHECK_DEADLOCK FALSE** is set where a finite set of calls is used up and
nothing is left to do: booking_create, start_answers.

`TypeOK` is checked in the runs booking_safety, checkout, waiting_room and gates, and proved
for their modules. In the other modules it is no property of a run, but a part of the
invariant that is proved.

## 5. Fairness

- `CreateFairness`: the database answers a running call, and PostgreSQL resolves
  deadlocks; Redis drops a key in the end, which is its TTL (`lock.service.ts`, PSETEX).
  Nothing is assumed of releases or of failures: a call may end in any way, and without the
  TTL the keys of a call whose answer of Redis was lost would stay for ever.
- `SweepFairness`: the interval timer of every replica starts sweeps for ever
  (`reservations.controller.ts:137-142`); an open completion ends; a sweep that comes
  back to its turn again and again while the row is free now and then gets it
  (strong fairness: clients may complete and roll back for ever); from some time on
  sweeps do not break off.
- `WaitingRoom!Fairness`: one administrator (`Diligent`) goes on calling admit (weak
  fairness of the SELECT), and a call succeeds now and then (strong fairness of the save,
  since calls may fail in between). Nothing in the code calls admit by itself, and nothing
  is assumed of the other administrators or of the joins.
- `EventPage!Spec`: a call that is not answered is given up after 15 seconds, and
  polling after 60 attempts (`api.ts:170`, `EventPage.tsx:92`).
- `Notifications!Fairness`: Kubernetes starts dead replicas again, RabbitMQ delivers
  what is ready, and what a handler can do time and again over a live connection is done
  some time. It is not assumed that any replica is connected: after a close nothing
  connects again (`broker.service.ts:28`), and `/health/live` does not tell Kubernetes.
  `EventsAreSettled` names that case (`CutOff`) instead.

## 6. Where the code and its texts disagree

Two runs end in a counterexample, and PROJECT.json quotes the lines.

- **gates_twice**: a ticket is read without a lock and saved unconditionally; two gates
  let somebody in with the same ticket.
- **notes_outage**: ADR 0003 keeps transactions safe from RabbitMQ outages; a connection
  that closes while `consume` saves a row ends the process and every transaction it has
  open.

Smaller ones, which follow from the models and are not runs of their own:

- `start` checks the reservation and inserts the payment later
  (`payments.controller.ts:43-56`): a payment may be created for a reservation that was
  closed in between. It can never succeed, but a completion moves such a reservation
  once more between CANCELLED and EXPIRED (`DeadStaysDead` allows exactly this).
- The payment of a cancelled reservation stays PENDING until somebody completes it after
  the deadline.
- A key that `start` answered through "duplicate key" is stored nowhere, and is accepted
  for another reservation later, against the message of line 40.
- A join that has drawn its position is passed over by an admit call that reads the table
  before the entry is committed to it (ADR 0005 speaks of queued entries, which it is not
  yet); `AdmittedInOrder` says that there is no other way to be passed over.
- A `start` call that looked up its key before the payment was inserted, and reads the
  reservation after this payment was completed, is refused ("no longer payable", line 45)
  and not answered with the payment. `PaidRetryAnswered` is about calls that come to the
  lookup when the payment exists.
- After a restart of RabbitMQ every replica stays disconnected: nothing connects again,
  `/health/live` always answers ok (`health.controller.ts:59`), and the queue waits until
  somebody restarts a replica. `EventsAreSettled` says that there is no other way to wait
  for ever.
- After a login the history is [event, event with `resumeReservation`]. Back before the page
  has loaded, a run of `reserve()` from there, and Forward start a second run on the same
  page: the effect of line 45 does not look at `phase`. The first of the two to fail enables
  the button beside the other. `FlowsOfThePage` allows for this one more run, and there are
  never three at a time.
- An entry that was left before it resumed can be reached again after a second way through
  the login page. It then reserves the choice stored last, which is that of the later click,
  although that one may have been resumed already. `ResumedOnce` counts clicks, and not what
  is reserved for them.
- A 401 for an old token that arrives after a new login ends the new session
  (`api.ts:187`); `GoodSessionStays` excepts just this case.
- `reserve()` outlives its page, and takes the tab to the checkout from wherever it is.
- With sessionStorage denied, the reservation is made and line 109 of `EventPage.tsx`
  throws: the page shows an error and the seats stay locked until the sweep. Line 118
  catches the same error.
- Two overlapping admit calls that read the same entry give it two tokens, and the first
  is lost; two overlapping joins of one user save two entries, and the one that is named from
  then on may stand further behind. `TokenLivesItsTime` and `PlaceKept` except just these
  cases.
- When sessionStorage can be read and not written, the page draws a new key for every
  click, against the comment of `api.ts:233`.
- Two overlapping PATCH calls, one of `startsAt`, one of `endsAt`, leave an event that
  ends before it starts; an overlapping PATCH may take `published` back; publish writes
  every column back as it read it.
- `acquire` stands before the try block of create: when its answer is lost, the keys stay
  until their TTL (`CreateEnds` needs it).
- When Redis loses the sequence, positions begin at 1 again: `WAITING_ROOM_INITIAL_ADMISSIONS`
  customers more admit themselves, and places are given twice.
- The form repeats a creation or a price whose answer was lost: the draft of the first call
  stays unreachable, and the event gets a second price with the same name. What is changed
  in the fields after the draft exists is not sent any more.
- A list of events stays on the screen under the message of a later call that failed, with
  the filters of that later call (`Home.tsx:40-65`).
- login reads the role before it compares the password, and signs it afterwards; a role
  changed in between is in the token for its hour, as it would be in an older token.
- A customer who has gone to the tickets page while a payment completes: the load that was
  answered before the purchase writes its older list over the one that the checkout page
  has just merged into localStorage, and `navigate("/tickets")` does not load it again. The
  next visit does. When a QR code is not fetched, the saved copy of the ticket loses it.
- `createSector` saves the sector before its seats: a crash in between leaves a sector
  without seats whose name is taken.
- A seat of a sector without a price category is listed with price 0 by the availability
  query and refused by create.
- `@Type(() => Boolean)` turns the text "false" of a query into true (`dto.ts`).
- Without a Socket.IO adapter for Redis, a hint reaches only the sockets of the replica
  that sends it.

## 7. What is proved

Every safety and action property of a passing run, and the refinement of `SeatInventory`,
is a theorem: it holds for every value of the constants that the named assumptions of the
modules allow. Each proof module has the same shape. `IInv` is an inductive invariant, made
of named parts; one lemma per action, or per group of actions that do the same to `IInv`,
says that a step preserves it; `NextIInv` puts them together, and `Invariance` is the
temporal step. An invariant follows from `IInv`, an action property from `IInv` and one step.

### Booking

`BookingProofs`, for every number of seats, create calls and replicas, and every batch size:

- `TypeCorrect`, `NoSeatTwice`, `RowsAgree`, `PaymentsAgree`, `DecisionsHold`: `Spec`
  implies `[]TypeOK`, `[]NoDoubleBooking`, `[]RowsMatchState`, `[]PaidIffConfirmed`,
  `[]DecisionStaysValid`.
- `SoldStaysSold` and `DeadForGood`: `SoldForGood`, `DeadStaysDead`.
- `Refinement`: `SeatsAllOrNothing`, that is, `Booking` implements `SeatInventory`.
- `AttemptKeeps`: `AttemptKeepsItsLocks`.

None of the invariants is inductive alone. `IInv` is their conjunction with

- `ClaimsOK`: an open create transaction has claimed only seats it wants, and has no row
  yet (else its commit could overwrite one);
- `ClaimsExclusive`: a claimed seat is neither committed nor claimed by another open
  transaction. This is what carries `NoDoubleBooking` through the commit, and it comes
  from the unique index alone; no lemma of `NextIInv` uses the Redis locks;
- `KnownExist`: reservations that a sweep, a start call or a completion knows of have
  been committed, so that closing one cannot create one;
- `SnapshotOK`: the seats a sweep has read are those of the reservation as long as it is
  pending; what the sweep deletes is then all that there is.

The decided outcome of an open completion (`DecisionStaysValid`) is needed to see that
its commit confirms only a pending reservation that still has all its seats.

`TableSteps` names the four steps that write the tables; both action properties about
tables follow from it. The refinement goes through the same steps: a commit of create is
`Hold` (`CommitHolds`), cancel and the sweep are `GiveBack` (`RemovalGivesBack`), and a
completion is `Sell`, `GiveBack` or a stutter (`CompletionSellsOrGivesBack`); everything
else stutters (`StepsRefine`). `LockSteps` does the same for the keys. The locks need one
more invariant, `ReleasesAfterEnd`: no release is on its way for a call that still runs.
`CreateSpecIsSpec` carries all of it over to the instance of booking_create.

### Payment start

`IdempotentStartProofs` proves `AnswersStayOwn` and `KeysStayUnique` (`AnswerIsOwn`,
`OnePaymentPerKey`) for any number of calls, users, reservations and keys. The invariant adds
`PassedIsOwn`: every way to the INSERT and to an answer has looked at the owner.

### Checkout

`CheckoutProofs` proves `TypeCorrect`, `PaidStaysTrue`, `ReleasedStaysTrue` and `PaidRetry`
(`TypeOK`, `ToldPaidHolds`, `ToldReleasedHolds`, `PaidRetryAnswered`) for any finite number
of calls and any kind of storage. Besides what the page has said, the invariant has

- `ServerOK`: payment, reservation and seat rows agree;
- `CallsOK`: what the answer of a call says, or how far it has come, is still true of the
  server. This is what makes late answers harmless, and rests on `Forward`, the list of
  what no step takes back;
- `PaymentKeyOK`: a tab whose storage works only ever pays with the key it has stored,
  which is why `HandleLookup` recognises the retry and never sends it on to the check of the
  reservation;
- `KeysDrawn`: no key is drawn without a call to send it, which bounds the counter.

### Event page

`EventPageProofs` proves `PageFlows`, `ResumesOnce` and `GoodSessions` (`FlowsOfThePage`,
`ResumedOnce`, `GoodSessionStays`) for any number of seats, runs of `reserve()`, logins,
clicks and entries of the history. `FlowsOfThePage` is a part of the invariant: that there is
one run more only after the page has resumed is what keeps the effect, which runs once per
instance, from starting a third. Beside it there are `OverIsGone` (a run that is over belongs
to no page), `DeniedIsDead` (a 401 is only given to a token that has expired) and `AsksOnce`:
no two entries of the history ask to resume for the same click, and none for a click that has
been answered. It holds because every step that leads on from such an entry, or from the login
page before it, replaces the entry.

### Notifications

`NotificationsProofs` proves `AcksAreRecorded` (`AckedIsRecorded`) for any number of
replicas and events, whatever dies or disconnects. `HeldOnce` says that two connected
replicas never handle one message; `UnackedHeldOnce` adds that one does as long as it is
unacknowledged, so that a second copy of the work needs a lost connection.

### Waiting room

`WaitingRoomProofs`, for any finite number of join calls, any users, administrators,
capacity and number of losses:

- `PlacesStayDistinct`, `CapacityStays`, `OrderKept` and `AdmissionKept`: `PlacesDistinct`,
  `CapacityKept`, `AdmittedInOrder`, `TokenLivesItsTime`, all from `IInv`;
- `TypeCorrect`: `TypeOK`, from `TInv`, which adds that the sequence is not ahead of the joins
  that drew;
- `PlaceStays`: `PlaceKept`, from `UInv`.

The invariants count:

- `DrawnOnce`: a position was drawn at most once in every life of the sequence, and not yet
  in the present one if that has not come to it;
- `LowCounted`: the same for all positions up to the capacity together;
- `Batches`: a queued entry that stands before one of a batch and is not in it was not there
  to be left out when the batch was read. This is what carries the order from the SELECT of
  admit to its transaction;
- `BornOK`: createdAt tells the entries of a user apart, committed or not;
- `InTurn`, for a user whose joins do not overlap: what is committed next is the newest, no
  join goes on beside a newest entry that is queued, and the entry last answered is the newest
  as long as it is queued. The last part alone is not inductive, since a join that is committed
  and never answered changes what is newest; it may do so only when the entry told before is
  not queued any more.

`WaitingRoomAssumption` says that joins are finitely many and no administrator, which keeps
tokens apart; the positions themselves need no assumption.

### Catalog

`CatalogProofs` proves the five properties of the run for any number of calls, times,
filters and steps. `PricedFirst` extends `PublishedHasPrice` to every entity that is about
to be saved; `OneAtATime` says that without overlap the row, changed by the columns that a
call is going to write (`Merged`), has valid times; `PublicOK` says the same of `published`,
from the publish call of the form on. `HomeOK` ties the timer and the call to `loading`.

### Check-in

`TicketCheckInProofs` proves `TypeCorrect`, `RightsEnd` and `UsedUp` (`TypeOK`,
`RightsEndInTime`, `UsedUpForGood`) for any number of accounts and tickets and any finite
number of gates. `RolesAge` is the bound behind the second: the time since a role changed
and what is left of a token that still has the old one never exceed `Hour` together.
`AdmittedUsed` is behind the third. `OncePerGate` bounds what gates_twice shows: those let
in with a ticket and those being checked with it are together never more than the gates.

### Only model-checked

Liveness: `CreateEnds`, `OverdueCloses`, `QueueServed`, `EventsAreSettled` and `BusyEnds`.
Their fairness conditions are about ENABLED, which the installed provers do not handle.
`AdmittedOnce` and `OutagesSpareTransactions` are false (section 6).

## 8. What is not modelled, and what comes next

Not modelled: venues, sectors and seats, availability and analytics (reads and
single-row writes), registration (one INSERT under a unique index), the copy of the
tickets in localStorage, several tabs of one browser, Socket.IO hints, health, metrics,
error formats, bootstrap, seed and deployment files; PROJECT.json gives the reason for
each. Prices are only there or not there: amounts are computed once, inside create. The
clock check of `validateEventTimes` is left out, since the times of the model are ahead.

Next, in this order:

1. the copy of the tickets in localStorage, as a part of the checkout page;
2. row labels of a sector (a pure algorithm) against a reference definition.
