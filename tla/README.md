# Scud-server in TLA+

Scud-server is the backend of a ride-hailing service: a NestJS application (one
Node process, one event loop) over Postgres (Prisma), Redis (redis-om) and the
memory of the process, with the socket.io namespaces `rides` and `chats` and a
REST API. The modules here specify its components one by one, and check or prove
what each promises when handlers overlap, fail at an await, or start again after
a restart. Paths below are relative to the repository's `src/modules`.

## 1. The system

### 1.1 Components

| Component | State | Operations | What makes it correct | Module |
|---|---|---|---|---|
| Dispatch (`rides/services/ride.gateway.service.ts`) | queue, last value and connected trip of each room (`MapStore`), rooms of sockets, ride requests, trips | connect, disconnect, updateLocation, requestRides, ridesResponse | one trip per ride, for the rider who asked and the driver who accepted; drivers hidden only while they have a trip | `RideStore`, `RideDispatch` |
| Trips and settlement (same file, `trips.service.ts`) | trips, fares, balances | tripStart, cancelTrip, endTrip | a trip is settled at most once, only if it started, and no commission is lost | `TripHandlers`, `Rides`, `Settlement` |
| Driver search (`redis/repository/user.repository.ts`, `rides/helpers`) | – | findDriver | free drivers of the area, ranked | `DriverSearch` |
| Online users (`user.repository.ts`), time online | entities of a user in Redis, session times | search, remove, push; saveTime | at rest one entity, online only with an open socket | `OnlineUsers` |
| Payments (`payment/`) | transactions, charges of the provider, `paid` of fares | init, verify, webhook | a successful transaction has paid its trip; what is paid was charged | `Payments` |
| Withdrawals, bank accounts | requests, accounts | create, review, remove | requests under review do not pile up | `Withdrawals` |
| One-time passwords, login, verification | tokens, verified contacts | request, verify, login | tokens and their acceptances are bounded | `OneTimePasswords` |
| Registration, account officers | accounts, officers, supervisors | register, assign, supervise | one account per phone; officers share the drivers | `Registration` |
| Guards, roles, permissions | roles, grants, users' roles | guard of each request; create, grant, assign, remove | what passes is granted; endpoints can be answered | `Access`, `Endpoints` |
| Seeds (`database/seeds/seed.ts`) | roles, grants, staff; places, banks, settings | the seeder, interrupted and rerun | a rerun completes what is missing | `SeedGrants`, `SeedPlaces` |
| Administered tables (nine services) | rows | create, update, remove | a name is not repeated without end | `Catalog` |
| Countries, states, cities | what is switched on | update | active only in active | `Regions` |
| Locations | areas | create, update, remove, findByPoint | areas do not cover each other's corners | `Fences` |
| Fares, peak fares | rows | create, update, remove, calculate | one fare per place and vehicle | `Fares` |
| Promos, discounts | rows with their users | create, update, remove | a promo is for the users it names | `Promos` |
| Driver promos | row, participation | create, participate, progress | completed only by working | `DriverPromos` |
| Notifications, cron | jobs in memory, saved notices | send, schedule, run | sent at most once, and what was queued is sent | `Notices` |
| Chat | entities in Redis, messages | connect, disconnect, send, read | entities do not pile up | `Chat` |
| Licenses, vehicles | rows | create, update, verify, remove | a verified license is not rewritten | `Papers` |

### 1.2 How the parts interact

A driver's app connects, which writes an entity to Redis. A rider's `requestRides`
searches Redis for free drivers, joins the room named after the rider, prices the
ride (fares, Google Maps), stores the drivers found in `MapStore` and offers the
ride to the first. A `ridesResponse` reads the driver last offered from `MapStore`,
writes a ride request and, on acceptance, a trip, connects the trip to the room
and overwrites the driver's entity; on rejection it disconnects the socket and
offers the ride to the next driver. `tripStart`, `cancelTrip` and `endTrip` find
the trip through the first room of the socket. `endTrip` writes the status, the
fare, the driver's balance and the driver's entity, one after another. The app
then pays the fare through `Payments` and, of the balance, asks for `Withdrawals`.

Every REST request passes three guards (token, permission, verified contact)
before its handler. The other components meet in tables only: they read what
another has written (the fare of a location, the areas a driver is in, the role of
a user) and none waits for another. So their modules are checked apart, and what
one reads of another is a constant or an arbitrary value in it.

### 1.3 What is hard

* **Interleaving.** A handler gives up the event loop at every `await`. What it
  has read before is used after: the last value of the room, the snapshot of the
  driver, the balance, the row that was looked for and not found. No transaction
  and no lock spans two awaits.
* **Three stores.** Redis and Postgres survive a restart; `MapStore`, rooms,
  sockets and scheduled jobs do not.
* **Failure.** Any await may throw; handlers catch and stop, keeping what they
  wrote.
* **Repetition.** An app may send any event again; the server keeps no identifier
  of an offer or of a request. Providers and apps report an outcome twice, or late.
* **Statements that run by themselves.** The seeder and the scheduler start
  promises that nobody awaits.

`PROJECT.json` lists the hazards, each at its line, with the property that would
catch it.

## 2. The modules

    RideStore ── RideDispatch ──┐
        │            │          ├── Rides ── Settlement (refined)
        └─ TripHandlers ────────┘     ├───── RidesProofs ── SettlementProofs
                     │                └───── MCRides
                     ├── DispatchProofs
                     └── MCDispatch
    DriverSearch ─── MCDriverSearch, SearchProofs

    Requests ┬ OneTimePasswords ┐
             ├ Registration     ├ MCAccounts
             ├ Access           │     Endpoints ── Access
    SeedGrants ─────────────────┘
    Requests ┬ Payments, Withdrawals, Catalog, Regions, Fences, Fares,  ┐
             ├ Promos, DriverPromos, Notices, Chat, OnlineUsers, Papers ├ MCServices
    SeedPlaces ─────────────────────────────────────────────────────────┘
    AccountsProofs: of MCAccounts and its four components
    ServicesProofs: of MCServices and its thirteen
    RaceProofs: of OneTimePasswords, Registration, Chat, Withdrawals, Papers, Catalog
    SerialProofs: of SeedGrants, SeedPlaces, Fares, Promos, Regions, OnlineUsers

**Requests** is the event loop as every REST module uses it. A handler in flight
is a *slot*: `task[s]` holds what the handler has read and, in `pc`, the step it
takes when its await returns. `Begin` fills a slot, `Await` goes on to the next
step, `Finish` ends the handler, whether it returned or threw. Each service method
is an action per stretch of code between two awaits that other handlers can tell
apart. The rides modules work the same way over `RideStore`.

**RideStore** declares the state the rides modules share: `presence` (Redis),
`queue`, `last`, `connected` (`MapStore`), `rooms`, `sock`, `live` (socket.io),
`trips`, `rideRequests`, `fares`, `balance` (Postgres), `inbox` (offers an app has
received) and `task`. The presence handlers, which read the entity and write it
back whole, are kept in `pending`, one of each kind per driver. `OfferNext` is
`MapStore.pop` followed by `informDriver`: both run without giving up the event
loop to another event, since their awaits resolve in microtasks.

**RideDispatch** has an action per step of connect, disconnect, updateLocation,
handleRideRequest (`RequestRide`, `OfferRide`) and handleRideResponse
(`AnswerOffer`; `RecordAccept`, `CreateTrip`, `MarkBusy`; `RecordReject`), and is
a specification of its own in which trips are never started. **TripHandlers** has
the steps of handleTripStart, handleCancelRide and handleTripEnd (`EndTrip`,
`CompleteTrip`, `PriceTrip`, `ReadBalance`, `WriteBalance`, `ReleaseDriver`).
**Rides** composes both and adds `Fail` (an await throws, the handler stops) and
`Restart` (memory, rooms, sockets and slots are gone).

**Settlement** is the abstract specification of the money: a trip that has started
is charged at most once, its commission is then due and credited to one driver.
`Rides` implements it by the mapping in `Promise` (charged: the rows of
`trip_fare`; due: a handler between the fare and the balance; credits: the
commissions in the balances). It has one parameter, `Lossless`: handlers one at a
time lose nothing, and then every step of `Rides` is a step of the lossless
settlement; otherwise a commission may get lost, and nothing more.

**DriverSearch** computes what RideDispatch leaves open: which drivers of the
index are offered the ride and in which order. **OnlineUsers** opens up what
RideDispatch takes for one write, the update of an entity as a search, a remove
and a push, and adds the times of a session.

**Access** runs the guards over **Endpoints**, the table of all REST endpoints with
what their decorators ask. **Catalog** has one set of actions for nine services
that differ in what they look for and in what the database refuses (`Tables`).

**MC…** modules give symmetry sets and values of constants. `MCAccounts` and
`MCServices` compose components that share no state in one specification: the
variable `part`, chosen at the start, says which of them acts, and each property
speaks of the variables of its own part. The table of `Catalog` is left open only
in the part that uses it.

Definitions introduced by "For contrast" are faulty variants of the definition
after them. No specification uses them; they show that a property depends on that
piece of code, since replacing the definition by its variant breaks the property.

### 2.1 What is abstracted

* A balance is a function from trips to how often the trip's commission is in it;
  the code adds or subtracts an amount, which is an absolute write either way.
* Of `SocketUsers` the model keeps is_online, is_in_ride, the socket and whether
  fence names the area of the pickups (there is one area). Vehicle type and mode
  of payment admit an arbitrary subset of the eligible drivers.
* The order in which candidates leave the queue is open in RideDispatch.
* `findFirst` with an undefined id returns any row that matches the other
  conditions (`Lookup`): Prisma drops undefined filters.
* handleDriverArrival has no action: it updates the column `drival_arrival`
  (`rides/services/trips.service.ts:109`), which does not exist, so it always
  fails.
* Riders are always connected; a rider's new socket is `RiderReconnect`.
* Texts, amounts, dates and images are model values or left out. A date is a day
  (`Notices`) or told by its order (`OneTimePasswords` has the three ages of a
  token that the code compares). Money is a small number in `Withdrawals` and
  `Fares`, where it is compared.
* An area is a stretch of a line (`Fences`): what the service asks of polygons is
  which corners and points they cover.
* Redis and Postgres answer each command at once and in order; a failure is an
  answer the handler gets. Nested writes of Prisma are one transaction, its
  upserts with nested writes are a look and a write (`SeedGrants`).

## 3. What is checked

| Run | Question | Bounds | Distinct states |
|---|---|---|---|
| `dispatch_any` | Do the rows of an acceptance agree, and is no driver offered a ride twice, whatever the apps send? | 1 rider, 2 drivers, 2 trips, 2 slots, 2 requests, repeated answers | about 970 000 |
| `dispatch_turns` | Does each of two competing riders get one trip, with the driver who accepted? | 2 riders, 2 drivers, 2 trips, 2 slots, one request per rider, one answer per offer | about 180 000 |
| `rides_any` | Types; settled once; no fare without a start; hidden only with a trip | 1 rider, 1 driver, 2 trips, 2 slots, every await may throw | about 570 000 |
| `rides_restart` | Is every step a step of the abstract settlement, over a restart? | 1 rider, 1 driver, 2 trips, 1 slot, 2 requests, 1 restart, every await may throw | about 810 000 |
| `rides_serial` | Is every commission kept, is only an unstarted trip cancelled, and is the settlement lossless? | 2 riders, 1 driver, 2 trips, 1 slot, Google and fare lookups may throw | about 125 000 |
| `rides_live` | Does an accepted request get its trip, and a priced trip its credit? | 1 rider, 1 driver, 1 trip, 2 slots, 2 sockets | about 185 000 |
| `search` | Who is offered a ride, in which order? | lists of up to 3 of 15 kinds of drivers, 2 modes, 2 vehicles, 2 areas | about 39 000 |
| `search_closest` | Is the first driver the closest, as the comment of `findDriver` says? | as above | **violated** |
| `accounts` | Passwords, registration, guards and the seeds of grants | 2 slots; 3 tokens; 3 accounts and phones, 2 officers; 2 callers, 3 roles; 2 permissions, 3 runs of the seeder | about 860 000 |
| `services` | The thirteen other components | 2 slots and two or three rows in each, 2 runs of the seeder | about 910 000 |
| `fences` | Are the corners written for a location covered by no other? | 1 slot, 2 locations, points 0 to 3 | **violated** |
| `notices` | Is a notice in the queue when its sender was told so? | 2 slots, 2 notices, 1 day | **violated** |

Why these bounds. A race here needs two handlers in flight, or one handler and a
presence handler; two slots give every pair, and the bounds that count handlers
(`…PerRace`) are reached with two. Mixing up two rides needs two trips,
competition for a driver two riders, and a rejection with someone left to offer
the ride to two drivers. A restart matters once, between any two steps. Two
requests of a rider reach a room that already has a last value and a trip. Ties
and both sorts of `filterAndSort` need three drivers and three scores. Tables have
one row more than handlers can write at once, so that a bound on the rows is never
the bound of the model. A rerun of the seeder needs an earlier run that was
interrupted, and `accounts` has two of them before the third. The model values of
rows are the same in all parts of a run, so that one symmetry serves all.

Deadlock is not checked: at its bounds (requests, trips, sockets, rows) the system
rightly stops.

### 3.1 What the runs show

*Rides.*

* `TripHasAcceptedRequest` and `NeverOfferedAgain` hold for any behaviour of the
  apps, since handleRideResponse uses the last value it read at first throughout.
* `OneTripPerRequest` and `TripGoesToWhoAccepted` need apps that take turns. With
  `RepeatAnswers = TRUE` or `MaxRequests = 2` TLC finds a second trip, and a trip
  for a driver who did not accept: nothing on the server matches an answer with
  its offer.
* `SettledAtMostOnce` and `FareOnlyIfStarted` hold at any interleaving, with
  failures and restarts, and each rests on one line: the unique `trip_id` of
  `trip_fare`, and the refusal of a NaN duration by Prisma.
* `Settles` holds in `rides_serial` with `Lossless` (the definition
  `OneAtATime`: one slot, and no failure between the fare and the balance) and in
  `rides_restart` without.
* `NoCommissionLost` and `CancelOnlyUnstarted` hold for one handler at a time
  only. With two slots TLC finds a balance overwritten by one computed before
  (`ride.gateway.service.ts:555-566`) and a trip cancelled just after it started
  (`:607-608`). Nothing in the repository promises otherwise, so these are
  recorded here and as hazards, not as findings.

*Races between a look and a write.* The services look for a row, await, and write.
Where no unique key decides, the look bounds what overlaps: `LiveTokensPerRace`,
`AcceptedPerRace`, `PendingPerRace`, `EntitiesPerRace`, `VerifiedPerRace`,
`SameNamePerRace` and `OfficersShareDrivers` say that there is never more of a
thing (tokens, acceptances, requests, entities, rewritings, equal names, drivers
more than another officer) than handlers in flight, however long the system runs.
The bounds are reached: two requests at once do leave two. Where a key decides,
there is one: `OneAccountPerPhone`, and in `SameNamePerRace` the tables with a
unique name.

*Order of writes.* `SuccessIsPaid` holds since a trip is marked before its
transaction, `PaidOnlyIfCharged` although a verification may write an old outcome.
`PromoIsAsWanted` and `ActiveInActive` hold between updates that do not overlap
and do not stop half-way; `OneFarePerPlace` needs in addition that no update names
the location alone, which the validator does not look at; `GoneIsOffline` is about
one user, whose handlers do not overlap. The history variables `wanted`,
`overlapped`, `disturbed` and `regionsDisturbed` record just that.

*Reruns.* `RerunCompletes` and `PlacesComplete`: a run of the seeder that finds
what others have to wait for (roles and permissions, countries) repairs all that
earlier runs lost, whatever order its upserts finish in. A first run may lose
grants, and may fail.

*Rights.* `PassedIsGranted` and `EndpointsAnswerable` concern the guards; the
second reads the decorators of all endpoints.

*Once.* `DeliveredOnce`: no notice is sent twice. `CompletedByWorking`: rates of
nothing are NaN, so nobody completes a driver promo by doing nothing.

*Violations.*

* `ClosestDriverFirst` fails: `filterAndSort` sorts by score after distance
  (`rides/helpers/rides.helpers.ts:55-58`), while the comment says "It finds the
  closest driver to the rider." (`ride.gateway.service.ts:207`).
* `WrittenUncovered` fails: the update of a location's coordinates has no WHERE
  (`location/services/location.service.ts:252`) and sets those of all locations.
* `QueuedIsQueued` fails: jobs are named after their day, so the second notice of
  a day is refused by the scheduler after its sender was answered
  'Notification queued' (`notifications/services/notification.service.ts:113`).

### 3.2 Fairness

`Fairness` of `Rides` is weak fairness of the steps of each slot and of the writes
of the presence handlers: the event loop resumes every continuation whose promise
has settled, and calls of Redis, Postgres and Google settle, with an answer or an
error. Events of apps, `Fail` and `Restart` get none. `rides_live` has no restarts
and lets only the lookups of Google and fares throw, which happen before the fare
is inserted: an error of Postgres between fare and balance would leave the trip
uncredited for good, in the model as in the code. The other components promise
nothing that must happen: their specifications state safety only.

## 4. What is proved

Theorems hold for any sets of riders, drivers, trips, users, rows, any number of
handlers in flight and any bounds. TLC evaluates their assumptions on every run.

| Module | Theorems |
|---|---|
| `RidesProofs` | `TypeCorrect` (`RidesTypeOK`), `NoDoubleSettlement` (`SettledAtMostOnce`), `NoFareWithoutStart` (`FareOnlyIfStarted`) |
| `SettlementProofs` | `GatewaySettles` (`Settles`: the refinement), `CommissionsKept` (`NoCommissionLost`), `CancelsInTime` (`CancelOnlyUnstarted`) |
| `DispatchProofs` | `RoomsApart` (`RoomHoldsItsRidersTrip`), `TripsWereAccepted` (`TripHasAcceptedRequest`), `AcceptanceIsKept`, `NobodyOfferedTwice` (`NeverOfferedAgain`), `HiddenDriversHaveTrips` (`BusyOnlyWithTrip`), `OneTripEach` (`OneTripPerRequest`), `TripsGoToWhoAccepted` (`TripGoesToWhoAccepted`) |
| `SearchProofs` | `OffersRanked` (`RankedByScoreThenDistance`), `OffersComplete` (`OffersAreFreeDrivers`), `NoCashForDebtors` (`DebtorsTakeNoCash`) |
| `AccountsProofs` | `AccessTyped`, `GuardGrants` (`PassedIsGranted`), `GuestsAnswered` (`EndpointsAnswerable`), `AccountsTyped` (`AccountsTypeOK`) |
| `ServicesProofs` | `PaymentsTyped`, `SuccessPays` (`SuccessIsPaid`), `NothingPaidUncharged` (`PaidOnlyIfCharged`), `NoticesTyped`, `NobodyNotifiedTwice` (`DeliveredOnce`), `CompletedWorked` (`CompletedByWorking`), `ServicesTyped` (`ServicesTypeOK`) |
| `RaceProofs` | `EntitiesBounded`, `PendingBounded`, `LiveTokensBounded`, `AcceptancesBounded`, `VerifiedBounded`, `PhonesUnique`, `DriversShared`, `NamesBounded` (of the properties of these names) |
| `SerialProofs` | `RerunRepairs` (`RerunCompletes`), `PlacesRepaired` (`PlacesComplete`), `FaresUnique` (`OneFarePerPlace`), `UpdateIsAsWanted` (`PromoIsAsWanted`), `OnlineWhileConnected` (`GoneIsOffline`), `RegionsNested` (`ActiveInActive`) |

So every property that a passing run checks is proved, but for the two of liveness.

Assumptions: `None` is no value of the other types; riders and drivers are
disjoint; bounds are naturals; the slots are finite in number (`SlotsAreFinite`,
without which "as many as handlers in flight" says nothing); the constants that
are tables of the model (endpoints, owners of sockets, places) have their types.
Five theorems of the rides have a hypothesis, which is the bound of the run that
checks them: one handler at a time (`OneHandler`), and besides no failure between
fare and balance (`OneAtATime`); each rider asks once and each offer is answered
once (`TakeTurns`); the insert of a trip does not fail (`TripsGetWritten`). Section
3.1 names what TLC finds with two handlers and without turns.

*Types of the rides.* `RidesTypeOK` is not inductive: a handler that resumes uses
fields that may be `None`. `Inv` adds that each handler in flight holds what its
next step uses (`TaskOK`: a room, a candidate, a trip that exists, a balance) and
that connected trips exist. `SlotStep` reduces an action to the new record of its
slot and the store.

*Settlement.* `SettledAtMostOnce` says nothing of the copies of balances that
handlers hold, and a stale copy written back could restore what another handler
has overwritten. `LedgerInv` says that a commission *held* — in a balance or in a
copy about to be written — is held for one driver and its trip has a fare; that a
handler between the fare and the balance works on a trip with a fare, whose
commission nobody holds; and that no two handlers settle one trip. Inserting the
fare starts this, since only one insert succeeds; reading copies what the balance
holds; writing adds the commission to a copy that lacked it. The refinement adds
`CopyInv`: with one handler at a time, the copy of a balance about to be written
is the balance. `StartInv` carries what handleTripEnd read of
`start_date` to the insert of the fare; start_date is never removed
(`StartKept`).

That a commission is not lost is a fact of the abstract settlement, where a trip
charged is due until it is credited; the refinement carries it over (`ChargedInv`).
`CancelInv` says that what handleCancelRide found unstarted still is when it
writes, which only the other handlers could change.

*Dispatch.* `AcceptedInv`: a handler past the insert of an accepted request has
that request for the candidate it will write into the trip. `QueueInv`: the
candidates of a room, queued or popped, are of different drivers (`OneEach`).
`BusyInv`: every copy of an entity in flight that says in_ride is of a driver with
a trip.

*Taking turns.* `OnePlace`: the ride a rider asked for is in one place at a time, a
handler that decides about it, the offer in one driver's app, or a trip, and the
offer is out to the driver popped last. Each step moves it on. A second answer to an
offer, or a second request, would put it in two places. `AcceptanceHeld` needs no
turns: the handler that recorded an acceptance holds the room and the driver of the
trip until it writes it.

*Search.* `Arranged` lists a finite set in a strict order by counting what comes
earlier: the count grows along the order, so no two members share it and, by
cardinality, every place is taken (`EarlierGrow`, `ArrangedLists`). A stable sort is
the arrangement of the places by key, then by place (`StableSortSorts`), so sorting
by score what was sorted by distance is ranked by both.

*Payments, notices, guards.* A successful outcome in the hands of a verification
is that of a charge, which never goes back. An undelivered notice is in one place
(`OnePlace`), a handler or a job. What the guard remembers between its two reads
(`Remembers`) is only ever added to, unless the user is removed. `KnowsUser`: a
handler at a step that reads the user of the request was not called by a guest. It
rests on a fact of every decorated endpoint, shown controller by controller
(`ControllersAgree`): one that lets guests in asks for no permission, and
permissions asked for are seeded.

*Driver promos.* A rate of nothing is NaN, which meets no goal, so a completion
that is recorded has compared counts other than zero; `WorkInv` adds that whatever
a handler has read of a driver's work are counts, and `Plausible` that they stay
so: no more rides end than were travelled, are travelled than accepted, accepted
than asked for.

*Types.* `AccountsTyped` and `ServicesTyped` need, per component, that a handler in
flight has what its next step uses, as `RidesTypeOK` does. Where the type of a task
said less, the induction failed and showed what had to be added: the withdrawal
under review is there (`Reviewed`), an area about to be written has corners
(`FenceTask`), an account that gains a role exists (`RegisterTyped`), and an upsert
that has found its role or permission will still find it (`Fits`: seeding removes
no row), so that grants refer to rows.

*Races.* `Room(n, about)` says that the n things written and the handlers about to
write share the slots. A look that passes finds nothing written; a write moves its
handler into the rows; `Share` is the same of a set of rows. One lemma each for
the moves, and every bound above is an instance. Names need more, as an update
looks past its own row: another handler may rename that row before it is written.
`CatalogInv` therefore says it of every subset of the rows with a name, with the
handlers about to add to that subset.

*Reruns of the seeder.* `RerunInv` and `PlacesInv` say of every row a run is to
leave that it is there, that an upsert under way will write it, or that the function
which sends those upserts is still to come (`SuperDue`, `OtherDue`; `StateDue`,
`CityDue`, `BankDue`). Of the super administrator's upserts, which fail together
when one has been faster, all that is asked is granted or none (`AllOrNone`).

*Handlers that do not overlap.* One invariant per module says what the handler in
flight knows at each step and that it still is so when it writes: no fare stands
where it will put one (`FareFits`); what the promo has and what the handler has yet
to write make up its list (`PromoFits`, which holds beside handlers of discounts
too); what says online has an open socket or a disconnect on the way to it
(`OnlineIsConnected`); cities that are on lie in states that are on, or in a
country that is being switched off (`CitiesFit`).

*Only model-checked.* `PricedTripIsCredited` and `AcceptedRequestGetsTrip`, which
rest on fairness and with it on ENABLED, out of the prover's reach; their safety
halves are `CommissionsKept` and `AcceptanceIsKept`. The three properties that are
violated have a counterexample instead.

## 5. Not modelled

* Queries, listings, earnings, acceptance rates and statistics: they read.
* Night fares: `create` throws at every call (the import of moment has no
  default), so that there never is one to update, remove or charge.
* Referrals: the module is commented out of `AppModule`. `InfoCompleteGuard` is not
  in use, and `driverCanBeOnline` is called from a comment only.
* The webhook of Paystack always throws; createRecipient and transfer of the
  gateways are never called, so that an approved withdrawal moves no money in the
  code either. The verification of a vehicle is never written.
* Signing of tokens, hashing of passwords, uploads, mails and messages are calls of
  libraries: what matters of them is that they are awaited and may throw.
* Media and reviews: single writes with nothing to check. Google Maps, Sentry,
  health and the socket adapter: external calls and wiring.

Known limits, by hazard: in a room with two trips, which ride a driver means is
not observable, so `RoomHoldsItsRidersTrip` speaks of rooms; a driver may be
booked by two riders, in the model as in the code; the sum of two withdrawals
may exceed the balance, as nothing compares it; a late verification overwrites
the status of a transaction, which `SuccessIsPaid` permits; a chat user with an
open socket may have no entity, or one of a closed socket, until the next connect.
