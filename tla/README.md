# Verification of the supplier hub

The supplier hub is an HTTP service between a booking site and car rental
suppliers. This directory holds TLA+ models of the parts of it that are hard to
test, TLC configurations that check them on small instances, and TLAPS proofs of
the most important results for every instance. Paths below are relative to
`src/internal/` unless they begin with `src/`.

## 1. The system

### 1.1 Components

| Component | State it keeps | Operations | Interacts with |
|---|---|---|---|
| Routes, `platform/platform.go` | none | `/:platform/{rates, booking, booking-status, modify, cancel, locations}` | middleware chain, platforms |
| Platform factory, `platform/factory` | map of platforms, filled on demand, no lock | `GetPlatform` | Redis factory |
| Request grouping, `trafficlight/grouping` | two Redis keys per cache key: lock and answer | `HandleRequest` | Redis, the rates handler as `requester` |
| Platforms, `platform/implementations/{hertz, profitmaxdht, bookingcom, anyrent, rently}` | none of their own | one `Execute` per operation | supplier over HTTP, caches in Redis |
| Supplier access tokens, `{anyrent,rently}/auth.go` | one Redis key per account | `authRequest.Execute` | supplier, Redis |
| Extras cache, `hertz/rates.go` | one Redis key per location and duration, five days | fetch, store | supplier, Redis |
| Error and request buckets, `schema/{error,history}.go` | mutex-guarded slices | add, read | HTTP transports |
| Card data and user service, `tools/client` | none | token, card of a customer | other services |
| Web, `web`, and server, `src/cmd/server.go` | process life | validate, recover, serve, shut down | everything |

A `/rates` request passes `PreparePlatform`, `TapLogger`, `PrepareParams`, then
the grouping middleware, and only then, if it leads, the rates handler. All other
routes go straight to their handler. A Go error of a handler becomes a 500 and
the response built so far is dropped. Bookings, cancellations, statuses and
modifications run with a background context, so neither the client nor the hub's
timeout takes back what a supplier has been sent. Rates run with the request's.

### 1.2 What is hard, and what makes each part correct

* **Request grouping.** Requests of any number of hub instances meet in Redis
  only. Locks expire under slow leaders, `DEL` deletes whatever lock is there,
  Redis errors are ignored or make a request lead, clients hang up, handlers
  panic, instances die, and the Redis client repeats commands. Correct: one
  leader at a time as long as nothing undermined the lock; answers from the cache
  are genuine and die in time; every request ends.
* **Bookings.** The supplier acts and the hub does not hear of it, or hears too
  late, or cannot read it; the client repeats. Correct: OK is true, a booking is
  never passed over in silence, a repeated cancellation is not an error where the
  code recognises it, a status does not lie.
* **Tokens.** Two clocks, concurrent misses, no invalidation. Correct: a token in
  the cache is granted and at most one timeout too old.
* **Hertz re-quote and AnyRent locations.** Goroutines per vehicle or page,
  bounded channels, collectors, and the closing of channels. Correct: everything
  accounted for once, nobody blocked for ever, nobody sends on a closed channel.
* **Rates.** Two supplier requests of Hertz at once, each in a goroutine that
  owes one message, and a close of the channels. Correct: nobody sends on a closed
  channel, what failed is in the answer, once, and everything ends.
* **Prices.** Configuration, payment type and payment rules decide what is in a
  vehicle's price and what beside it, and the code for Hertz exists three times
  (rates, re-quote, ProfitMax). Correct: options move money, they do not make any;
  a re-quote shows what a search shows.
* **Documents.** What a client gives back (a reference, extras, supplier data) was
  made by another handler, or by another search that the cache answered. Correct:
  each document agrees with what was offered, ordered or quoted.
* **Server and routes.** Exit while requests drain, the unsynchronised map and
  flag, and error paths without `Abort`. Correct: everything taken is answered,
  unless the process ends; a warm process does not die of its map.

`PROJECT.json` lists the hazards at their lines with the properties for each.

## 2. Modules

| Module | Models | Constants |
|---|---|---|
| `SharedAnswer` | abstract promise of request grouping | `Request`, `None` |
| `RequestGrouping` | `trafficlight/grouping` for one cache key | `Request`, `None`, `LockTTL`, `GoodTTL`, `BadTTL` |
| `RequestGroupingProofs` | theorems about it | |
| `PlatformReplies` | what each platform makes of a supplier's reply | `Booking`, `None`, `ZeroId` |
| `SupplierBookings` | a client, the hub's handlers and the supplier; uses `PlatformReplies` | and `Call` |
| `BookingDesk` | abstract promise of bookings, cancellations and modifications | `Call`, `Booking`, `None` |
| `SupplierBookingsProofs` | theorems about it, and that it implements `BookingDesk` | |
| `AuthTokens` | the token cache of one account | `Call`, `Lives`, `Timeout`, `MaxTime`, ... |
| `AuthTokensProofs` | theorems about it | |
| `HertzQuote` | `hertz/quote.go`, `Execute` | `Vehicle` |
| `HertzQuoteProofs` | theorems about it | |
| `AnyRentLocations` | `anyrent/locations.go`, `Execute` | `MaxPages`, `MaxStations` |
| `AnyRentLocationsProofs` | theorems about it | |
| `SupplierRates` | `Execute` of the five `rates.go` | `Request`, `Mixes`, `None` |
| `HubProcess` | the server, the chain of the rates route, and `SupplierRates` at its end | and `Unregistered` |
| `HubProcessProofs` | theorems about it, `SupplierRates` included | |
| `Offers`, `Requests`, `Locations` | types of the schema, and what stations' schedules become | `None`, `Latin` |
| `HertzOffers`, `HertzDocuments` | Hertz: vehicles and prices; documents | |
| `ProfitMax`, `Bookingcom`, `AnyRent`, `Rently` | the other platforms: both | |
| `Journey` | one customer on one platform; composes the eight above | and `Sessions`, `Iata` |
| `OffersProofs` | lemmas: what `Only` and `Sum` compute, what each platform makes of an offer | |
| `JourneyProofs` | theorems about `Journey` | |
| `MC...` | symmetry sets for TLC | |

Every module has, before its actions, the mistakes its properties are tried
against: operators that no action uses, each the body of one action or operator
as a plausible bug would leave it. `PROJECT.json` pairs them with properties.

### 2.1 RequestGrouping

One instance is one cache key. `pc[c]` is where request `c` is in
`requestOrWait` and `requestSupplierAndStore`: `check` (the `select` on the
context), `fetch` (GET of `"res:" + key`), `acquire` (SETNX), `sleep` (400 ms),
`request` (the supplier is asked), `store` (SET), `release` and `giveup` (DEL after
an answer or an error), `direct` (asked without the protocol, after a failed
GET). `lock` and `stored` are the two Redis keys and `lockTTL`, `storedTTL` their
remaining lives; `Tick` is time. Redis keeps an empty string as lock; the model
keeps its owner, which no action's guard reads but `Tick`'s history bookkeeping.

A response is who obtained it and whether it is good: a 2xx status with a body
that parses and has no `errors`. That is all `requestSupplierAndStore` looks at.

What can fail: GET (`FetchError`); SETNX before or after it took effect, or
because the context is cancelled (`AcquireError`); SET and DEL silently
(`StoreResponse`, `ReleaseLock`); the supplier (`good = FALSE`), the requester
(`RequesterFails`), the handler (`RequesterPanics`), the client (`Disconnect`) and
the process (`Crash`). `tools/redisfactory` leaves the Redis client its default of
three retries, so a command whose reply was lost is executed again: the actions
`...Repeated` are the first execution, and the ordinary action that follows is
the second.

`RequesterFails` and `DirectFails` are the manager's paths for an error of the
requester. The middleware's requester returns `c.Err()`, which gin answers with
nil unless the engine has `ContextWithFallback`, and the router does not set it: in
the service as it is wired, a cancelled leader returns, and stores, an error
response instead. The paths are modelled because the manager has them and its
tests use them; they only add behaviours to what is checked.

`breach` is a history variable, read by properties only. It records what the
design cannot survive: a request that leads after a failed SETNX, a lock that ran
out under its leader, and a DEL executed twice. The safety of the lock is stated
up to the first breach, because after it the code makes no promise; everything
else (answers, lifetimes, the refinement, termination) is stated without it.

### 2.2 SupplierBookings and PlatformReplies

`platform` is chosen once. Each call goes through the points of its handler:
`token` and `card` (Booking.com bookings), `auth` (AnyRent, Rently), `ask`, `wait`,
and for Booking.com, which asks the status of what it has just booked,
`askstatus` and `waitstatus`. `wire[c]` carries the request until the supplier takes
it and then the reply. `GiveUp` leaves a request on the wire, so that the supplier
may act later. A reply may be damaged when it is read (`Heard`). `PlatformReplies`
has one operator for each platform and operation that takes a reply to an answer:
HTTP code, status, reference and whether `errors` has an entry.

The supplier is external and modelled as doing what it says: a confirmation is
sent only for what was done. It may refuse, fail, or reply with an empty document.
An empty 2xx reply to a DELETE of the two JSON suppliers is taken as theirs, not
as a refusal: both platforms answer it OK, and whether that is right is the
supplier's contract, which the repository does not have. References are members
of `Booking`; `ZeroId` is the "0" AnyRent's `GetId` makes of a missing id.

`BookingDesk` is what all this comes to for a client: a call is `new`, `open` or
`closed`; `Ask` names a booking some answer has named; `Book`, `Cancel` and `Modify`
happen while the call is open, or later if its answer has an error; `Tell` closes it
and says done only of what is done. There is no platform and no wire in it. The
definition `Desk` of `SupplierBookings` maps `pc` to the phase and `answer` to the
notice (OK or not, reference, errors or not); the bookings at the supplier are the
same in both.

### 2.3 AuthTokens

`now` is the clock of the supplier and of Redis. The supplier's life of a token
starts when it is granted, the cache's when it is stored. A token is named after
the call it was granted to. `Timeout` bounds the time from sending a request to
having stored its token, and that of the operation that uses it; `Tick` does not
pass it. An answer without a token decodes to the empty token and a life of zero,
which SETEX refuses.

### 2.4 HertzQuote and AnyRentLocations

Control points of the goroutines, and channels as bounded sequences, or as a
rendezvous where they are unbuffered. In `HertzQuote` each of the two collectors
holds a message in `hand` between receiving and recording, and counts down
afterwards. A panic of a quote's goroutine is recovered and sent as an error; one
in a page's goroutine of AnyRent is not, and ends the process (`alive`).

### 2.5 SupplierRates and HubProcess

`main[q]` is the point of `Execute` at which request `q` is, `worker[q][b]` that of
its goroutine for branch `b` (`rates`, `extras`), and `channel[q][b]` what is in
that goroutine's two channels of capacity one, of which it uses one. ProfitMax
and Booking.com have one branch, AnyRent and Rently none. `failed` is a history
variable. `equips` is the Redis key that two requests for the same branch and
length of rental share.

`HubProcess` puts the chain of the rates route before it: `stage[q]` is the
function at which gin is. A function that does not abort lets the next run, so
`bodies` may count more than one. Whether `middleware.HandleError` of the
service-helpers library aborts is not in the repository: `errorAborts` is either,
fixed from the start. A write of the factory's map is two steps, `LookUp` and
`Register`; another goroutine's access in between may end the process (`crashed`)
or not, as the Go runtime says of its detection. The server is `listener`, the
flag `shutdown`, the goroutine that waits for the signal, and `exit`. The flag is
read without synchronisation: when `ListenAndServe` fails of itself while the flag
is being set, either value may be read.

### 2.6 Journey and the modules it composes

A journey is one customer of one contract, from the search to the cancellation,
or one import of locations. Its session says what the supplier may answer. The
parts of a handler that compute are operators: `ParseVehicle` and `MapVehicles` of
a platform make vehicles of an answer, `RatesDocument`, `BookingDocument` and so on
make documents. A vehicle is its class, price, list of extras and fees, reference,
mileage and features; a document is the record of its elements, None for one that
is left out. `Nil...` are the pointers that a handler follows unasked; a request
that meets one is not answered with a document, but by the panic recovery.

`Conforms` relates records to the types in the code: what a type cannot do
without and what it can. The assumption `SessionsConform` says so of what suppliers
answer and contracts are configured with, the invariant `TypeOK` of every document.

Amounts are integers, chosen such that percentages are exact; dates are hours;
names, stations and codes are members of small sets. The grouping cache is
`stored`: a search whose key is there is answered from it, as `RequestGrouping`
promises. The identification that a supplier gives an offer is the trip it was
made for, so that a property can compare it with the trip booked.

## 3. What TLC checks

| Run | Instance | Shows |
|---|---|---|
| `grouping_safety` | 3 requests, lives 1, 1, 2 | exclusion until a breach, own lock released, genuine answers, mortal keys, `SharedAnswer` implemented |
| `grouping_liveness` | 2 requests, lives 2, 1, 2 | every request ends, keys expire |
| `grouping_waits` | 2 requests | **violated**: a second request leads when the lock runs out |
| `grouping_fromcache` | 2 requests | **violated**: a request asks with the answer in the cache |
| `supplier_bookings` | 2 bookings, 4 calls, 5 platforms | OK is true, no silent booking, repeated cancellation, status, `BookingDesk` implemented |
| `cancel_failed` | 1 booking, 2 calls | **violated**: FAILED for a cancellation that succeeds |
| `auth_tokens` | 3 calls, lives 0 to 2, timeout 1, 4 instants | how stale a token can be |
| `hertz_quote` | 3 vehicles | accounting, closing, termination |
| `anyrent_locations` | up to 4 pages of up to 2 stations | all or nothing, closing, termination |
| `hub_process` | 2 requests: both Hertz, or Booking.com and Rently | closing, failures told, answers counted, exit code, the map, termination |
| `journey` | 2 377 sessions of the five platforms | prices, opening hours, and every document against what came before it |
| `rently_extras` | the same | **violated**: a booking without its extras |

The four violated runs check what a test's name or the schema's comment says,
against what the code does; section 6 has them.

**Bounds.** Three requests are a leader, the leader that follows it, and a third
that one of their DELs could let in; a fourth plays no part that these do not.
A lock of one tick can run out at any moment; the liveness run has two so that a
lock may be renewed before it ends, which is one of the mistakes tried. A good
answer lives longer than the others, so that an error can replace a good answer
with time left. Two bookings are needed for a reference to be the wrong one, and
four calls for a booking, its cancellation, its repetition and a status, or a
second booking in between. Three tokens are two in a race for the cache and one
more for a later miss. Three vehicles fill the error channel of capacity one,
block a second sender and keep a third busy; likewise three pages besides the
first. Two requests of Hertz meet in the extras' cache and in the factory's map;
ProfitMax takes the same steps as Booking.com, AnyRent the same as Rently, so
`hub_process` needs one of each. The sessions of `journey` are all combinations of
Hertz's pricing options, payment types and price parts, and for documents each
option changed by itself; three trips differ in time of day or station, which is
what the cache key tells apart or not. A journey has one booking and at most one
modification, the cache forgets only after the booking, and a booking that the
supplier refuses ends the journey. `MaxTime`, `MaxPages` and `MaxStations` are the only bounds in guards.
Symmetry is used in runs without liveness properties.

**Deadlock** is checked for the two goroutine modules, whose ends are explicit
steps, and not for the others, which end when every call has.

**Fairness.** `RequestGrouping`: weak fairness of each request's own steps, since
the Go scheduler runs a goroutine that can run and supplier calls have timeouts;
weak fairness of `Tick`, since time passes; strong fairness of `AcquireLock`,
because otherwise Redis could lose the reply to every SETNX for ever, each one
locking the request out until it expires. Clients, failures and crashes have none. The
goroutine modules: weak fairness of each goroutine, with the supplier's answer or
timeout as one of its steps. `HubProcess`: the same for `Execute`, its goroutines
and each function of the chain, and for `Exit`; signals, failures of the listener
and the expiry of the extras have none. The others claim no liveness.

## 4. What is proved

For any set of requests and any positive lives (assumptions `Durations` and
`NoneIsFresh`), in `RequestGroupingProofs`:

* `TypeCorrect`.
* `SingleFlightHolds` and `ReleasesOwnLockHolds`. Neither is inductive: that two
  requests do not lead says nothing of why the next cannot. `LeaderHoldsLock`,
  whoever leads is the holder of the lock until a breach, is inductive with the
  types, and gives both.
* `HitIsGenuineHolds`. `AnswersHaveOwners` says of every answer in hand whose it
  is, and that the stored one is still in the hands of its owner, who obtains
  only one. Only together are they inductive.
* `KeysAreMortalHolds`, from the same, since the stored value's kind bounds its
  life.
* `PromiseKept`: `RequestGrouping` implements `SharedAnswer`, under the mapping
  of `pc` to `new`, `open` and `closed`, of `got` to `answer` and `stored` to
  `shared`. Each action is one step there, or none.

For any calls, lives and timeout (assumption `Clock`), in `AuthTokensProofs`:
`TypeCorrect`, `CacheOutlivesByTimeoutHolds`, `TokenIsGrantedHolds` and
`RejectedOnlyWhenStaleHolds`, from one inductive invariant `IInv`, whose further
part `CallsAreTimely` says what is known of a call at each point: how long it has
been waiting and how the end of its token relates to the moment it asked.

For any calls, bookings and platform (assumption `NoneIsFresh`), in
`SupplierBookingsProofs`: `TypeCorrect`, `OKIsTrueHolds`, `NoSilentBookingHolds`,
`RepeatedCancelIsOKHolds`, `StatusIsNotStaleHolds`. Lemmas first say of each
platform's part of `PlatformReplies` when it says OK and when it must have an
error. None of the properties is inductive: an answer is true because of the reply
it was made of, and stays true although a request may still be on the wire. So
`IInv` follows a call (`Handlers`), the one booking made for it from the wire to
the answer (`Bookings`), what a confirmation on the wire means (`Confirmations`),
and what can be heard of a booking that was cancelled before (`Repetitions`). The
lemma `Elsewhere` says once that a step for one call leaves these true of the others.
`DeskKept` is the refinement of `BookingDesk`: every step of a handler, the network or
the supplier is one step there, or none. It needs, besides `IInv`, the invariant
`Closings`: a cancellation or modification still on the wire after the answer was
answered with an error, and every reference the client holds is that of an answer.
`EndingTells` and `SupplierActs` map the answers and the supplier's acts.

For any finite set of vehicles (assumption `VehiclesAreFinite`), in
`HertzQuoteProofs`: `TypeCorrect`, `NoSendOnClosedHolds`, `AccountedForOnceHolds`,
`ReturnedIsFinalHolds`. `Balance` equates the WaitGroup with the goroutines that have
yet to send and the messages not counted down, so that at zero nothing is left;
`Tracked` says how often a vehicle occurs on the way of a channel, from queue
over collector to slice.

The types of `HertzQuote` and `AnyRentLocations` are proved and not checked by a run.

For any numbers of pages and stations (assumption `Bounds`), in
`AnyRentLocationsProofs`: `TypeCorrect`, `AllOrNothingHolds`, `NoSendOnClosedHolds`.
`Counted` says that what `Execute` has counted, and what waits in the channel of
capacity one, are the pages whose goroutine has ended; `Handing` that a station is
located or still in the hands of its page.

For any requests, platforms and lengths of rental (assumptions `CallsHavePlatforms`,
`NoneIsFresh`, `NoneIsNoCode`), in `HubProcessProofs`: `TypeCorrect`,
`NoSendOnClosedHolds`, `FailuresReportedHolds`, `AnsweredHolds`, `ExitCodeHolds`,
`SafeWhenWarmHolds`. `Accounts` says of each point of `Execute` which goroutines owe
a message and which have delivered one, and how many branches that failed the
bucket has; `Progress` how many answers there may be at each function of the
chain; `Stopping` who closes the listener.

For any sessions whose parts have the types of the code, in `JourneyProofs`, each
of the eight invariants that the run `journey` checks:

| Theorem | Invariant | For every |
|---|---|---|
| `WellFormed` | `TypeOK` | contract, offer and order, on every platform |
| `OfferBooked` | `BookedAsOffered` | history of searches and what they left in the cache |
| `QuoteModified` | `ModifiedAsQuoted` | the same, and every re-quote |
| `ExtrasReach` | `ExtrasOrdered` | order, of any length, with codes repeated and quantities left out |
| `RequoteShown` | `QuoteAsRates` | offer, payment rule and contract of Hertz |
| `CoveragesPaidOnce` | `CoveragesOnce` | the same |
| `PaidAlike` | `WhereNotWhat` | the same, if the supplier's taxes agree |
| `StationOpen` | `OpenWhenSupplierIs` | schedule of any number of stations |

Their assumptions, in `Journey`, are these. `SessionsConform`: a contract, a
customer, a supplier's answer and an order have the types that the code decodes
them to, and a quantity that is ordered is not negative. `TaxesAgree`: where Hertz
gives the tax of the rental fee in percent and as an amount, both mean the same;
the code takes the one or the other depending on `fpPaynowVehiclePriceWithTax`, so
`WhereNotWhat` is false of a supplier that errs, and no other theorem uses it.
`LatinConforms`: the transliteration table maps to text. `NoneIsNoValue`: a nil
pointer is none of the values. `TextIsText`: the literals in the code are strings,
which the prover cannot see of a whole set of them. TLC evaluates all of them on
the sessions of its runs.

*The inductive invariant.* That a booking names an offer for its own rental does
not follow from the types, since the vehicle may come from an entry of the cache
that another search left. `Fitting` therefore says of every entry that it fits every
trip of the session that has its key: its references have the stations, the day
and the length of that trip, with a re-quote's those of the booking, and its
vehicles have the shape of the schema. `KeyFits` is the reason: trips with one key
agree on what `Fits` looks at. `Fitting` with the properties of what was ordered
(`BookedStep`, `ModifiedStep`, `ExtrasStep`) is inductive. `AnswerOffered`, that a
vehicle of the last answer has the total and charges of an offer, carries
`TaxesAgree` to the answer, for `PaidAlike`; `SentConform`, that each document is
one of its platform's, carries `WellFormed`.

*The operators.* `OffersProofs` has no state in its proofs. It shows first that
`Only` picks, in order, what its set says, and what `Sum` makes of sums, of
concatenations and of equal parts. The library's induction theorems take an
operator, which the prover cannot be given; they are stated again for a set of
numbers (`NatSetInduction`, `UpToInduction`), and the recursive functions proved
from that. Then `HertzMapped`, `ProfitMaxMapped` and so on type what each platform
makes of an offer; `RepeatedCount`, `CodesCount` and `AnyRentCount` count an order
through AnyRent's two lists; `VehicleAlike` and `QuotesShown` compare `parseQuote` with
`parseVehicle`; `HertzTotal` gives the total of a vehicle as a sum of its five
kinds of items, from which `VehicleOnce`, `VehicleSame` and `WherePaid` say what a
contract's options change in it.

Every invariant and every action property of a passing run is proved. Only
model-checked are the liveness properties (`EveryRequestEnds`, `KeysExpire` and
`EverythingEnds` of three modules), which rest on fairness and `ENABLED` and are
beyond the prover.

## 5. Not modelled

* Validation against the OpenAPI document, a library's work, but for its outcomes;
  the HTTP transports; the buckets' contents beyond whether there is an error.
* Logging, `TapLogger` and the slow log: no result depends on them.
* Generated code: clients of two services, union accessors, the API document.
* Names, addresses, coordinates, pictures and other data that is copied.
* Rounding: prices are computed in floating point and rounded when written.
* The order of AnyRent's optional items, which the code takes from a map.
* The transliteration table, of which the models know that it has entries.

## 6. Where code and documentation differ

* `grouping_waits`. The test `trafficlight/grouping/requesst_manager_test.go:119`
  says "should wait for other process to finish requesting". The wait ends with
  the lock, one minute after it was taken, not with the request.
* `grouping_fromcache`. The test at line 100 says "should get the request from
  cache". A request that misses, and takes the lock after the leader stored its
  answer and released the lock, does not look again.
* `cancel_failed`. `schema/gen_schema.go:432` says of the status of a cancellation
  "Was the cancellation successful." FAILED is also what a client is told when
  the hub does not know.
* `rently_extras`. `rently/booking.go:131` collects the extras of a booking in a
  variable that shadows the one the document takes. `schema/gen_schema.go:245` calls
  the code of such an extra "Supplier extra code", `rently/json/vehbookingrq.go:9`
  provides for it, and `booking_test.go:363` orders one.

Seen while modelling, without a run, since nothing in the repository says what
ought to be:

* AnyRent's hours of the week are given for weekday 0, which the schema calls
  "everyday": a client that reads it so has the station open on weekends at the
  week's hours too. A time without a colon, an empty one as well, is a panic.
* Cancellations carry the surname and country as `SupplierData` gave them, while
  bookings have them transliterated and mapped.
* `bookingcom/bookingstatus.go:115` asks by `ReservNumber`, which the schema calls
  the broker's; the status request within a booking puts the supplier's there.
* The cache keys of Hertz, ProfitMax and Booking.com do not have payment type,
  country of residence, time of day, or the booking to be modified. A re-quote
  that is answered from a search has no quote, and the modification made of it
  neither `Reference` nor, without direct sell, `VehPref`.
* A mileage in miles comes out as Km, number unchanged.
* ProfitMax has `fpPayFeesLocally` decide about tax, not about fees.
* With coverages in the rate, those the supplier had included already are added to
  the price once more (`CoveragesOnce` says by how much).
* `hertz/modify.go`: `FlightNumber` decides whether `FlightNo`, another parameter, is
  written; line 205 tests `Timeouts.Rates` and follows `Timeouts.Booking`.
* Pointers followed unasked: quantities of extras, Hertz billing numbers and
  loyalty programmes, 3-D Secure values, the names a cancellation needs.
* A quote and a modification do not say where the car is returned.

