--------------------------- MODULE JourneyProofs ---------------------------
(***************************************************************************)
(* Proofs about a customer's journey.                                      *)
(*                                                                         *)
(* The inductive invariant is Fitting: whatever the hub shows or keeps in  *)
(* the grouping cache has its type and refers to offers that the supplier  *)
(* made for the stations, the day and the length of the rental.  It says   *)
(* so of every entry of the cache and every trip that has its key, which   *)
(* is what an answer from the cache needs.  AnswerOffered and SentConform  *)
(* say in addition where the supplier's vehicles come from and that        *)
(* documents have their types.                                             *)
(***************************************************************************)
EXTENDS OffersProofs

-----------------------------------------------------------------------------
(***************************************************************************)
(* The inductive invariant.                                                *)
(***************************************************************************)
\* The supplier's vehicles once it has identified them, and the hub's.
Answered == Offered(platform, OfferId, OrNone(QuoteId), Route)
VType == VehicleFor(platform)

\* What identifies an offer was issued for a trip, or for another that differs by the
\* time of day alone.
Fits(id, t) ==
  /\ id.pickUp = t.pickUp /\ id.dropOff = t.dropOff
  /\ SameRental(id, t.from, t.until)

FitsTrip(on, v, t) ==
  LET reference == v.supplierRateReference
  IN  /\ on = "hertz" =>
           /\ Fits(reference.fromRates, t)
           /\ reference.fromQuote # None =>
                reference.fromQuote.booking = "conf" /\ Fits(reference.fromQuote, t)
      /\ on = "profitmaxdht" => Fits(reference.fromRates, t)
      /\ on = "bookingcom" =>
           /\ Fits(reference.vehicleId, t)
           /\ reference.pickUpLocationId = t.pickUp
           /\ reference.dropOffLocationId = t.dropOff
           /\ reference.basePrice = v.price
      /\ on = "anyrent" =>
           /\ reference.pickupStation = t.pickUp /\ reference.pickupDate = t.from
           /\ reference.dropOffStation = t.dropOff /\ reference.dropOffDate = t.until

\* Vehicles for a trip.
FitTrip(on, found, t) == \A i \in DOMAIN found : FitsTrip(on, found[i], t)

TypeInv ==
  /\ session \in Sessions
  /\ trip \in session.trips \cup {None}
  /\ answer \in Seq(Answered)
  /\ vehicles \in Seq(VType) /\ quoted \in BOOLEAN
  /\ \A key \in DOMAIN stored : stored[key] \in Seq(VType)
  /\ trip \notin session.trips => answer = <<>> /\ vehicles = <<>>
  /\ ordered # None =>
       /\ ordered.trip \in session.trips /\ ordered.vehicle \in VType
       /\ ordered.extras \in session.orders
  /\ booking # None =>
       booking = [reference |-> "conf", supplierData |-> SupplierData]
  /\ quoted => platform = "hertz"
  /\ DOMAIN sent = Kinds

ShownFits == FitTrip(platform, vehicles, trip)

\* The vehicles under a key are for every trip that has this key.
StoredFits ==
  \A key \in DOMAIN stored :
    /\ key # None
    /\ \A t \in session.trips : Key(Params(t, None)) = key => FitTrip(platform, stored[key], t)

-----------------------------------------------------------------------------
\* What a session is, by its parts.
LEMMA SessionParts ==
  ASSUME session \in Sessions
  PROVE  /\ platform \in {"hertz", "profitmaxdht", "bookingcom", "anyrent", "rently"}
         /\ customer \in Customer /\ session.paymentType \in {"full", "partial"}
         /\ session.trips \subseteq Rental
         /\ session.offers \subseteq Seq(Offered(platform, {None}, {None}, {None}))
         /\ session.equips \in Seq(Hertz!PricedEquip)
         /\ session.orders \subseteq Seq(BookingExtraOrFee)
         /\ cfg \in Configurations(platform, cfg)
<1> DEFINE s == session
<1>1. s \in Sessions
  OBVIOUS
<1> HIDE DEF s
<1>2. /\ s.platform \in {"hertz", "profitmaxdht", "bookingcom", "anyrent", "rently"}
      /\ s.cfg \in Configurations(s.platform, s.cfg)
      /\ s.customer \in Customer
      /\ s.paymentType \in {"full", "partial"}
      /\ s.trips \subseteq Rental
      /\ s.offers \subseteq Seq(Offered(s.platform, {None}, {None}, {None}))
      /\ s.equips \in Seq(Hertz!PricedEquip)
      /\ s.orders \subseteq Seq(BookingExtraOrFee)
  BY <1>1, SessionsConform DEF Platforms
<1> QED BY <1>2 DEF platform, cfg, customer, s

\* What a trip is, and what is issued for it.
LEMMA TripParts ==
  ASSUME NEW t \in Rental, NEW existing
  PROVE  /\ t.pickUp \in STRING /\ t.dropOff \in STRING /\ t.from \in Int /\ t.until \in Int
         /\ IssuedFor(t) \in OfferId /\ Fits(IssuedFor(t), t)
         /\ IssuedFor(Params(t, existing)) = IssuedFor(t)
         /\ Params(t, existing).pickUp = t.pickUp /\ Params(t, existing).dropOff = t.dropOff
         /\ Params(t, existing).from = t.from /\ Params(t, existing).until = t.until
         /\ Params(t, existing).booking = existing
         /\ Params(t, existing).rentalDays \in Int
<1>1. t.pickUp \in STRING /\ t.dropOff \in STRING /\ t.from \in Int /\ t.until \in Int
  BY DEF Rental
<1>2. /\ Params(t, existing).pickUp = t.pickUp /\ Params(t, existing).dropOff = t.dropOff
      /\ Params(t, existing).from = t.from /\ Params(t, existing).until = t.until
      /\ Params(t, existing).booking = existing
      /\ Params(t, existing).rentalDays = RentalDays(t)
  BY DEF Params, RatesRequest
<1>3. RentalDays(t) \in Int
  BY <1>1 DEF RentalDays, Day, HoursPerDay
<1>4. IssuedFor(t) \in OfferId
  BY <1>1 DEF IssuedFor, OfferId
<1>5. Fits(IssuedFor(t), t)
  BY <1>1 DEF IssuedFor, Fits, SameRental, Day, HoursPerDay
<1>6. IssuedFor(Params(t, existing)) = IssuedFor(t)
  BY <1>2 DEF IssuedFor
<1> QED BY <1>1, <1>2, <1>3, <1>4, <1>5, <1>6

\* A vehicle that the supplier has identified.
LEMMA HertzIssued ==
  ASSUME NEW va \in Hertz!VehAvail({None}, {None}), NEW id \in OfferId
  PROVE  LET issued == [va EXCEPT !.reference = id]
         IN  /\ issued \in Hertz!VehAvail(OfferId, OrNone(QuoteId))
             /\ issued.reference = id
<1> HIDE DEF OfferId, QuoteId
<1> QED BY DEF Hertz!VehAvail, OrNone

Identified(match, id, way) == [match EXCEPT !.vehicleId = id, !.route = way]

\* A match that the supplier has identified.
LEMMA BookingcomIssued ==
  ASSUME NEW match \in Bookingcom!SearchRSMatch({None}, {None}), NEW id \in OfferId,
         NEW way \in Route
  PROVE  LET issued == Identified(match, id, way)
         IN  /\ issued \in Bookingcom!SearchRSMatch(OfferId, Route)
             /\ issued.vehicleId = id /\ issued.route = way
<1> HIDE DEF OfferId, Route
<1> QED BY DEF Bookingcom!SearchRSMatch, Identified

\* What the hub makes of an answer to a search are vehicles for the trip.
SearchGives(offer, t) ==
  LET params == Params(t, None)
      issued == Issued(offer, params)
  IN  /\ issued \in Seq(Answered) /\ Mapped(issued, params) \in Seq(VType)
      /\ FitTrip(platform, Mapped(issued, params), t)

\* A search with Hertz gives vehicles of their type, for the trip.
LEMMA HertzSearch ==
  ASSUME session \in Sessions, platform = "hertz",
         NEW t \in session.trips, NEW offer \in session.offers
  PROVE  SearchGives(offer, t)
<1> DEFINE params == Params(t, None)
           a == Issued(offer, params)
           E == Hertz!VehAvail(OfferId, OrNone(QuoteId))
           found == Hertz!MapVehicles(a, session.equips, params, cfg).vehicles
<1>1. /\ Answered = E /\ VType = HertzVehicles(OfferId, QuoteId)
      /\ Mapped(a, params) = found
      /\ offer \in Seq(Hertz!VehAvail({None}, {None}))
      /\ t \in Rental /\ session.equips \in Seq(Hertz!PricedEquip)
  <2>1. /\ session.offers \subseteq Seq(Offered(platform, {None}, {None}, {None}))
        /\ session.trips \subseteq Rental /\ session.equips \in Seq(Hertz!PricedEquip)
    BY SessionParts
  <2>2. Offered(platform, {None}, {None}, {None}) = Hertz!VehAvail({None}, {None})
    BY DEF Offered
  <2>3. /\ Answered = E /\ VType = HertzVehicles(OfferId, QuoteId)
        /\ Mapped(a, params) = found
    BY DEF Answered, Offered, VType, VehicleFor, SupplierRateReferences, HertzVehicles, Mapped
  <2> QED BY <2>1, <2>2, <2>3
<1>2. IssuedFor(params) \in OfferId /\ params.rentalDays \in Int /\ Fits(IssuedFor(params), t)
  BY <1>1, TripParts
<1>3. a = [i \in DOMAIN offer |-> [offer[i] EXCEPT !.reference = IssuedFor(params)]]
  BY DEF Issued
<1> HIDE DEF a, params, E
<1>4. \A i \in DOMAIN offer : a[i] \in E /\ a[i].reference = IssuedFor(params)
  <2> SUFFICES ASSUME NEW i \in DOMAIN offer PROVE a[i] \in E /\ a[i].reference = IssuedFor(params)
    OBVIOUS
  <2>1. offer[i] \in Hertz!VehAvail({None}, {None})
    BY <1>1
  <2> QED BY <2>1, <1>2, <1>3, HertzIssued DEF E
<1>5. a \in Seq(E) /\ DOMAIN a = DOMAIN offer
  BY <1>1, <1>3, <1>4
<1>6. /\ found \in Seq(HertzVehicles(OfferId, QuoteId))
      /\ \A i \in DOMAIN found : found[i] # None /\ \E j \in DOMAIN a :
           found[i] = Hertz!ParseVehicle(a[j], session.equips, params, cfg)
  BY <1>1, <1>2, <1>5, HertzMapped DEF E
<1> HIDE DEF found
<1>7. ASSUME NEW i \in DOMAIN found
      PROVE  FitsTrip(platform, found[i], t)
  <2>1. PICK j \in DOMAIN a : found[i] = Hertz!ParseVehicle(a[j], session.equips, params, cfg)
    BY <1>6
  <2>2. a[j] \in E /\ a[j].reference = IssuedFor(params)
    BY <1>4, <1>5
  <2>3. /\ found[i].supplierRateReference.fromRates = a[j].reference
        /\ found[i].supplierRateReference.fromQuote = None
    BY <1>1, <1>2, <1>6, <2>1, <2>2, HertzParsed DEF E
  <2> QED BY <2>2, <2>3, <1>2 DEF FitsTrip
<1> QED BY <1>1, <1>5, <1>6, <1>7 DEF SearchGives, FitTrip, a, params

\* And so does one with ProfitMax.
LEMMA ProfitMaxSearch ==
  ASSUME session \in Sessions, platform = "profitmaxdht",
         NEW t \in session.trips, NEW offer \in session.offers
  PROVE  SearchGives(offer, t)
<1> DEFINE params == Params(t, None)
           a == Issued(offer, params)
           E == ProfitMax!VehAvail(OfferId)
           found == ProfitMax!MapVehicles(a, params, cfg).vehicles
<1>1. /\ Answered = E /\ VType = ProfitMaxVehicles(OfferId)
      /\ Mapped(a, params) = found
      /\ offer \in Seq(ProfitMax!VehAvail({None})) /\ t \in Rental
  <2>1. /\ session.offers \subseteq Seq(Offered(platform, {None}, {None}, {None}))
        /\ session.trips \subseteq Rental
    BY SessionParts
  <2>2. Offered(platform, {None}, {None}, {None}) = ProfitMax!VehAvail({None})
    BY DEF Offered
  <2>3. /\ Answered = E /\ VType = ProfitMaxVehicles(OfferId)
        /\ Mapped(a, params) = found
    BY DEF Answered, Offered, VType, VehicleFor, SupplierRateReferences, ProfitMaxVehicles, Mapped
  <2> QED BY <2>1, <2>2, <2>3
<1>2. IssuedFor(params) \in OfferId /\ params.rentalDays \in Int /\ Fits(IssuedFor(params), t)
  BY <1>1, TripParts
<1>3. a = [i \in DOMAIN offer |-> [offer[i] EXCEPT !.reference = IssuedFor(params)]]
  BY DEF Issued
<1> HIDE DEF a, params, E
<1>4. \A i \in DOMAIN offer : a[i] \in E /\ a[i].reference = IssuedFor(params)
  <2> SUFFICES ASSUME NEW i \in DOMAIN offer PROVE a[i] \in E /\ a[i].reference = IssuedFor(params)
    OBVIOUS
  <2>1. offer[i] \in ProfitMax!VehAvail({None})
    BY <1>1
  <2>2. offer[i] \in Hertz!VehAvail({None}, {None})
    BY <2>1, ProfitMaxTypes
  <2>3. \A va \in Hertz!VehAvail({None}, {None}), id \in OfferId :
          /\ [va EXCEPT !.reference = id] \in Hertz!VehAvail(OfferId, {None})
          /\ [va EXCEPT !.reference = id].reference = id
    <3> HIDE DEF OfferId
    <3> QED BY DEF Hertz!VehAvail
  <2>4. a[i] \in Hertz!VehAvail(OfferId, {None}) /\ a[i].reference = IssuedFor(params)
    BY <2>2, <2>3, <1>2, <1>3
  <2> QED BY <2>4, ProfitMaxTypes DEF E
<1>5. a \in Seq(E) /\ DOMAIN a = DOMAIN offer
  BY <1>1, <1>3, <1>4
<1>6. /\ found \in Seq(ProfitMaxVehicles(OfferId))
      /\ \A i \in DOMAIN found : found[i] # None /\ \E j \in DOMAIN a :
           found[i] = ProfitMax!ParseVehicle(a[j], params, cfg)
  BY <1>1, <1>2, <1>5, ProfitMaxMapped DEF E
<1> HIDE DEF found
<1>7. ASSUME NEW i \in DOMAIN found
      PROVE  FitsTrip(platform, found[i], t)
  <2>1. PICK j \in DOMAIN a : found[i] = ProfitMax!ParseVehicle(a[j], params, cfg)
    BY <1>6
  <2>2. a[j] \in E /\ a[j].reference = IssuedFor(params)
    BY <1>4, <1>5
  <2>3. found[i].supplierRateReference.fromRates = a[j].reference
    BY <1>2, <1>6, <2>1, <2>2, ProfitMaxParsed DEF E
  <2> QED BY <2>2, <2>3, <1>2 DEF FitsTrip
<1> QED BY <1>1, <1>5, <1>6, <1>7 DEF SearchGives, FitTrip, a, params

\* And one with Booking.com.
LEMMA BookingcomSearch ==
  ASSUME session \in Sessions, platform = "bookingcom",
         NEW t \in session.trips, NEW offer \in session.offers
  PROVE  SearchGives(offer, t)
<1> DEFINE params == Params(t, None)
           a == Issued(offer, params)
           E == Bookingcom!SearchRSMatch(OfferId, Route)
           found == Bookingcom!MapVehicles(a, cfg).vehicles
           way == [pickUp |-> params.pickUp, dropOff |-> params.dropOff]
<1>1. /\ Answered = E /\ VType = BookingcomVehicles(OfferId)
      /\ Mapped(a, params) = found
      /\ offer \in Seq(Bookingcom!SearchRSMatch({None}, {None})) /\ t \in Rental
  <2>1. /\ session.offers \subseteq Seq(Offered(platform, {None}, {None}, {None}))
        /\ session.trips \subseteq Rental
    BY SessionParts
  <2>2. Offered(platform, {None}, {None}, {None}) = Bookingcom!SearchRSMatch({None}, {None})
    BY DEF Offered
  <2>3. /\ Answered = E /\ VType = BookingcomVehicles(OfferId)
        /\ Mapped(a, params) = found
    BY DEF Answered, Offered, VType, VehicleFor, SupplierRateReferences, BookingcomVehicles, Mapped
  <2> QED BY <2>1, <2>2, <2>3
<1>2. /\ IssuedFor(params) \in OfferId /\ Fits(IssuedFor(params), t)
      /\ way \in Route /\ way.pickUp = t.pickUp /\ way.dropOff = t.dropOff
  BY <1>1, TripParts DEF Route
<1>3. a = [i \in DOMAIN offer |-> [offer[i] EXCEPT !.vehicleId = IssuedFor(params), !.route = way]]
  BY DEF Issued
<1> HIDE DEF a, params, E, way
<1>4. \A i \in DOMAIN offer :
        a[i] \in E /\ a[i].vehicleId = IssuedFor(params) /\ a[i].route = way
  <2> SUFFICES ASSUME NEW i \in DOMAIN offer
               PROVE a[i] \in E /\ a[i].vehicleId = IssuedFor(params) /\ a[i].route = way
    OBVIOUS
  <2>1. offer[i] \in Bookingcom!SearchRSMatch({None}, {None})
    BY <1>1
  <2> DEFINE issued == Identified(offer[i], IssuedFor(params), way)
  <2>2. a[i] = issued
    BY <1>3 DEF Identified
  <2>3. /\ issued \in Bookingcom!SearchRSMatch(OfferId, Route)
        /\ issued.vehicleId = IssuedFor(params) /\ issued.route = way
    BY <2>1, <1>2, BookingcomIssued
  <2> QED BY <2>2, <2>3 DEF E
<1>5. a \in Seq(E) /\ DOMAIN a = DOMAIN offer
  <2>1. DOMAIN a = DOMAIN offer /\ a = [i \in DOMAIN offer |-> a[i]]
    BY <1>3
  <2>2. DOMAIN offer = 1 .. Len(offer) /\ Len(offer) \in Nat
    BY <1>1
  <2> QED BY <1>4, <2>1, <2>2
<1>6. /\ found \in Seq(BookingcomVehicles(OfferId))
      /\ \A i \in DOMAIN found : \E j \in DOMAIN a : found[i] = Bookingcom!ParseVehicle(a[j])
  BY <1>5, BookingcomMapped DEF E
<1> HIDE DEF found
<1>7. ASSUME NEW i \in DOMAIN found
      PROVE  FitsTrip(platform, found[i], t)
  <2>1. PICK j \in DOMAIN a : found[i] = Bookingcom!ParseVehicle(a[j])
    BY <1>6
  <2>2. a[j].vehicleId = IssuedFor(params) /\ a[j].route = way
    BY <1>4, <1>5
  <2>3. /\ found[i].supplierRateReference.vehicleId = a[j].vehicleId
        /\ found[i].supplierRateReference.pickUpLocationId = a[j].route.pickUp
        /\ found[i].supplierRateReference.dropOffLocationId = a[j].route.dropOff
        /\ found[i].supplierRateReference.basePrice = found[i].price
    BY <2>1 DEF Bookingcom!ParseVehicle, Bookingcom!VehicleOf
  <2> QED BY <2>2, <2>3, <1>2 DEF FitsTrip
<1> QED BY <1>1, <1>5, <1>6, <1>7 DEF SearchGives, FitTrip, a, params

\* And one with AnyRent.
LEMMA AnyRentSearch ==
  ASSUME session \in Sessions, platform = "anyrent",
         NEW t \in session.trips, NEW offer \in session.offers
  PROVE  SearchGives(offer, t)
<1> DEFINE params == Params(t, None)
           a == Issued(offer, params)
           E == AnyRent!FleetGroup
           found == AnyRent!MapVehicles(a, params).vehicles
<1>1. /\ Answered = E /\ VType = AnyRentVehicles
      /\ Mapped(a, params) = found
      /\ offer \in Seq(E) /\ t \in Rental
  <2>1. /\ session.offers \subseteq Seq(Offered(platform, {None}, {None}, {None}))
        /\ session.trips \subseteq Rental
    BY SessionParts
  <2>2. Offered(platform, {None}, {None}, {None}) = E
    BY DEF Offered
  <2>3. /\ Answered = E /\ VType = AnyRentVehicles
        /\ Mapped(a, params) = found
    BY DEF Answered, Offered, VType, VehicleFor, SupplierRateReferences, AnyRentVehicles, Mapped
  <2> QED BY <2>1, <2>2, <2>3
<1>2. /\ params.pickUp = t.pickUp /\ params.dropOff = t.dropOff
      /\ params.from = t.from /\ params.until = t.until
      /\ t.pickUp \in STRING /\ t.dropOff \in STRING /\ t.from \in Int /\ t.until \in Int
  BY <1>1, TripParts
<1>3. a = [i \in DOMAIN offer |-> offer[i]]
  BY DEF Issued
<1> HIDE DEF a, params, E
<1>4. a \in Seq(E)
  BY <1>1, <1>3
<1>5. /\ found \in Seq(AnyRentVehicles)
      /\ \A i \in DOMAIN found : \E j \in DOMAIN a : found[i] = AnyRent!ParseVehicle(a[j], params)
  BY <1>2, <1>4, AnyRentMapped DEF E
<1> HIDE DEF found
<1>6. ASSUME NEW i \in DOMAIN found
      PROVE  FitsTrip(platform, found[i], t)
  <2>1. PICK j \in DOMAIN a : found[i] = AnyRent!ParseVehicle(a[j], params)
    BY <1>5
  <2>2. found[i].supplierRateReference =
          [pickupStation |-> params.pickUp, pickupDate |-> params.from,
           dropOffStation |-> params.dropOff, dropOffDate |-> params.until,
           group |-> a[j].code]
    BY <2>1 DEF AnyRent!ParseVehicle, AnyRent!VehicleOf
  <2> QED BY <2>2, <1>2 DEF FitsTrip
<1> QED BY <1>1, <1>4, <1>5, <1>6 DEF SearchGives, FitTrip, a, params

\* And one with Rently.
LEMMA RentlySearch ==
  ASSUME session \in Sessions, platform = "rently",
         NEW t \in session.trips, NEW offer \in session.offers
  PROVE  SearchGives(offer, t)
<1> DEFINE params == Params(t, None)
           a == Issued(offer, params)
           E == Rently!RentlyVehicle
           found == Rently!MapVehicles(a).vehicles
<1>1. /\ Answered = E /\ VType = RentlyVehicles
      /\ Mapped(a, params) = found /\ offer \in Seq(E)
  <2>1. session.offers \subseteq Seq(Offered(platform, {None}, {None}, {None}))
    BY SessionParts
  <2>2. Offered(platform, {None}, {None}, {None}) = E
    BY DEF Offered
  <2>3. /\ Answered = E /\ VType = RentlyVehicles
        /\ Mapped(a, params) = found
    BY DEF Answered, Offered, VType, VehicleFor, SupplierRateReferences, RentlyVehicles, Mapped
  <2> QED BY <2>1, <2>2, <2>3
<1>2. a = [i \in DOMAIN offer |-> offer[i]]
  BY DEF Issued
<1> HIDE DEF a, params, E
<1>3. a \in Seq(E)
  BY <1>1, <1>2
<1>4. found \in Seq(RentlyVehicles)
  BY <1>3, RentlyMapped DEF E
<1>5. \A v : FitsTrip(platform, v, t)
  BY DEF FitsTrip
<1> HIDE DEF found
<1> QED BY <1>1, <1>3, <1>4, <1>5 DEF SearchGives, FitTrip, a, params

\* On every platform a search gives vehicles of their type, for the trip.
LEMMA SearchFits ==
  ASSUME session \in Sessions, NEW t \in session.trips, NEW offer \in session.offers
  PROVE  SearchGives(offer, t)
<1>1. platform \in {"hertz", "profitmaxdht", "bookingcom", "anyrent", "rently"}
  BY SessionParts
<1> QED BY <1>1, HertzSearch, ProfitMaxSearch, BookingcomSearch, AnyRentSearch, RentlySearch

-----------------------------------------------------------------------------
\* Two trips of one key differ by the time of day alone.
LEMMA KeyFits ==
  ASSUME session \in Sessions, NEW t \in session.trips, NEW other \in session.trips,
         Key(Params(t, None)) = Key(Params(other, None)), Key(Params(t, None)) # None,
         NEW v, FitsTrip(platform, v, t)
  PROVE  FitsTrip(platform, v, other)
<1>1. /\ platform \in {"hertz", "profitmaxdht", "bookingcom", "anyrent", "rently"}
      /\ t \in Rental /\ other \in Rental
  BY SessionParts
<1>2. platform \in {"hertz", "profitmaxdht", "bookingcom"}
  BY <1>1 DEF Key
<1> DEFINE p == Params(t, None)
           q == Params(other, None)
<1>3. /\ p.pickUp = q.pickUp /\ p.dropOff = q.dropOff
      /\ Day(p.from) = Day(q.from) /\ p.until - p.from = q.until - q.from
  <2> HIDE DEF p, q
  <2>1. Key(p) = Key(q)
    BY DEF p, q
  <2>2. CASE platform = "hertz"
    BY <2>1, <2>2 DEF Key, Hertz!CacheKey, Hertz!Day, Hertz!HoursPerDay, Day, HoursPerDay
  <2>3. CASE platform = "profitmaxdht"
    BY <2>1, <2>3 DEF Key, ProfitMax!CacheKey, ProfitMax!Day, ProfitMax!HoursPerDay, Day, HoursPerDay
  <2>4. CASE platform = "bookingcom"
    BY <2>1, <2>4 DEF Key, Bookingcom!CacheKey, Bookingcom!Day, Bookingcom!HoursPerDay, Day, HoursPerDay
  <2> QED BY <1>2, <2>2, <2>3, <2>4
<1>4. /\ t.pickUp = other.pickUp /\ t.dropOff = other.dropOff
      /\ Day(t.from) = Day(other.from) /\ t.until - t.from = other.until - other.from
  <2> HIDE DEF p, q
  <2>1. /\ p.pickUp = t.pickUp /\ p.dropOff = t.dropOff /\ p.from = t.from /\ p.until = t.until
    BY <1>1, TripParts DEF p
  <2>2. /\ q.pickUp = other.pickUp /\ q.dropOff = other.dropOff
        /\ q.from = other.from /\ q.until = other.until
    BY <1>1, TripParts DEF q
  <2> QED BY <1>3, <2>1, <2>2
<1>5. \A id : Fits(id, t) => Fits(id, other)
  BY <1>4 DEF Fits, SameRental
<1> QED BY <1>2, <1>4, <1>5 DEF FitsTrip

\* What a supplier answers to a quote request echoes the trip and the booking.
EchoFor(t) == [booking |-> "conf", pickUp |-> t.pickUp, dropOff |-> t.dropOff,
               from |-> t.from, until |-> t.until]

Echo(va, id, echo) == [[va EXCEPT !.reference = id] EXCEPT !.echoToken = echo]

\* A vehicle that the supplier has quoted.
LEMMA HertzEchoed ==
  ASSUME NEW va \in Hertz!VehAvail({None}, {None}), NEW id \in OfferId, NEW echo \in QuoteId
  PROVE  /\ Echo(va, id, echo) \in Hertz!VehAvail(OfferId, OrNone(QuoteId))
         /\ Echo(va, id, echo).echoToken = echo
<1> HIDE DEF OfferId, QuoteId
<1> QED BY DEF Hertz!VehAvail, OrNone, Echo

\* What the hub makes of an answer to a re-quote.
QuoteAnswer(priced, params) == Echoed(Issued(priced, params), params)

Quotes(offered, params) ==
  Kept([i \in DOMAIN offered |-> Hertz!ParseQuote(offered[i], session.equips, params, cfg)])

QuotesGive(priced, params, t) ==
  LET a == QuoteAnswer(priced, params)
  IN  /\ a \in Seq(Answered) /\ DOMAIN a = DOMAIN priced
      /\ Quotes(a, params) \in Seq(VType) /\ FitTrip(platform, Quotes(a, params), t)

\* A re-quote gives vehicles of their type, for the trip and for this booking.
LEMMA QuotesFit ==
  ASSUME session \in Sessions, platform = "hertz", NEW t \in session.trips,
         NEW existing, existing.supplierBookingReference = "conf",
         NEW priced \in Seq(Hertz!VehAvail({None}, {None}))
  PROVE  QuotesGive(priced, Params(t, existing), t)
<1> DEFINE params == Params(t, existing)
           a == QuoteAnswer(priced, params)
           id == IssuedFor(params)
           echo == EchoFor(t)
           A == Hertz!VehAvail(OfferId, OrNone(QuoteId))
           E == {va \in A : va.echoToken = echo}
           T == HertzVehicles(OfferId, QuoteId)
           Parse == [va \in E |-> Hertz!ParseQuote(va, session.equips, params, cfg)]
           found == Kept(ParsedOf(a, Parse))
<1>1. /\ Answered = A /\ VType = T
      /\ t \in Rental /\ session.equips \in Seq(Hertz!PricedEquip)
  <2>1. session.trips \subseteq Rental /\ session.equips \in Seq(Hertz!PricedEquip)
    BY SessionParts
  <2>2. Answered = A /\ VType = T
    BY DEF Answered, Offered, VType, VehicleFor, SupplierRateReferences, HertzVehicles
  <2> QED BY <2>1, <2>2
<1>2. /\ id \in OfferId /\ params.rentalDays \in Int /\ echo \in QuoteId
      /\ Fits(echo, t) /\ echo.booking = "conf"
      /\ echo = [booking |-> params.booking.supplierBookingReference,
                 pickUp |-> params.pickUp, dropOff |-> params.dropOff,
                 from |-> params.from, until |-> params.until]
  <2>1. /\ id \in OfferId /\ params.rentalDays \in Int
        /\ t.pickUp \in STRING /\ t.dropOff \in STRING /\ t.from \in Int /\ t.until \in Int
        /\ params.pickUp = t.pickUp /\ params.dropOff = t.dropOff
        /\ params.from = t.from /\ params.until = t.until /\ params.booking = existing
    BY <1>1, TripParts
  <2>2. echo \in QuoteId
    BY <2>1, TextIsText DEF EchoFor, QuoteId
  <2>3. Fits(echo, t) /\ echo.booking = "conf"
    BY <2>1 DEF EchoFor, Fits, SameRental, Day, HoursPerDay
  <2> HIDE DEF params
  <2> QED BY <2>1, <2>2, <2>3 DEF EchoFor
<1> HIDE DEF params
<1>3. a = [i \in DOMAIN priced |-> Echo(priced[i], id, echo)]
  <2>1. Issued(priced, params) = [i \in DOMAIN priced |-> [priced[i] EXCEPT !.reference = id]]
    BY DEF Issued
  <2> HIDE DEF id, echo
  <2>2. a = [i \in DOMAIN priced |->
               [Issued(priced, params)[i] EXCEPT !.echoToken = echo]]
    BY <1>2, <2>1 DEF QuoteAnswer, Echoed
  <2> QED BY <2>1, <2>2 DEF Echo
<1> HIDE DEF id, echo, A, T, a
<1>4. \A i \in DOMAIN priced : a[i] \in E
  <2> SUFFICES ASSUME NEW i \in DOMAIN priced PROVE a[i] \in E
    OBVIOUS
  <2>1. priced[i] \in Hertz!VehAvail({None}, {None})
    OBVIOUS
  <2>2. Echo(priced[i], id, echo) \in A /\ Echo(priced[i], id, echo).echoToken = echo
    BY <2>1, <1>2, HertzEchoed DEF A
  <2> QED BY <2>2, <1>3
<1>5. DOMAIN a = DOMAIN priced /\ a \in Seq(E)
  <2>1. DOMAIN a = DOMAIN priced /\ a = [i \in DOMAIN priced |-> a[i]]
    BY <1>3
  <2>2. DOMAIN priced = 1 .. Len(priced) /\ Len(priced) \in Nat
    OBVIOUS
  <2> HIDE DEF E
  <2> QED BY <1>4, <2>1, <2>2
<1>6. \A va \in E : LET q == Hertz!ParseQuote(va, session.equips, params, cfg)
                    IN  q # None =>
                          /\ q \in T /\ q.supplierRateReference.fromRates = echo
                          /\ q.supplierRateReference.fromQuote = echo
  <2>1. echo # None
    BY <1>2, NoneIsNoValue
  <2> QED BY <1>1, <1>2, <2>1, HertzParsed DEF A, T
<1>7. Parse \in [E -> T \cup {None}]
  BY <1>6
<1>8. a \in Seq(A)
  <2>1. E \subseteq A
    OBVIOUS
  <2> HIDE DEF E
  <2> QED BY <1>5, <2>1
<1>9. Quotes(a, params) = found
  <2> HIDE DEF E, Parse
  <2>1. \A i \in DOMAIN a : Parse[a[i]] = Hertz!ParseQuote(a[i], session.equips, params, cfg)
    BY <1>5 DEF Parse
  <2> QED BY <2>1 DEF Quotes, ParsedOf
<1>10. /\ found \in Seq(T)
       /\ \A i \in DOMAIN found : found[i] # None /\ \E j \in DOMAIN a : found[i] = Parse[a[j]]
  <2> HIDE DEF E, Parse
  <2>1. LoopGives(E, T, a, DOMAIN a, Parse)
    BY <1>5, <1>7, LoopElements
  <2>2. Only(a, DOMAIN a) = a
    BY <1>5, OnlyAll
  <2> QED BY <2>1, <2>2 DEF LoopGives
<1> HIDE DEF found
<1>11. ASSUME NEW i \in DOMAIN found
       PROVE  FitsTrip(platform, found[i], t)
  <2>1. PICK j \in DOMAIN a : found[i] = Parse[a[j]]
    BY <1>10
  <2>2. a[j] \in E
    BY <1>4, <1>5
  <2>3. Parse[a[j]] = Hertz!ParseQuote(a[j], session.equips, params, cfg)
    BY <2>2
  <2>4. /\ found[i].supplierRateReference.fromRates = echo
        /\ found[i].supplierRateReference.fromQuote = echo
    BY <2>1, <2>2, <2>3, <1>6, <1>10
  <2> QED BY <2>4, <1>2 DEF FitsTrip
<1> QED BY <1>1, <1>5, <1>8, <1>9, <1>10, <1>11 DEF QuotesGive, FitTrip, params, a

-----------------------------------------------------------------------------
(***************************************************************************)
(* Every step keeps it.                                                    *)
(***************************************************************************)
Fitting == TypeInv /\ ShownFits /\ StoredFits

\* What depends on the session alone stays as long as the session does.
LEMMA SameSession ==
  ASSUME session' = session
  PROVE  /\ platform' = platform /\ cfg' = cfg /\ customer' = customer
         /\ Answered' = Answered /\ VType' = VType /\ SupplierData' = SupplierData
         /\ \A t : Key(Params(t, None))' = Key(Params(t, None))
<1>1. platform' = platform /\ cfg' = cfg /\ customer' = customer
  BY DEF platform, cfg, customer
<1>2. Answered' = Answered
  BY <1>1 DEF Answered, Offered
<1>3. VType' = VType
  BY <1>1 DEF VType
<1>4. SupplierData' = SupplierData
  BY <1>1 DEF SupplierData
<1>5. \A t : Key(Params(t, None))' = Key(Params(t, None))
  BY <1>1 DEF Key, Params
<1> QED BY <1>1, <1>2, <1>3, <1>4, <1>5

\* The invariant holds before the first search.
LEMMA FittingInit == Init => Fitting
<1> SUFFICES ASSUME Init PROVE Fitting
  OBVIOUS
<1>1. vehicles = <<>> /\ answer = <<>> /\ stored = <<>> /\ DOMAIN stored = {} /\ DOMAIN vehicles = {}
  BY DEF Init
<1>2. TypeInv
  <2>1. answer \in Seq(Answered) /\ vehicles \in Seq(VType)
    BY <1>1
  <2>2. DOMAIN sent = Kinds /\ quoted = FALSE
    BY DEF Init
  <2>3. session \in Sessions /\ trip = None /\ ordered = None /\ booking = None
    BY DEF Init
  <2> QED BY <1>1, <2>1, <2>2, <2>3 DEF TypeInv
<1>3. ShownFits /\ StoredFits
  BY <1>1 DEF ShownFits, StoredFits, FitTrip
<1> QED BY <1>2, <1>3 DEF Fitting

\* The steps that show nothing new.
LEMMA FittingShown ==
  ASSUME Fitting, UNCHANGED <<session, trip, answer, vehicles, quoted, stored>>,
         DOMAIN sent' = Kinds,
         ordered' # None =>
           /\ ordered'.trip \in session.trips /\ ordered'.vehicle \in VType
           /\ ordered'.extras \in session.orders,
         booking' # None =>
           booking' = [reference |-> "conf", supplierData |-> SupplierData]
  PROVE  Fitting'
<1>1. /\ platform' = platform /\ Answered' = Answered /\ VType' = VType
      /\ SupplierData' = SupplierData
      /\ \A t : Key(Params(t, None))' = Key(Params(t, None))
  BY SameSession
<1>2. TypeInv'
  BY <1>1 DEF Fitting, TypeInv
<1>3. ShownFits'
  BY <1>1 DEF Fitting, ShownFits
<1>4. StoredFits'
  BY <1>1 DEF Fitting, StoredFits
<1> QED BY <1>2, <1>3, <1>4 DEF Fitting

\* A step that shows vehicles for a trip and puts them into the cache.
LEMMA FittingFound ==
  ASSUME Fitting, session' = session, NEW t \in session.trips, trip' = t,
         answer' \in Seq(Answered), vehicles' \in Seq(VType),
         FitTrip(platform, vehicles', t),
         quoted' \in BOOLEAN, quoted' => platform = "hertz", DOMAIN sent' = Kinds,
         UNCHANGED <<ordered, booking>>,
         NEW key, key = Key(Params(t, None)),
         stored' = stored \/
         stored' = IF key = None THEN stored
                   ELSE [k \in DOMAIN stored \cup {key} |->
                           IF k = key THEN vehicles' ELSE stored[k]]
  PROVE  Fitting'
<1>1. /\ platform' = platform /\ Answered' = Answered /\ VType' = VType
      /\ SupplierData' = SupplierData
      /\ \A other : Key(Params(other, None))' = Key(Params(other, None))
  BY SameSession
<1>2. \A k \in DOMAIN stored' :
        \/ k \in DOMAIN stored /\ stored'[k] = stored[k]
        \/ k = key /\ k # None /\ stored'[k] = vehicles'
  OBVIOUS
<1>3. TypeInv'
  BY <1>1, <1>2 DEF Fitting, TypeInv
<1>4. ShownFits'
  BY <1>1 DEF ShownFits
<1>5. StoredFits'
  <2> SUFFICES ASSUME NEW k \in DOMAIN stored'
               PROVE  /\ k # None
                      /\ \A other \in session.trips :
                           Key(Params(other, None)) = k => FitTrip(platform, stored'[k], other)
    BY <1>1 DEF StoredFits
  <2>1. CASE k \in DOMAIN stored /\ stored'[k] = stored[k]
    BY <2>1 DEF Fitting, StoredFits
  <2>2. CASE k = key /\ k # None /\ stored'[k] = vehicles'
    <3>1. session \in Sessions
      BY DEF Fitting, TypeInv
    <3>2. \A other \in session.trips : Key(Params(other, None)) = k =>
            \A i \in DOMAIN vehicles' : FitsTrip(platform, vehicles'[i], other)
      BY <2>2, <3>1, KeyFits DEF FitTrip
    <3> QED BY <2>2, <3>2 DEF FitTrip
  <2> QED BY <1>2, <2>1, <2>2
<1> QED BY <1>3, <1>4, <1>5 DEF Fitting

\* An answer from the cache is for every trip that has its key.
LEMMA FittingFromCache ==
  ASSUME Fitting, NEW t \in session.trips, NEW existing,
         Key(Params(t, existing)) = Key(Params(t, None)), FromCache(Params(t, existing)),
         trip' = t, UNCHANGED <<session, ordered, booking>>
  PROVE  Fitting'
<1> DEFINE key == Key(Params(t, None))
<1>1. key \in DOMAIN stored /\ vehicles' = stored[key]
  BY DEF FromCache
<1>2. /\ answer' \in Seq(Answered) /\ vehicles' \in Seq(VType)
      /\ quoted' = FALSE /\ DOMAIN sent' = Kinds /\ stored' = stored
  BY <1>1 DEF Fitting, TypeInv, FromCache
<1>3. FitTrip(platform, vehicles', t)
  BY <1>1 DEF Fitting, StoredFits
<1> QED BY <1>2, <1>3, FittingFound

\* An answer from the supplier is for the trip, and so is what the cache keeps.
LEMMA FittingFromSupplier ==
  ASSUME Fitting, NEW t \in session.trips, FromSupplier(Params(t, None)),
         trip' = t, UNCHANGED <<session, ordered, booking>>
  PROVE  Fitting'
<1> DEFINE key == Key(Params(t, None))
<1>1. PICK offer \in session.offers :
        /\ answer' = Issued(offer, Params(t, None))
        /\ vehicles' = Mapped(Issued(offer, Params(t, None)), Params(t, None))
  BY DEF FromSupplier
<1>2. SearchGives(offer, t)
  BY SearchFits DEF Fitting, TypeInv
<1>3. /\ answer' \in Seq(Answered) /\ vehicles' \in Seq(VType)
      /\ FitTrip(platform, vehicles', t)
  BY <1>1, <1>2 DEF SearchGives
<1>4. quoted' = FALSE /\ DOMAIN sent' = Kinds
  BY DEF FromSupplier, Fitting, TypeInv
<1>5. stored' = IF key = None THEN stored
                ELSE [k \in DOMAIN stored \cup {key} |-> IF k = key THEN vehicles' ELSE stored[k]]
  BY DEF FromSupplier, Store
<1> QED BY <1>3, <1>4, <1>5, FittingFound

\* A search keeps the invariant.
LEMMA FittingSearch ==
  ASSUME Fitting, NEW t \in session.trips, Search(t)
  PROVE  Fitting'
<1>1. trip' = t /\ UNCHANGED <<session, ordered, booking>>
  BY DEF Search
<1>2. FromCache(Params(t, None)) \/ FromSupplier(Params(t, None))
  BY DEF Search
<1> QED BY <1>1, <1>2, FittingFromCache, FittingFromSupplier

\* An offer of which some vehicles are left is an offer.
LEMMA PricedOffer ==
  ASSUME session \in Sessions, platform = "hertz", NEW offer \in session.offers, NEW I
  PROVE  Only(offer, I) \in Seq(Hertz!VehAvail({None}, {None}))
<1>1. session.offers \subseteq Seq(Offered(platform, {None}, {None}, {None}))
  BY SessionParts
<1>2. Offered(platform, {None}, {None}, {None}) = Hertz!VehAvail({None}, {None})
  BY DEF Offered
<1>3. offer \in Seq(Hertz!VehAvail({None}, {None}))
  BY <1>1, <1>2
<1> QED BY <1>3, OnlyElements

\* Quotes keep it, though the cache does not tell them from rates.
LEMMA FittingQuotes ==
  ASSUME Fitting, NEW t \in session.trips, platform = "hertz", NEW existing,
         existing.supplierBookingReference = "conf",
         Key(Params(t, existing)) = Key(Params(t, None)),
         QuotesFromSupplier(Params(t, existing)),
         trip' = t, UNCHANGED <<session, ordered, booking>>
  PROVE  Fitting'
<1> DEFINE params == Params(t, existing)
           key == Key(Params(t, None))
           I(offer) == {i \in DOMAIN offer :
                          Hertz!MapVehicles(<<offer[i]>>, session.equips, params, cfg).vehicles # <<>>}
<1>1. PICK offer \in session.offers :
        LET priced == Only(offer, I(offer))
            parsed == [i \in DOMAIN priced |->
                         Hertz!ParseQuote(answer'[i], session.equips, params, cfg)]
        IN  /\ answer' = Echoed(Issued(priced, params), params)
            /\ vehicles' = Only(parsed, {i \in DOMAIN parsed : parsed[i] # None})
            /\ quoted' = (priced # <<>>)
  BY DEF QuotesFromSupplier
<1> DEFINE priced == Only(offer, I(offer))
<1>2. priced \in Seq(Hertz!VehAvail({None}, {None}))
  <2> HIDE DEF I
  <2> QED BY PricedOffer DEF Fitting, TypeInv
<1>3. answer' = QuoteAnswer(priced, params) /\ quoted' \in BOOLEAN
  BY <1>1 DEF QuoteAnswer
<1>4. /\ answer' \in Seq(Answered) /\ DOMAIN answer' = DOMAIN priced
      /\ Quotes(answer', params) \in Seq(VType) /\ FitTrip(platform, Quotes(answer', params), t)
  <2> HIDE DEF priced
  <2>1. QuotesGive(priced, params, t)
    BY <1>2, QuotesFit DEF Fitting, TypeInv
  <2> QED BY <2>1, <1>3 DEF QuotesGive
<1>5. vehicles' = Quotes(answer', params)
  BY <1>1, <1>4 DEF Quotes, Kept
<1>6. DOMAIN sent' = Kinds
  BY DEF QuotesFromSupplier, Fitting, TypeInv
<1>7. stored' = IF key = None THEN stored
                ELSE [k \in DOMAIN stored \cup {key} |-> IF k = key THEN vehicles' ELSE stored[k]]
  BY DEF QuotesFromSupplier, Store
<1> QED BY <1>3, <1>4, <1>5, <1>6, <1>7, FittingFound

\* A re-quote keeps it, from the cache or from the supplier.
LEMMA FittingRequote ==
  ASSUME Fitting, NEW t \in session.trips, Requote(t)
  PROVE  Fitting'
<1> DEFINE existing == ExistingBooking(booking.reference, customer)
<1>1. /\ trip' = t /\ platform = "hertz" /\ booking # None
      /\ UNCHANGED <<session, ordered, booking>>
  BY DEF Requote, Live
<1>2. FromCache(Params(t, existing)) \/ QuotesFromSupplier(Params(t, existing))
  BY DEF Requote
<1>3. existing.supplierBookingReference = "conf"
  BY <1>1 DEF Fitting, TypeInv, ExistingBooking
<1>4. Key(Params(t, existing)) = Key(Params(t, None))
  BY <1>1 DEF Key, Params, Hertz!CacheKey, RatesRequest
<1> HIDE DEF existing
<1> QED BY <1>1, <1>2, <1>3, <1>4, FittingFromCache, FittingQuotes

\* The vehicle and the extras of an order.
LEMMA OrderParts ==
  ASSUME Fitting, NEW i \in DOMAIN vehicles, NEW extras \in session.orders
  PROVE  /\ trip \in session.trips /\ trip \in Rental
         /\ vehicles[i] \in VType /\ FitsTrip(platform, vehicles[i], trip)
         /\ Order(i, extras).trip = trip /\ Order(i, extras).vehicle = vehicles[i]
         /\ Order(i, extras).extras = extras
<1>1. vehicles \in Seq(VType) /\ vehicles # <<>>
  BY DEF Fitting, TypeInv
<1>2. trip \in session.trips
  BY <1>1 DEF Fitting, TypeInv
<1>3. session.trips \subseteq Rental
  BY SessionParts DEF Fitting, TypeInv
<1>4. FitsTrip(platform, vehicles[i], trip)
  BY DEF Fitting, ShownFits, FitTrip
<1> QED BY <1>1, <1>2, <1>3, <1>4 DEF Order

\* A booking keeps it: what is ordered was shown.
LEMMA FittingBook ==
  ASSUME Fitting, NEW i \in DOMAIN vehicles, NEW extras \in session.orders, Book(i, extras)
  PROVE  Fitting'
<1>1. /\ UNCHANGED <<session, places, trip, answer, vehicles, quoted, stored>>
      /\ ordered' = Order(i, extras)
      /\ booking' \in {None, [reference |-> "conf", supplierData |-> SupplierData]}
  BY DEF Book
<1>2. DOMAIN sent' = Kinds
  BY DEF Book, Fitting, TypeInv
<1>3. /\ ordered'.trip \in session.trips /\ ordered'.vehicle \in VType
      /\ ordered'.extras \in session.orders
  BY <1>1, OrderParts
<1> QED BY <1>1, <1>2, <1>3, FittingShown

\* And so does a modification.
LEMMA FittingModify ==
  ASSUME Fitting, NEW i \in DOMAIN vehicles, NEW extras \in session.orders, Modify(i, extras)
  PROVE  Fitting'
<1>1. /\ UNCHANGED <<session, trip, answer, vehicles, quoted, stored, booking>>
      /\ ordered' = Order(i, extras)
  BY DEF Modify
<1>2. DOMAIN sent' = Kinds
  BY DEF Modify, Fitting, TypeInv
<1>3. /\ ordered'.trip \in session.trips /\ ordered'.vehicle \in VType
      /\ ordered'.extras \in session.orders
  BY <1>1, OrderParts
<1>4. booking' # None => booking' = [reference |-> "conf", supplierData |-> SupplierData]
  BY <1>1 DEF Fitting, TypeInv
<1> QED BY <1>1, <1>2, <1>3, <1>4, FittingShown

\* A status request, a cancellation and the locations do not touch it.
LEMMA FittingRest ==
  ASSUME Fitting, Locations \/ Status \/ Cancel \/ UNCHANGED vars
  PROVE  Fitting'
<1>1. UNCHANGED <<session, trip, answer, vehicles, quoted, stored, ordered, booking>>
  BY DEF Locations, Status, Cancel, vars
<1>2. DOMAIN sent = Kinds
  BY DEF Fitting, TypeInv
<1>3. DOMAIN sent' = Kinds
  BY <1>2 DEF Locations, Status, Cancel, vars
<1>4. /\ ordered' # None =>
           /\ ordered'.trip \in session.trips /\ ordered'.vehicle \in VType
           /\ ordered'.extras \in session.orders
      /\ booking' # None => booking' = [reference |-> "conf", supplierData |-> SupplierData]
  BY <1>1 DEF Fitting, TypeInv
<1> QED BY <1>1, <1>3, <1>4, FittingShown

\* Nor does a cache that runs empty.
LEMMA FittingForget ==
  ASSUME Fitting, Forget
  PROVE  Fitting'
<1>1. /\ UNCHANGED <<session, trip, answer, vehicles, quoted, sent, ordered, booking>>
      /\ stored' = <<>> /\ DOMAIN stored' = {}
  BY DEF Forget
<1>2. /\ platform' = platform /\ Answered' = Answered /\ VType' = VType
      /\ SupplierData' = SupplierData
  BY <1>1, SameSession
<1>3. TypeInv'
  BY <1>1, <1>2 DEF Fitting, TypeInv
<1>4. ShownFits' /\ StoredFits'
  BY <1>1, <1>2 DEF Fitting, ShownFits, StoredFits
<1> QED BY <1>3, <1>4 DEF Fitting

\* Every step keeps the invariant.
LEMMA FittingStep == Fitting /\ [Next]_vars => Fitting'
<1> SUFFICES ASSUME Fitting, [Next]_vars PROVE Fitting'
  OBVIOUS
<1>1. CASE \E t \in session.trips : Search(t) \/ Requote(t)
  BY <1>1, FittingSearch, FittingRequote
<1>2. CASE \E i \in DOMAIN vehicles : \E extras \in session.orders :
             Book(i, extras) \/ Modify(i, extras)
  BY <1>2, FittingBook, FittingModify
<1>3. CASE Locations \/ Status \/ Cancel \/ UNCHANGED vars
  BY <1>3, FittingRest
<1>4. CASE Forget
  BY <1>4, FittingForget
<1> QED BY <1>1, <1>2, <1>3, <1>4 DEF Next

\* Vehicles, those in the grouping cache as well, are for the trip they are shown
\* for.
LEMMA FittingAlways == Spec => []Fitting
BY FittingInit, FittingStep, PTL DEF Spec

-----------------------------------------------------------------------------
(***************************************************************************)
(* What is booked and modified.                                            *)
(***************************************************************************)
\* The document of a booking, for the order it is made for.
LEMMA BookedOrder ==
  ASSUME Fitting, NEW i \in DOMAIN vehicles, NEW extras \in session.orders, Book(i, extras)
  PROVE  BookedAsOffered'
<1> DEFINE order == Order(i, extras)
           params == BookingParams(order)
           v == vehicles[i]
           doc == sent'["book"]
<1>1. PICK card : sent' = [sent EXCEPT !["book"] = BookingDocument(params, card)]
  BY DEF Book
<1>2. doc = BookingDocument(params, card)
  BY <1>1 DEF Fitting, TypeInv, Kinds
<1>3. /\ trip \in Rental /\ v \in VType /\ FitsTrip(platform, v, trip)
      /\ order.trip = trip /\ order.vehicle = v
  BY OrderParts
<1>4. /\ params.pickUp = trip.pickUp /\ params.dropOff = trip.dropOff
      /\ params.from = trip.from /\ params.until = trip.until
      /\ params.supplierRateReference = v.supplierRateReference
  BY <1>3 DEF BookingParams, BookingRequest
<1>5. ordered' = order /\ platform' = platform
  BY SameSession DEF Book
<1> HIDE DEF params, doc, order
<1>6. platform \in {"hertz", "profitmaxdht", "bookingcom", "anyrent", "rently"}
  BY SessionParts DEF Fitting, TypeInv
<1>7. CASE platform = "hertz"
  <2>1. /\ doc.pickUp = params.pickUp /\ doc.return = params.dropOff
        /\ doc.from = params.from /\ doc.until = params.until
        /\ doc.reference = Hertz!Reference(params.supplierRateReference.fromRates, cfg)
    BY <1>2, <1>7 DEF BookingDocument, Hertz!BookingDocument
  <2>2. doc.reference # None => doc.reference = v.supplierRateReference.fromRates
    BY <1>4, <2>1 DEF Hertz!Reference
  <2>3. Fits(v.supplierRateReference.fromRates, trip)
    BY <1>3, <1>7 DEF FitsTrip
  <2> QED BY <1>4, <1>5, <1>7, <2>1, <2>2, <2>3 DEF BookedAsOffered, Fits, doc
<1>8. CASE platform = "profitmaxdht"
  <2>1. /\ doc.pickUp = params.pickUp /\ doc.return = params.dropOff
        /\ doc.from = params.from /\ doc.until = params.until
        /\ doc.reference = params.supplierRateReference.fromRates
    BY <1>2, <1>8 DEF BookingDocument, ProfitMax!BookingDocument
  <2>2. Fits(v.supplierRateReference.fromRates, trip)
    BY <1>3, <1>8 DEF FitsTrip
  <2> QED BY <1>4, <1>5, <1>8, <2>1, <2>2 DEF BookedAsOffered, Fits, doc
<1>9. CASE platform = "bookingcom"
  <2>1. /\ doc.pickUp = params.supplierRateReference.pickUpLocationId
        /\ doc.dropOff = params.supplierRateReference.dropOffLocationId
        /\ doc.from = params.from /\ doc.until = params.until
        /\ doc.vehicleId = params.supplierRateReference.vehicleId
        /\ doc.acceptedPrice = params.supplierRateReference.basePrice
    BY <1>2, <1>9 DEF BookingDocument, Bookingcom!BookingDocument
  <2>2. /\ Fits(v.supplierRateReference.vehicleId, trip)
        /\ v.supplierRateReference.pickUpLocationId = trip.pickUp
        /\ v.supplierRateReference.dropOffLocationId = trip.dropOff
        /\ v.supplierRateReference.basePrice = v.price
    BY <1>3, <1>9 DEF FitsTrip
  <2> QED BY <1>3, <1>4, <1>5, <1>9, <2>1, <2>2 DEF BookedAsOffered, Fits, doc
<1>10. CASE platform = "anyrent"
  <2>1. /\ doc.pickUp = params.supplierRateReference.pickupStation
        /\ doc.from = params.supplierRateReference.pickupDate
        /\ doc.dropOff = params.supplierRateReference.dropOffStation
        /\ doc.until = params.supplierRateReference.dropOffDate
    BY <1>2, <1>10 DEF BookingDocument, AnyRent!BookingDocument
  <2>2. /\ v.supplierRateReference.pickupStation = trip.pickUp
        /\ v.supplierRateReference.pickupDate = trip.from
        /\ v.supplierRateReference.dropOffStation = trip.dropOff
        /\ v.supplierRateReference.dropOffDate = trip.until
    BY <1>3, <1>10 DEF FitsTrip
  <2>3. IssuedFor(doc) = IssuedFor(trip)
    BY <1>4, <2>1, <2>2 DEF IssuedFor
  <2> QED BY <1>3, <1>5, <1>10, <2>3 DEF BookedAsOffered, doc
<1>11. CASE platform = "rently"
  <2>1. doc.model = params.supplierRateReference.model
    BY <1>2, <1>11 DEF BookingDocument, Rently!BookingDocument
  <2> QED BY <1>3, <1>4, <1>5, <1>11, <2>1 DEF BookedAsOffered, doc
<1> QED BY <1>6, <1>7, <1>8, <1>9, <1>10, <1>11

\* The document of a modification, for the order it is made for.
LEMMA ModifiedOrder ==
  ASSUME Fitting, NEW i \in DOMAIN vehicles, NEW extras \in session.orders, Modify(i, extras)
  PROVE  ModifiedAsQuoted'
<1> DEFINE order == Order(i, extras)
           params == ModifyRequest(trip, customer, order.vehicle, extras, booking.reference)
           v == vehicles[i]
           id == v.supplierRateReference.fromQuote
           doc == sent'["modify"]
<1>1. /\ platform = "hertz" /\ booking # None
      /\ sent' = [sent EXCEPT !["modify"] = Hertz!ModifyDocument(params, cfg)]
  BY DEF Modify, Live
<1>2. doc = Hertz!ModifyDocument(params, cfg)
  BY <1>1 DEF Fitting, TypeInv, Kinds
<1>3. /\ trip \in Rental /\ v \in VType /\ FitsTrip(platform, v, trip) /\ order.vehicle = v
  BY OrderParts
<1>4. /\ params.pickUp = trip.pickUp
      /\ params.from = trip.from /\ params.until = trip.until
      /\ params.supplierRateReference = v.supplierRateReference
      /\ params.supplierBookingReference = booking.reference
  BY <1>3 DEF ModifyRequest
<1> HIDE DEF params, doc, order
<1>5. /\ doc.pickUp = trip.pickUp /\ doc.from = trip.from /\ doc.until = trip.until
      /\ doc.uniqueID = booking.reference
      /\ doc.reference = Hertz!Reference(id, cfg)
  BY <1>2, <1>4 DEF Hertz!ModifyDocument, Hertz!ModifyReference
<1>6. doc.uniqueID = "conf"
  BY <1>1, <1>5 DEF Fitting, TypeInv
<1>7. doc.reference # None => doc.reference = id
  BY <1>5 DEF Hertz!Reference
<1>8. id # None => id.booking = "conf" /\ Fits(id, trip)
  BY <1>1, <1>3 DEF FitsTrip
<1>9. id \in OrNone(QuoteId)
  <2>1. v.supplierRateReference \in SupplierRateReferences(platform)
    <3> HIDE DEF v
    <3> QED BY <1>3 DEF VType, VehicleFor, VehicleType
  <2>2. SupplierRateReferences(platform) = Hertz!RateReference(OfferId \cup QuoteId, OrNone(QuoteId))
    BY <1>1 DEF SupplierRateReferences
  <2> HIDE DEF v
  <2> QED BY <2>1, <2>2 DEF Hertz!RateReference
<1>10. id # None => "booking" \in DOMAIN id
  BY <1>9 DEF OrNone, QuoteId
<1> HIDE DEF id
<1> QED BY <1>5, <1>6, <1>7, <1>8, <1>10 DEF ModifiedAsQuoted, Fits, doc

\* Apart from a booking, no step writes a booking's document, or changes the order
\* of a platform that cannot modify it.
LEMMA BookedStep == Fitting /\ BookedAsOffered /\ [Next]_vars => BookedAsOffered'
<1> SUFFICES ASSUME Fitting, BookedAsOffered, [Next]_vars PROVE BookedAsOffered'
  OBVIOUS
<1>1. CASE \E i \in DOMAIN vehicles : \E extras \in session.orders : Book(i, extras)
  BY <1>1, BookedOrder
<1>2. ASSUME session' = session, sent'["book"] = sent["book"],
             platform = "hertz" \/ ordered' = ordered
      PROVE  BookedAsOffered'
  <2>1. platform' = platform
    BY <1>2, SameSession
  <2> QED BY <1>2, <2>1 DEF BookedAsOffered
<1>3. DOMAIN sent = Kinds
  BY DEF Fitting, TypeInv
<1>4. CASE \E t \in session.trips : Search(t) \/ Requote(t)
  <2>1. session' = session /\ ordered' = ordered
    BY <1>4 DEF Search, Requote
  <2>2. sent'["book"] = sent["book"]
    BY <1>3, <1>4 DEF Search, Requote, FromCache, FromSupplier, QuotesFromSupplier, Kinds
  <2> QED BY <1>2, <2>1, <2>2
<1>5. CASE \E i \in DOMAIN vehicles : \E extras \in session.orders : Modify(i, extras)
  BY <1>2, <1>3, <1>5 DEF Modify, Kinds
<1>6. CASE Locations \/ Forget \/ Status \/ Cancel \/ UNCHANGED vars
  <2>1. session' = session /\ ordered' = ordered
    BY <1>6 DEF Locations, Forget, Status, Cancel, vars
  <2>2. sent'["book"] = sent["book"]
    BY <1>3, <1>6 DEF Locations, Forget, Status, Cancel, vars, Kinds
  <2> QED BY <1>2, <2>1, <2>2
<1> QED BY <1>1, <1>4, <1>5, <1>6 DEF Next

\* A modification refers to a quote of this booking for the rental as it shall be.
LEMMA ModifiedStep == Fitting /\ ModifiedAsQuoted /\ [Next]_vars => ModifiedAsQuoted'
<1> SUFFICES ASSUME Fitting, ModifiedAsQuoted, [Next]_vars PROVE ModifiedAsQuoted'
  OBVIOUS
<1>1. CASE \E i \in DOMAIN vehicles : \E extras \in session.orders : Modify(i, extras)
  BY <1>1, ModifiedOrder
<1>2. ASSUME sent'["modify"] = sent["modify"]
      PROVE  ModifiedAsQuoted'
  BY <1>2 DEF ModifiedAsQuoted
<1>3. DOMAIN sent = Kinds
  BY DEF Fitting, TypeInv
<1>4. CASE \E t \in session.trips : Search(t) \/ Requote(t)
  <2>1. sent'["modify"] = sent["modify"]
    BY <1>3, <1>4 DEF Search, Requote, FromCache, FromSupplier, QuotesFromSupplier, Kinds
  <2> QED BY <1>2, <2>1
<1>5. CASE \E i \in DOMAIN vehicles : \E extras \in session.orders : Book(i, extras)
  <2>1. sent'["modify"] = sent["modify"]
    BY <1>3, <1>5 DEF Book, Kinds
  <2> QED BY <1>2, <2>1
<1>6. CASE Locations \/ Forget \/ Status \/ Cancel \/ UNCHANGED vars
  <2>1. sent'["modify"] = sent["modify"]
    BY <1>3, <1>6 DEF Locations, Forget, Status, Cancel, vars, Kinds
  <2> QED BY <1>2, <2>1
<1> QED BY <1>1, <1>4, <1>5, <1>6 DEF Next

\* The offer that a booking names was made for the rental that is booked.
THEOREM OfferBooked == Spec => []BookedAsOffered
<1>1. Init => BookedAsOffered
  BY DEF Init, BookedAsOffered, Kinds
<1> QED BY <1>1, BookedStep, FittingAlways, PTL DEF Spec

\* The quote that a modification names was made for this booking and the rental as
\* it shall be.
THEOREM QuoteModified == Spec => []ModifiedAsQuoted
<1>1. Init => ModifiedAsQuoted
  BY DEF Init, ModifiedAsQuoted, Kinds
<1> QED BY <1>1, ModifiedStep, FittingAlways, PTL DEF Spec

-----------------------------------------------------------------------------
(***************************************************************************)
(* The hours of a station.                                                 *)
(***************************************************************************)
LEMMA PlacesToSet == \A s : Places!ToSet(s) = ToSet(s)
BY DEF Places!ToSet, ToSet

\* Two sequences of hours one after the other.
LEMMA FewToSet ==
  \A a, b : ToSet(<<a, b>>) = {a, b}
BY DEF ToSet

RentlyTimes(schedule, day) ==
  [i \in DOMAIN schedule.days[day] |->
     Places!OpeningTime(day, Places!HourMinute(schedule.days[day][i].openedFrom),
                        Places!HourMinute(schedule.days[day][i].openedTo), FALSE)]

\* The hours that Rently's are shown with on a day are those of its schedule.
LEMMA RentlyListed ==
  ASSUME NEW schedule \in Places!RentlySchedule
  PROVE  ToSet(Places!GetOpeningTime(schedule))
           = UNION {ToSet(RentlyTimes(schedule, d)) : d \in 1 .. 7}
<1> DEFINE ss == [d \in 1 .. 7 |-> RentlyTimes(schedule, d)]
           E == UNION {ToSet(RentlyTimes(schedule, d)) : d \in 1 .. 7}
<1>1. ASSUME NEW d \in 1 .. 7 PROVE RentlyTimes(schedule, d) \in Seq(E)
  <2>1. schedule.days[d] \in Seq([openedFrom : Places!Time, openedTo : Places!Time])
    BY DEF Places!RentlySchedule
  <2>2. /\ DOMAIN RentlyTimes(schedule, d) = 1 .. Len(schedule.days[d])
        /\ Len(schedule.days[d]) \in Nat
        /\ RentlyTimes(schedule, d) = [i \in 1 .. Len(schedule.days[d]) |-> RentlyTimes(schedule, d)[i]]
    <3> DEFINE list == schedule.days[d]
    <3>1. DOMAIN list = 1 .. Len(list) /\ Len(list) \in Nat
      BY <2>1
    <3>2. DOMAIN RentlyTimes(schedule, d) = DOMAIN list
      BY DEF RentlyTimes
    <3>3. RentlyTimes(schedule, d) = [i \in DOMAIN list |-> RentlyTimes(schedule, d)[i]]
      BY DEF RentlyTimes
    <3> HIDE DEF list
    <3>4. DOMAIN RentlyTimes(schedule, d) = 1 .. Len(list)
      BY <3>1, <3>2
    <3>5. RentlyTimes(schedule, d) = [i \in 1 .. Len(list) |-> RentlyTimes(schedule, d)[i]]
      BY <3>1, <3>3
    <3> QED BY <3>1, <3>4, <3>5 DEF list
  <2>3. \A i \in DOMAIN RentlyTimes(schedule, d) : RentlyTimes(schedule, d)[i] \in E
    BY DEF ToSet
  <2> HIDE DEF E
  <2> QED BY <2>2, <2>3
<1>2. ss \in Seq(Seq(E)) /\ DOMAIN ss = 1 .. 7
  <2> HIDE DEF E
  <2>1. \A d \in 1 .. 7 : ss[d] \in Seq(E)
    BY <1>1
  <2>2. ss \in [1 .. 7 -> Seq(E)]
    BY <2>1
  <2>3. \A S, f : \A n \in Nat : f \in [1 .. n -> S] => f \in Seq(S) /\ DOMAIN f = 1 .. n
    OBVIOUS
  <2> HIDE DEF ss
  <2> QED BY <2>2, <2>3
<1>3. \A d \in 1 .. 7 : ss[d] = RentlyTimes(schedule, d)
  OBVIOUS
<1>4. Places!GetOpeningTime(schedule) = FlattenSeq(ss)
  BY PlacesFlatten DEF Places!GetOpeningTime, RentlyTimes
<1> HIDE DEF ss, E
<1>5. ToSet(FlattenSeq(ss)) = UNION {ToSet(ss[d]) : d \in 1 .. 7}
  BY <1>2, FlattenElements
<1> QED BY <1>3, <1>4, <1>5

\* What Rently has for a day is what is shown for it.
LEMMA RentlyOpen ==
  ASSUME NEW schedule \in Places!RentlySchedule, NEW day \in 1 .. 7
  PROVE  Places!HoursOn(Places!GetOpeningTime(schedule), day) = Places!RentlyHours(schedule, day)
<1> DEFINE listed == ToSet(Places!GetOpeningTime(schedule))
           From(d, i) == Places!HourMinute(schedule.days[d][i].openedFrom)
           To(d, i) == Places!HourMinute(schedule.days[d][i].openedTo)
           Shown(o) == [from |-> o.start, to |-> o.end, ooh |-> o.ooh]
           Had(d, i) == [from |-> From(d, i), to |-> To(d, i), ooh |-> FALSE]
           Time(d, i) == Places!OpeningTime(d, From(d, i), To(d, i), FALSE)
<1>1. \A o : o \in listed <=> \E d \in 1 .. 7 : \E i \in DOMAIN schedule.days[d] : o = Time(d, i)
  <2>1. \A d \in 1 .. 7 : ToSet(RentlyTimes(schedule, d)) = {Time(d, i) : i \in DOMAIN schedule.days[d]}
    BY DEF RentlyTimes, ToSet
  <2> HIDE DEF Time
  <2> QED BY <2>1, RentlyListed
<1>2. \A d, i : /\ Time(d, i).open = TRUE /\ Time(d, i).weekday = d
                /\ Shown(Time(d, i)) = Had(d, i)
  BY DEF Places!OpeningTime
<1>3. Places!HoursOn(Places!GetOpeningTime(schedule), day)
        = {Shown(o) : o \in {h \in listed : h.open /\ h.weekday \in {0, day}}}
  BY PlacesToSet DEF Places!HoursOn
<1>4. Places!RentlyHours(schedule, day) = {Had(day, i) : i \in DOMAIN schedule.days[day]}
  BY PlacesToSet DEF Places!RentlyHours, ToSet
<1> HIDE DEF listed, Shown, Had, Time
<1>5. ASSUME NEW o \in listed, o.open, o.weekday \in {0, day}
      PROVE  \E i \in DOMAIN schedule.days[day] : Shown(o) = Had(day, i)
  BY <1>1, <1>2, <1>5
<1>6. ASSUME NEW i \in DOMAIN schedule.days[day]
      PROVE  \E o \in listed : o.open /\ o.weekday \in {0, day} /\ Shown(o) = Had(day, i)
  BY <1>1, <1>2
<1> QED BY <1>3, <1>4, <1>5, <1>6

\* Those of AnyRent include all of its schedule.
LEMMA AnyRentListed ==
  ASSUME NEW schedule
  PROVE  ToSet(Places!OpeningHours(schedule))
           = ToSet(Places!WithOutOfHours(0, schedule.week))
               \cup ToSet(Places!WithOutOfHours(6, schedule.saturday))
               \cup ToSet(Places!WithOutOfHours(7, schedule.sunday))
<1> DEFINE week == Places!WithOutOfHours(0, schedule.week)
           saturday == Places!WithOutOfHours(6, schedule.saturday)
           sunday == Places!WithOutOfHours(7, schedule.sunday)
           E == ToSet(week) \cup ToSet(saturday) \cup ToSet(sunday)
<1>1. /\ week = <<week[1], week[2]>> /\ saturday = <<saturday[1], saturday[2]>>
      /\ sunday = <<sunday[1], sunday[2]>>
  BY DEF Places!WithOutOfHours
<1>2. \A s : s = <<s[1], s[2]>> => ToSet(s) = {s[1], s[2]}
  BY FewToSet
<1>3. /\ {week[1], week[2]} \subseteq E /\ {saturday[1], saturday[2]} \subseteq E
      /\ {sunday[1], sunday[2]} \subseteq E
  <2>1. /\ ToSet(week) = {week[1], week[2]} /\ ToSet(saturday) = {saturday[1], saturday[2]}
        /\ ToSet(sunday) = {sunday[1], sunday[2]}
    BY <1>1, <1>2
  <2> QED BY <2>1
<1>4. Places!OpeningHours(schedule) = (week \o saturday) \o sunday
  BY DEF Places!OpeningHours
<1> HIDE DEF week, saturday, sunday
<1>5. week \in Seq(E) /\ saturday \in Seq(E) /\ sunday \in Seq(E)
  <2> HIDE DEF E
  <2>1. \A a, b \in E : <<a, b>> \in Seq(E)
    OBVIOUS
  <2> QED BY <1>1, <1>3, <2>1
<1>6. week \o saturday \in Seq(E)
  <2> HIDE DEF E
  <2> QED BY <1>5
<1>7. ToSet((week \o saturday) \o sunday) = (ToSet(week) \cup ToSet(saturday)) \cup ToSet(sunday)
  <2> HIDE DEF E
  <2>1. ToSet((week \o saturday) \o sunday) = ToSet(week \o saturday) \cup ToSet(sunday)
    BY <1>5, <1>6, ConcatSet
  <2>2. ToSet(week \o saturday) = ToSet(week) \cup ToSet(saturday)
    BY <1>5, ConcatSet
  <2> QED BY <2>1, <2>2
<1> QED BY <1>4, <1>7 DEF week, saturday, sunday

\* What AnyRent has for a day is among what is shown for it.
LEMMA AnyRentOpen ==
  ASSUME NEW schedule, NEW day \in 1 .. 7
  PROVE  Places!AnyRentHours(schedule, day) \subseteq Places!HoursOn(Places!OpeningHours(schedule), day)
<1> DEFINE listed == ToSet(Places!OpeningHours(schedule))
           Shown(o) == [from |-> o.start, to |-> o.end, ooh |-> o.ooh]
           Normal(d, times) == Places!OpeningTime(d, Places!HourMinute(times.open),
                                                  Places!HourMinute(times.close), FALSE)
           Ooh(d, times) == Places!OpeningTime(d, Places!HourMinute(times.oohStart),
                                               Places!HourMinute(times.oohEnd), TRUE)
           NormalHad(times) == [from |-> Places!HourMinute(times.open),
                                to |-> Places!HourMinute(times.close), ooh |-> FALSE]
           OohHad(times) == [from |-> Places!HourMinute(times.oohStart),
                             to |-> Places!HourMinute(times.oohEnd), ooh |-> TRUE]
<1>1. Places!HoursOn(Places!OpeningHours(schedule), day)
        = {Shown(o) : o \in {h \in listed : h.open /\ h.weekday \in {0, day}}}
  BY PlacesToSet DEF Places!HoursOn
<1>2. \A d, times : /\ Normal(d, times).open /\ Normal(d, times).weekday = d
                    /\ Shown(Normal(d, times)) = NormalHad(times)
                    /\ Ooh(d, times).open /\ Ooh(d, times).weekday = d
                    /\ Shown(Ooh(d, times)) = OohHad(times)
  BY DEF Places!OpeningTime
<1>3. \A d, times : Places!WithOutOfHours(d, times) = <<Normal(d, times), Ooh(d, times)>>
  BY DEF Places!WithOutOfHours
<1>4. \A d, times : ToSet(Places!WithOutOfHours(d, times)) = {Normal(d, times), Ooh(d, times)}
  <2> HIDE DEF Normal, Ooh
  <2> QED BY <1>3, FewToSet
<1> HIDE DEF Shown, Normal, Ooh
<1>5. /\ Normal(0, schedule.week) \in listed /\ Ooh(0, schedule.week) \in listed
      /\ Normal(6, schedule.saturday) \in listed /\ Ooh(6, schedule.saturday) \in listed
      /\ Normal(7, schedule.sunday) \in listed /\ Ooh(7, schedule.sunday) \in listed
  BY <1>4, AnyRentListed
<1> HIDE DEF listed, NormalHad, OohHad
<1>6. ASSUME NEW d \in {0, day}, NEW times, Normal(d, times) \in listed, Ooh(d, times) \in listed
      PROVE  {NormalHad(times), OohHad(times)}
               \subseteq {Shown(o) : o \in {h \in listed : h.open /\ h.weekday \in {0, day}}}
  <2>1. /\ Normal(d, times) \in {h \in listed : h.open /\ h.weekday \in {0, day}}
        /\ Ooh(d, times) \in {h \in listed : h.open /\ h.weekday \in {0, day}}
    BY <1>2, <1>6
  <2> QED BY <1>2, <2>1
<1>7. PICK d, times :
        /\ d \in {0, day}
        /\ Normal(d, times) \in listed /\ Ooh(d, times) \in listed
        /\ Places!AnyRentHours(schedule, day) = {NormalHad(times), OohHad(times)}
  <2>1. CASE day = 6
    BY <1>5, <2>1 DEF Places!AnyRentHours, NormalHad, OohHad
  <2>2. CASE day = 7
    BY <1>5, <2>2 DEF Places!AnyRentHours, NormalHad, OohHad
  <2>3. CASE day \notin {6, 7}
    BY <1>5, <2>3 DEF Places!AnyRentHours, NormalHad, OohHad
  <2> QED BY <2>1, <2>2, <2>3
<1> QED BY <1>1, <1>6, <1>7

\* The places are asked for once and show the hours of the stations.
LEMMA OpenStep == Fitting /\ OpenWhenSupplierIs /\ [Next]_vars => OpenWhenSupplierIs'
<1> SUFFICES ASSUME Fitting, OpenWhenSupplierIs, [Next]_vars PROVE OpenWhenSupplierIs'
  OBVIOUS
<1>1. CASE Locations
  <2>1. /\ platform \in {"anyrent", "rently"} /\ session' = session
        /\ places' = [i \in DOMAIN session.stations |->
             IF platform = "rently" THEN Places!GetOpeningTime(session.stations[i])
             ELSE Places!OpeningHours(session.stations[i])]
    BY <1>1 DEF Locations
  <2>2. platform' = platform
    BY <2>1, SameSession
  <2>3. session.stations \in Seq(Schedules(platform))
    BY SessionsConform DEF Fitting, TypeInv, platform
  <2>4. platform = "rently" =>
          \A i \in DOMAIN session.stations : session.stations[i] \in Places!RentlySchedule
    BY <2>3 DEF Schedules
  <2>5. ASSUME platform = "rently", NEW i \in DOMAIN session.stations, NEW day \in 1 .. 7
        PROVE  Places!HoursOn(places'[i], day) = Places!RentlyHours(session.stations[i], day)
    BY <2>1, <2>4, <2>5, RentlyOpen
  <2>6. ASSUME platform # "rently", NEW i \in DOMAIN session.stations, NEW day \in 1 .. 7
        PROVE  Places!AnyRentHours(session.stations[i], day) \subseteq Places!HoursOn(places'[i], day)
    BY <2>1, <2>6, AnyRentOpen
  <2>7. DOMAIN places' = DOMAIN session.stations
    BY <2>1
  <2> QED BY <2>1, <2>2, <2>5, <2>6, <2>7 DEF OpenWhenSupplierIs
<1>2. CASE UNCHANGED <<session, places>>
  BY <1>2 DEF OpenWhenSupplierIs, platform
<1>3. CASE ~Locations
  <2>1. UNCHANGED <<session, places>>
    BY <1>3 DEF Next, vars, Search, Requote, Book, Modify, Forget, Status, Cancel
  <2> QED BY <1>2, <2>1
<1> QED BY <1>1, <1>3

\* A station is open for the client when it is for the supplier.
THEOREM StationOpen == Spec => []OpenWhenSupplierIs
<1>1. Init => OpenWhenSupplierIs
  BY DEF Init, OpenWhenSupplierIs
<1> QED BY <1>1, OpenStep, FittingAlways, PTL DEF Spec

-----------------------------------------------------------------------------
(***************************************************************************)
(* Elements of the documents.                                              *)
(***************************************************************************)
LEMMA LatinType == \A name \in STRING : Hertz!LatinCharacters(name) \in STRING
BY LatinConforms DEF Hertz!LatinCharacters

\* A contract with Hertz is of Hertz's configuration type.
LEMMA HertzConfigured ==
  ASSUME session \in Sessions, platform = "hertz"
  PROVE  cfg \in Hertz!HertzConfiguration(
                   IF cfg.residenceCountryMapping = None THEN {}
                   ELSE DOMAIN cfg.residenceCountryMapping, DOMAIN cfg.feePayableLocally)
BY SessionParts DEF Configurations

\* Who asks.
LEMMA HertzPOS ==
  ASSUME session \in Sessions, platform = "hertz", NEW country \in STRING, NEW reference \in STRING
  PROVE  Hertz!NewPOS(country, cfg, reference) \in PointOfSale
<1>1. /\ cfg.vn \in OrNone(STRING) /\ cfg.vendorCode \in STRING
      /\ cfg.taco \in OrNone(STRING) /\ cfg.bookingAgent \in OrNone(STRING)
  BY HertzConfigured DEF Hertz!HertzConfiguration, Hertz!OrNone, OrNone
<1>2. \A type, value : type \in STRING /\ value \in OrNone(STRING) =>
        Hertz!IfSet(type, value) \in SUBSET (STRING \X OrNone(STRING))
  BY DEF Hertz!IfSet
<1>3. /\ "4" \in STRING /\ "8" \in STRING /\ "5" \in STRING /\ "29" \in STRING /\ "16" \in STRING
  BY TextIsText
<1>4. (IF reference = "" THEN None ELSE reference) \in OrNone(STRING)
  BY DEF OrNone
<1>5. {<<"4", cfg.vn>>, <<"8", cfg.vendorCode>>} \in SUBSET (STRING \X OrNone(STRING))
  BY <1>1, <1>3 DEF OrNone
<1>6. Hertz!NewPOS(country, cfg, reference).requestors \in SUBSET (STRING \X OrNone(STRING))
  <2> DEFINE S == STRING \X OrNone(STRING)
  <2>1. /\ Hertz!IfSet("5", cfg.taco) \in SUBSET S
        /\ Hertz!IfSet("29", cfg.bookingAgent) \in SUBSET S
        /\ Hertz!IfSet("16", IF reference = "" THEN None ELSE reference) \in SUBSET S
    BY <1>1, <1>2, <1>3, <1>4, Zenon
  <2>2. {<<"4", cfg.vn>>, <<"8", cfg.vendorCode>>} \in SUBSET S
    BY <1>5
  <2>3. Hertz!NewPOS(country, cfg, reference).requestors =
          ((({<<"4", cfg.vn>>, <<"8", cfg.vendorCode>>} \cup Hertz!IfSet("5", cfg.taco))
             \cup Hertz!IfSet("29", cfg.bookingAgent))
             \cup Hertz!IfSet("16", IF reference = "" THEN None ELSE reference))
    BY DEF Hertz!NewPOS
  <2>4. \A a, b, c, d : a \in SUBSET S /\ b \in SUBSET S /\ c \in SUBSET S /\ d \in SUBSET S =>
                         (((a \cup b) \cup c) \cup d) \in SUBSET S
    OBVIOUS
  <2> HIDE DEF S
  <2>5. Hertz!NewPOS(country, cfg, reference).requestors \in SUBSET S
    BY <2>1, <2>2, <2>3, <2>4, Zenon
  <2> QED BY <2>5 DEF S
<1>7. Hertz!NewPOS(country, cfg, reference)
        = [country |-> country, requestors |-> Hertz!NewPOS(country, cfg, reference).requestors]
  BY DEF Hertz!NewPOS
<1> QED BY <1>6, <1>7 DEF PointOfSale

\* A country is mapped to a country.
LEMMA HertzCountry ==
  ASSUME session \in Sessions, platform = "hertz", NEW country \in STRING
  PROVE  Hertz!MappedResidenceCountry(cfg, country) \in STRING
<1> DEFINE mapping == cfg.residenceCountryMapping
<1>1. mapping # None => mapping \in [DOMAIN mapping -> STRING]
  BY HertzConfigured DEF Hertz!HertzConfiguration, Hertz!OrNone
<1>2. mapping # None => \A c \in DOMAIN mapping : mapping[c] \in STRING
  BY <1>1
<1> HIDE DEF mapping
<1>3. CASE mapping = None
  BY <1>3 DEF Hertz!MappedResidenceCountry, mapping
<1>4. CASE mapping # None
  BY <1>2, <1>4 DEF Hertz!MappedResidenceCountry, mapping
<1> QED BY <1>3, <1>4

\* A customer by the parts.
LEMMA CustomerParts ==
  ASSUME session \in Sessions
  PROVE  /\ customer.lastName \in STRING /\ customer.country \in STRING
         /\ customer.phone \in OrNone(STRING) /\ customer.brokerReference \in STRING
         /\ customer.flightNo \in OrNone(STRING)
         /\ customer.supplierSpecificInformation # None =>
              customer.supplierSpecificInformation.hertzBillingNumber \in OrNone(STRING)
<1>1. customer \in Customer
  BY SessionParts
<1> DEFINE information == customer.supplierSpecificInformation
<1>2. /\ customer.lastName \in STRING /\ customer.country \in STRING
      /\ customer.phone \in OrNone(STRING) /\ customer.brokerReference \in STRING
      /\ customer.flightNo \in OrNone(STRING)
      /\ information \in OrNone([hertzBillingNumber : OrNone(STRING)])
  BY <1>1 DEF Customer
<1> HIDE DEF information
<1>3. information # None => information \in [hertzBillingNumber : OrNone(STRING)]
  BY <1>2 DEF OrNone
<1>4. information # None => information.hertzBillingNumber \in OrNone(STRING)
  <2> DEFINE S == OrNone(STRING)
  <2> HIDE DEF S
  <2> QED BY <1>3 DEF S
<1> QED BY <1>2, <1>4 DEF information

\* The arrival details have their type.
LEMMA ArrivalType ==
  ASSUME session \in Sessions
  PROVE  Hertz!ModifyArrivalDetails(customer) \in OrNone([code : STRING, number : STRING])
<1>1. customer.flightNo \in OrNone(STRING)
  BY CustomerParts
<1>2. {"24", "", "14"} \subseteq STRING
  BY TextIsText
<1>3. Hertz!ArrivalDetails(customer) \in OrNone([code : STRING, number : STRING])
  BY <1>1, <1>2 DEF Hertz!ArrivalDetails, OrNone
<1> QED BY <1>3 DEF Hertz!ModifyArrivalDetails, OrNone

\* And so has the loyalty, when no nil pointer is followed.
LEMMA LoyaltyType ==
  ASSUME session \in Sessions, platform = "hertz",
         ~(/\ cfg.clubNumber = None /\ cfg.frequentTravellerNumber # None
           /\ cfg.frequentTravellerProgramId = None)
  PROVE  Hertz!CustLoyalty(cfg) \in OrNone([member : STRING, program : STRING])
<1>1. /\ cfg.clubNumber \in OrNone(STRING) /\ cfg.frequentTravellerNumber \in OrNone(STRING)
      /\ cfg.frequentTravellerProgramId \in OrNone(STRING)
  BY HertzConfigured DEF Hertz!HertzConfiguration, Hertz!OrNone, OrNone
<1>2. "ZE" \in STRING
  BY TextIsText
<1> QED BY <1>1, <1>2 DEF Hertz!CustLoyalty, OrNone

\* And the payment, when the billing number is there.
LEMMA PaymentPrefType ==
  ASSUME session \in Sessions, platform = "hertz", NEW params, params.customer = customer,
         params.supplierRateReference.estimatedTotalAmount \in Int,
         Hertz!Billed(customer, cfg) =>
           customer.supplierSpecificInformation.hertzBillingNumber # None
  PROVE  Hertz!RentalPaymentPref(params, cfg) \in
           OrNone([voucher : OrNone([billingNumber : STRING, seriesCode : STRING]),
                   paymentAmount : OrNone(Int)])
<1> DEFINE V == [billingNumber : STRING, seriesCode : STRING]
           voucher == IF Hertz!Billed(customer, cfg)
                 THEN [billingNumber |-> customer.supplierSpecificInformation.hertzBillingNumber,
                       seriesCode |-> customer.brokerReference]
                 ELSE IF cfg.sendVoucher
                 THEN [billingNumber |-> "", seriesCode |-> customer.brokerReference]
                 ELSE None
           amount == IF cfg.voucherContractBillingType = "Partial"
                THEN params.supplierRateReference.estimatedTotalAmount ELSE None
<1>1. customer.brokerReference \in STRING /\ "" \in STRING
  BY CustomerParts, TextIsText
<1>2. Hertz!Billed(customer, cfg) =>
        customer.supplierSpecificInformation.hertzBillingNumber \in STRING
  <2>1. Hertz!Billed(customer, cfg) => customer.supplierSpecificInformation # None
    BY DEF Hertz!Billed
  <2> QED BY <2>1, CustomerParts DEF OrNone
<1>3. voucher \in OrNone(V)
  BY <1>1, <1>2 DEF OrNone
<1>4. amount \in OrNone(Int)
  BY DEF OrNone
<1>5. Hertz!RentalPaymentPref(params, cfg) =
        IF voucher = None /\ amount = None THEN None
        ELSE [voucher |-> voucher, paymentAmount |-> amount]
  BY DEF Hertz!RentalPaymentPref
<1> HIDE DEF voucher, amount, V
<1>6. Hertz!RentalPaymentPref(params, cfg) \in OrNone([voucher : OrNone(V), paymentAmount : OrNone(Int)])
  BY <1>3, <1>4, <1>5 DEF OrNone
<1> QED BY <1>6 DEF V

\* The extras of an order.
LEMMA OrderExtras ==
  ASSUME session \in Sessions, NEW extras \in session.orders
  PROVE  extras \in Seq(BookingExtraOrFee)
BY SessionParts

\* The extras of a document, by code and quantity, when no quantity is missing.
LEMMA PrefsType ==
  ASSUME NEW params, params.extras \in Seq(BookingExtraOrFee),
         \A i \in DOMAIN params.extras : params.extras[i].quantity # None
  PROVE  /\ Hertz!SpecialEquipPrefs(params) \in Seq([code : STRING, quantity : Nat])
         /\ DOMAIN Hertz!SpecialEquipPrefs(params) = DOMAIN params.extras
         /\ \A i \in DOMAIN params.extras :
              /\ Hertz!SpecialEquipPrefs(params)[i].code = params.extras[i].code
              /\ Hertz!SpecialEquipPrefs(params)[i].quantity = Unwrap(params.extras[i].quantity, 1)
<1> DEFINE extras == params.extras
           prefs == Hertz!SpecialEquipPrefs(params)
           T == [code : STRING, quantity : Nat]
           B == BookingExtraOrFee
<1>1. prefs = [i \in DOMAIN extras |-> [code |-> extras[i].code, quantity |-> extras[i].quantity]]
  BY DEF Hertz!SpecialEquipPrefs
<1>2. \A i \in DOMAIN extras : extras[i] \in B
  OBVIOUS
<1>3. \A e \in B : e.quantity # None =>
        [code |-> e.code, quantity |-> e.quantity] \in T /\ Unwrap(e.quantity, 1) = e.quantity
  BY DEF BookingExtraOrFee, OrNone, Unwrap
<1>4. extras \in Seq(B) /\ \A i \in DOMAIN extras : extras[i].quantity # None
  OBVIOUS
<1> HIDE DEF extras, T, prefs, B
<1>5. \A i \in DOMAIN extras :
        prefs[i] = [code |-> extras[i].code, quantity |-> extras[i].quantity] /\ prefs[i] \in T
  BY <1>1, <1>2, <1>3, <1>4
<1>6. prefs = [i \in DOMAIN extras |-> prefs[i]] /\ DOMAIN prefs = DOMAIN extras
  BY <1>1
<1>7. prefs \in Seq(T)
  BY <1>4, <1>5, <1>6, SeqAlong
<1>8. \A i \in DOMAIN extras :
        /\ prefs[i].code = extras[i].code
        /\ prefs[i].quantity = Unwrap(extras[i].quantity, 1)
  <2>1. ASSUME NEW i \in DOMAIN extras
        PROVE  /\ prefs[i].code = extras[i].code /\ prefs[i].quantity = extras[i].quantity
               /\ Unwrap(extras[i].quantity, 1) = extras[i].quantity
    <3>1. prefs[i] = [code |-> extras[i].code, quantity |-> extras[i].quantity]
      BY <1>5
    <3>2. Unwrap(extras[i].quantity, 1) = extras[i].quantity
      BY <1>4, Zenon DEF Unwrap
    <3> QED BY <3>1, <3>2
  <2> QED BY <2>1
<1> QED BY <1>6, <1>7, <1>8 DEF extras, T, prefs

\* What a re-quoted vehicle can be ordered by.
LEMMA OrderedReference ==
  ASSUME platform = "hertz", NEW v \in VType
  PROVE  /\ v.class \in STRING
         /\ v.supplierRateReference.fromQuote \in OrNone(QuoteId)
         /\ v.supplierRateReference.estimatedTotalAmount \in Int
<1>1. v.supplierRateReference \in SupplierRateReferences(platform) /\ v.class \in STRING
  BY DEF VType, VehicleFor, VehicleType
<1>2. SupplierRateReferences(platform) = Hertz!RateReference(OfferId \cup QuoteId, OrNone(QuoteId))
  BY DEF SupplierRateReferences
<1>3. \A R, T, r : r \in Hertz!RateReference(R, T) =>
        r.fromQuote \in T /\ r.estimatedTotalAmount \in Int
  BY DEF Hertz!RateReference
<1> DEFINE R == OfferId \cup QuoteId
           T == OrNone(QuoteId)
<1>4. v.supplierRateReference \in Hertz!RateReference(R, T)
  BY <1>1, <1>2
<1> HIDE DEF R, T
<1>5. v.supplierRateReference.fromQuote \in T /\ v.supplierRateReference.estimatedTotalAmount \in Int
  BY <1>3, <1>4
<1> QED BY <1>1, <1>5 DEF T

\* A modification is made of parts of their types, with every extra ordered.
LEMMA Modifying ==
  ASSUME Fitting, NEW i \in DOMAIN vehicles, NEW extras \in session.orders, Modify(i, extras)
  PROVE  /\ sent'["modify"] \in Hertz!Modification(PointOfSale, QuoteId)
         /\ sent'["modify"] # None
         /\ DOMAIN sent'["modify"].specialEquipPrefs = DOMAIN extras
         /\ \A j \in DOMAIN extras :
              /\ sent'["modify"].specialEquipPrefs[j].code = extras[j].code
              /\ sent'["modify"].specialEquipPrefs[j].quantity = Unwrap(extras[j].quantity, 1)
<1> DEFINE order == Order(i, extras)
           params == ModifyRequest(trip, customer, order.vehicle, extras, booking.reference)
           v == vehicles[i]
           id == v.supplierRateReference.fromQuote
           doc == Hertz!ModifyDocument(params, cfg)
<1>1. /\ platform = "hertz" /\ booking # None /\ session \in Sessions
      /\ ~Hertz!NilInModification(params, cfg)
      /\ sent' = [sent EXCEPT !["modify"] = doc]
  BY DEF Modify, Live, Fitting, TypeInv
<1>2. sent'["modify"] = doc
  BY <1>1 DEF Fitting, TypeInv, Kinds
<1>3. /\ trip \in Rental /\ v \in VType /\ order.vehicle = v
  BY OrderParts
<1>4. /\ params.pickUp = trip.pickUp /\ params.from = trip.from /\ params.until = trip.until
      /\ params.customer = customer /\ params.extras = extras /\ params.vehicleClass = v.class
      /\ params.supplierRateReference = v.supplierRateReference
      /\ params.supplierBookingReference = booking.reference
  BY <1>3 DEF ModifyRequest
<1>5. booking.reference \in STRING
  <2>1. booking.reference = "conf"
    BY <1>1 DEF Fitting, TypeInv
  <2>2. "conf" \in STRING
    BY TextIsText
  <2> QED BY <2>1, <2>2
<1>6. trip.pickUp \in STRING /\ trip.from \in Int /\ trip.until \in Int
  BY <1>3, TripParts
<1> HIDE DEF params, order
<1>7. /\ v.class \in STRING /\ id \in OrNone(QuoteId)
      /\ v.supplierRateReference.estimatedTotalAmount \in Int
  <2> HIDE DEF v
  <2> QED BY <1>1, <1>3, OrderedReference
<1> HIDE DEF v
<1>8. /\ \A j \in DOMAIN extras : extras[j].quantity # None
      /\ Hertz!Billed(customer, cfg) =>
           customer.supplierSpecificInformation.hertzBillingNumber # None
      /\ ~(/\ cfg.clubNumber = None /\ cfg.frequentTravellerNumber # None
           /\ cfg.frequentTravellerProgramId = None)
  BY <1>1, <1>4 DEF Hertz!NilInModification, Hertz!NilInBooking
<1>9. extras \in Seq(BookingExtraOrFee)
  BY <1>1, OrderExtras
<1>10. /\ Hertz!SpecialEquipPrefs(params) \in Seq([code : STRING, quantity : Nat])
       /\ DOMAIN Hertz!SpecialEquipPrefs(params) = DOMAIN extras
       /\ \A j \in DOMAIN extras :
            /\ Hertz!SpecialEquipPrefs(params)[j].code = extras[j].code
            /\ Hertz!SpecialEquipPrefs(params)[j].quantity = Unwrap(extras[j].quantity, 1)
  BY <1>4, <1>8, <1>9, PrefsType
<1>11. /\ customer.lastName \in STRING /\ customer.country \in STRING
       /\ customer.phone \in OrNone(STRING) /\ customer.brokerReference \in STRING
  BY <1>1, CustomerParts
<1> DEFINE pos == Hertz!NewPOS(Hertz!MappedResidenceCountry(cfg, customer.country), cfg,
                               customer.brokerReference)
           arrival == Hertz!ModifyArrivalDetails(customer)
           pref == Hertz!RentalPaymentPref(params, cfg)
           loyalty == Hertz!CustLoyalty(cfg)
           prefs == Hertz!SpecialEquipPrefs(params)
           class == Hertz!VehPref(params, cfg)
           reference == Hertz!ModifyReference(params, cfg)
           surname == Hertz!PersonName(customer)
<1>12. pos \in PointOfSale
  BY <1>1, <1>11, HertzCountry, HertzPOS
<1>13. arrival \in OrNone([code : STRING, number : STRING])
  BY <1>1, ArrivalType
<1>14. pref \in OrNone([voucher : OrNone([billingNumber : STRING, seriesCode : STRING]),
                        paymentAmount : OrNone(Int)])
  <2>1. params.supplierRateReference.estimatedTotalAmount \in Int
    BY <1>4, <1>7
  <2> QED BY <2>1, <1>1, <1>4, <1>8, PaymentPrefType
<1>15. loyalty \in OrNone([member : STRING, program : STRING])
  BY <1>1, <1>8, LoyaltyType
<1>16. class \in OrNone(STRING) /\ reference \in OrNone(QuoteId)
  BY <1>4, <1>7 DEF Hertz!VehPref, Hertz!ModifyReference, Hertz!Reference, OrNone
<1>17. surname \in STRING
  BY <1>11, LatinType DEF Hertz!PersonName
<1>18. doc = [kind |-> "modify", pos |-> pos, uniqueID |-> booking.reference,
              pickUp |-> trip.pickUp, from |-> trip.from, until |-> trip.until,
              arrivalDetails |-> arrival, rentalPaymentPref |-> pref, vehPref |-> class,
              reference |-> reference, specialEquipPrefs |-> prefs, custLoyalty |-> loyalty,
              phone |-> customer.phone, surname |-> surname]
  BY <1>4 DEF Hertz!ModifyDocument
<1>19. doc \in Hertz!Modification(PointOfSale, QuoteId)
  <2> DEFINE A == OrNone([code : STRING, number : STRING])
             P == OrNone([voucher : OrNone([billingNumber : STRING, seriesCode : STRING]),
                          paymentAmount : OrNone(Int)])
             L == OrNone([member : STRING, program : STRING])
             Q == Seq([code : STRING, quantity : Nat])
  <2>1. arrival \in A /\ pref \in P /\ loyalty \in L /\ prefs \in Q
    BY <1>10, <1>13, <1>14, <1>15
  <2>2. Hertz!Modification(PointOfSale, QuoteId) =
          [kind : {"modify"}, pos : PointOfSale, uniqueID : STRING, pickUp : STRING,
           from : Int, until : Int, arrivalDetails : A, rentalPaymentPref : P,
           vehPref : OrNone(STRING), reference : OrNone(QuoteId), specialEquipPrefs : Q,
           custLoyalty : L, phone : OrNone(STRING), surname : STRING]
    BY DEF Hertz!Modification, Hertz!OrNone, OrNone
  <2> HIDE DEF A, P, L, Q, pos, arrival, pref, loyalty, prefs, class, reference, surname, doc
  <2> QED BY <2>1, <2>2, <1>5, <1>6, <1>11, <1>12, <1>16, <1>17, <1>18
<1>20. doc # None
  BY <1>19, NoneIsNoValue
<1>21. doc.specialEquipPrefs = prefs
  BY <1>18
<1> HIDE DEF doc, prefs
<1> QED BY <1>2, <1>10, <1>19, <1>20, <1>21 DEF prefs

\* A document of a platform has every code as often as the extras say.
CountOn(on, doc, code) ==
  CASE on \in {"hertz", "profitmaxdht"} -> CountedIn(doc.specialEquipPrefs, code)
    [] on = "bookingcom" -> CountedIn(doc.extras, code)
    [] on = "anyrent" -> Occurrences(doc.extras \o doc.taxes, code)
    [] on = "rently" ->
         IF doc.additionals = None THEN 0 ELSE CountedIn(doc.additionals, code)

HasOrdered(on, doc, extras) ==
  \A code : CountOn(on, doc, code) =
    Sum([i \in DOMAIN extras |->
           IF extras[i].code = code THEN Unwrap(extras[i].quantity, 1) ELSE 0])

-----------------------------------------------------------------------------
(***************************************************************************)
(* The extras of an order reach the supplier.                              *)
(***************************************************************************)
\* A list of codes and quantities has an order in it.
LEMMA ListedOrder ==
  ASSUME NEW extras \in Seq(BookingExtraOrFee), NEW list, DOMAIN list = DOMAIN extras,
         \A i \in DOMAIN extras : /\ list[i].code = extras[i].code
                                  /\ list[i].quantity = Unwrap(extras[i].quantity, 1),
         NEW on, NEW doc,
         \/ on \in {"hertz", "profitmaxdht"} /\ doc.specialEquipPrefs = list
         \/ on = "bookingcom" /\ doc.extras = list
  PROVE  HasOrdered(on, doc, extras)
<1>1. \A code : CountedIn(list, code) =
        Sum([i \in DOMAIN extras |->
               IF extras[i].code = code THEN Unwrap(extras[i].quantity, 1) ELSE 0])
  BY QuantitiesCount
<1>2. \A code : CountOn(on, doc, code) = CountedIn(list, code)
  BY DEF CountOn
<1> QED BY <1>1, <1>2 DEF HasOrdered

\* A booking has the extras of its order in it, on every platform but Rently.
LEMMA BookedExtras ==
  ASSUME Fitting, NEW i \in DOMAIN vehicles, NEW extras \in session.orders, Book(i, extras),
         platform # "rently"
  PROVE  HasOrdered(platform, sent'["book"], extras)
<1> DEFINE order == Order(i, extras)
           params == BookingParams(order)
           doc == sent'["book"]
<1>1. PICK card : /\ Sendable(params, card)
                  /\ sent' = [sent EXCEPT !["book"] = BookingDocument(params, card)]
  BY DEF Book
<1>2. doc = BookingDocument(params, card)
  BY <1>1 DEF Fitting, TypeInv, Kinds
<1>3. params.extras = extras
  BY OrderParts DEF BookingParams, BookingRequest
<1>4. extras \in Seq(BookingExtraOrFee) /\ platform \in Platforms
  BY OrderExtras, SessionParts DEF Fitting, TypeInv, Platforms
<1> SUFFICES HasOrdered(platform, doc, extras)
  OBVIOUS
<1> HIDE DEF params, doc, order
<1>5. CASE platform = "hertz"
  <2>1. \A j \in DOMAIN params.extras : params.extras[j].quantity # None
    BY <1>1, <1>5 DEF Sendable, Hertz!NilInBooking
  <2>2. doc.specialEquipPrefs = Hertz!SpecialEquipPrefs(params)
    BY <1>2, <1>5 DEF BookingDocument, Hertz!BookingDocument
  <2> QED BY <1>3, <1>4, <1>5, <2>1, <2>2, PrefsType, ListedOrder
<1>6. CASE platform = "profitmaxdht"
  <2>1. \A j \in DOMAIN extras : extras[j].quantity # None
    BY <1>1, <1>3, <1>6 DEF Sendable, ProfitMax!NilInBooking
  <2>2. doc.specialEquipPrefs =
          [j \in DOMAIN extras |-> [code |-> extras[j].code, quantity |-> extras[j].quantity]]
    BY <1>2, <1>3, <1>6 DEF BookingDocument, ProfitMax!BookingDocument
  <2>3. /\ DOMAIN doc.specialEquipPrefs = DOMAIN extras
        /\ \A j \in DOMAIN extras :
             /\ doc.specialEquipPrefs[j].code = extras[j].code
             /\ doc.specialEquipPrefs[j].quantity = extras[j].quantity
    BY <2>2
  <2>4. \A j \in DOMAIN extras : Unwrap(extras[j].quantity, 1) = extras[j].quantity
    BY <2>1, Zenon DEF Unwrap
  <2> QED BY <1>4, <1>6, <2>3, <2>4, ListedOrder
<1>7. CASE platform = "bookingcom"
  <2>1. doc.extras = [j \in DOMAIN extras |->
                        [code |-> extras[j].code, quantity |-> Unwrap(extras[j].quantity, 1)]]
    BY <1>2, <1>3, <1>7 DEF BookingDocument, Bookingcom!BookingDocument, Bookingcom!Unwrap, Unwrap
  <2>2. /\ DOMAIN doc.extras = DOMAIN extras
        /\ \A j \in DOMAIN extras :
             /\ doc.extras[j].code = extras[j].code
             /\ doc.extras[j].quantity = Unwrap(extras[j].quantity, 1)
    BY <2>1
  <2> QED BY <1>4, <1>7, <2>2, ListedOrder
<1>8. CASE platform = "anyrent"
  <2>1. /\ doc.extras = AnyRent!CodesOfType(extras, TRUE)
        /\ doc.taxes = AnyRent!CodesOfType(extras, FALSE)
    BY <1>2, <1>3, <1>8 DEF BookingDocument, AnyRent!BookingDocument
  <2>2. \A code : CountOn(platform, doc, code) = Occurrences(doc.extras \o doc.taxes, code)
    BY <1>8 DEF CountOn
  <2>3. \A code : Occurrences(doc.extras \o doc.taxes, code) =
          Sum([j \in DOMAIN extras |->
                 IF extras[j].code = code THEN Unwrap(extras[j].quantity, 1) ELSE 0])
    BY <1>4, <2>1, AnyRentCount
  <2> QED BY <2>2, <2>3 DEF HasOrdered
<1> QED BY <1>4, <1>5, <1>6, <1>7, <1>8 DEF Platforms

\* The extras of the last order, once there is a document of it.
LEMMA OrderKept ==
  ASSUME NEW extras, ordered'.extras = extras, platform' = platform,
         platform # "rently" => HasOrdered(platform, IF sent'["modify"] # None THEN sent'["modify"]
                                                     ELSE sent'["book"], extras)
  PROVE  ExtrasOrdered'
<1> DEFINE doc == IF sent'["modify"] # None THEN sent'["modify"] ELSE sent'["book"]
<1> SUFFICES ASSUME platform # "rently", NEW code
             PROVE  CountOn(platform, doc, code) =
                      Sum([i \in DOMAIN extras |->
                        IF extras[i].code = code THEN Unwrap(extras[i].quantity, 1) ELSE 0])
  BY DEF ExtrasOrdered, OrderIn, DocumentCount, OrderedCount, CountOn
<1> QED BY DEF HasOrdered

\* ExtrasOrdered by what it depends on.
OrderedIn(on, modify, book, extras) ==
  LET doc == IF modify # None THEN modify ELSE book
  IN  on # "rently" /\ doc # None => \A i \in DOMAIN extras :
        CountOn(on, doc, extras[i].code) =
          Sum([j \in DOMAIN extras |->
                 IF extras[j].code = extras[i].code THEN Unwrap(extras[j].quantity, 1) ELSE 0])

\* The extras are as ordered when the last of the two documents has the order in it.
LEMMA ExtrasOrderedIn ==
  /\ ExtrasOrdered <=> OrderedIn(platform, sent["modify"], sent["book"], ordered.extras)
  /\ ExtrasOrdered' <=> OrderedIn(platform', sent'["modify"], sent'["book"], ordered'.extras)
<1>1. ExtrasOrdered <=> OrderedIn(platform, sent["modify"], sent["book"], ordered.extras)
  BY DEF ExtrasOrdered, OrderIn, DocumentCount, OrderedCount, CountOn, OrderedIn
<1>2. ExtrasOrdered' <=> OrderedIn(platform', sent'["modify"], sent'["book"], ordered'.extras)
  BY DEF ExtrasOrdered, OrderIn, DocumentCount, OrderedCount, CountOn, OrderedIn
<1> QED BY <1>1, <1>2

\* No modification without an order.
ModifiedOrdered == ordered = None => sent["modify"] = None

\* Every step keeps the last document in line with the last order.
LEMMA ExtrasStep ==
  Fitting /\ ExtrasOrdered /\ ModifiedOrdered /\ [Next]_vars => (ExtrasOrdered /\ ModifiedOrdered)'
<1> SUFFICES ASSUME Fitting, ExtrasOrdered, ModifiedOrdered, [Next]_vars
             PROVE  ExtrasOrdered' /\ ModifiedOrdered'
  BY DEF ModifiedOrdered
<1>1. DOMAIN sent = Kinds /\ session \in Sessions /\ platform \in Platforms
  BY SessionParts DEF Fitting, TypeInv, Platforms
<1>2. ASSUME NEW i \in DOMAIN vehicles, NEW extras \in session.orders
      PROVE  Order(i, extras) # None /\ Order(i, extras).extras = extras
  <2>1. /\ trip \in Rental /\ vehicles[i] \in VehicleFor(platform)
        /\ extras \in Seq(BookingExtraOrFee)
    BY <1>1, <1>2, OrderParts, OrderExtras DEF VType
  <2>2. Order(i, extras) = [trip |-> trip, vehicle |-> vehicles[i], extras |-> extras]
    BY DEF Order
  <2>3. Order(i, extras) \in OrderFor(platform)
    <3> DEFINE V == VehicleFor(platform)
               X == Seq(BookingExtraOrFee)
               v == vehicles[i]
    <3> HIDE DEF V, X, v
    <3>1. trip \in Rental /\ v \in V /\ extras \in X
      BY <2>1 DEF V, X, v
    <3>2. [trip |-> trip, vehicle |-> v, extras |-> extras] \in [trip : Rental, vehicle : V, extras : X]
      BY <3>1
    <3> QED BY <2>2, <3>2 DEF OrderFor, V, X, v
  <2> QED BY <1>1, <2>2, <2>3, NoneIsNoValue
<1>3. CASE \E i \in DOMAIN vehicles : \E extras \in session.orders : Book(i, extras)
  <2>1. PICK i \in DOMAIN vehicles, extras \in session.orders : Book(i, extras)
    BY <1>3
  <2>2. ordered = None /\ ordered' = Order(i, extras) /\ platform' = platform
    BY <2>1, SameSession DEF Book
  <2>3. sent'["modify"] = sent["modify"]
    BY <1>1, <2>1 DEF Book, Kinds
  <2>4. sent'["modify"] = None
    BY <2>2, <2>3 DEF ModifiedOrdered
  <2>5. ordered'.extras = extras /\ ordered' # None
    BY <1>2, <2>2
  <2>6. platform # "rently" => HasOrdered(platform, sent'["book"], extras)
    BY <2>1, BookedExtras
  <2> QED BY <2>2, <2>4, <2>5, <2>6, OrderKept DEF ModifiedOrdered
<1>4. CASE \E i \in DOMAIN vehicles : \E extras \in session.orders : Modify(i, extras)
  <2>1. PICK i \in DOMAIN vehicles, extras \in session.orders : Modify(i, extras)
    BY <1>4
  <2>2. platform = "hertz" /\ ordered' = Order(i, extras) /\ platform' = platform
    BY <2>1, SameSession DEF Modify
  <2>3. /\ sent'["modify"] # None
        /\ DOMAIN sent'["modify"].specialEquipPrefs = DOMAIN extras
        /\ \A j \in DOMAIN extras :
             /\ sent'["modify"].specialEquipPrefs[j].code = extras[j].code
             /\ sent'["modify"].specialEquipPrefs[j].quantity = Unwrap(extras[j].quantity, 1)
    BY <2>1, Modifying
  <2>4. ordered'.extras = extras /\ ordered' # None
    BY <1>2, <2>2
  <2>5. HasOrdered(platform, sent'["modify"], extras)
    <3>1. extras \in Seq(BookingExtraOrFee)
      BY <1>1, OrderExtras
    <3> QED BY <2>2, <2>3, <3>1, ListedOrder
  <2> QED BY <2>2, <2>3, <2>4, <2>5, OrderKept DEF ModifiedOrdered
<1>5. ASSUME UNCHANGED <<session, ordered>>, sent'["modify"] = sent["modify"],
             sent'["book"] = sent["book"]
      PROVE  ExtrasOrdered' /\ ModifiedOrdered'
  <2>1. platform' = platform
    BY <1>5, SameSession
  <2>2. ModifiedOrdered'
    BY <1>5 DEF ModifiedOrdered
  <2>3. ExtrasOrdered'
    BY <1>5, <2>1, ExtrasOrderedIn
  <2> QED BY <2>2, <2>3
<1>6. CASE \E t \in session.trips : Search(t) \/ Requote(t)
  <2>1. UNCHANGED <<session, ordered>>
    BY <1>6 DEF Search, Requote
  <2>2. sent'["book"] = sent["book"] /\ sent'["modify"] = sent["modify"]
    BY <1>1, <1>6 DEF Search, Requote, FromCache, FromSupplier, QuotesFromSupplier, Kinds
  <2> QED BY <1>5, <2>1, <2>2
<1>7. CASE Locations \/ Forget \/ Status \/ Cancel \/ UNCHANGED vars
  <2>1. UNCHANGED <<session, ordered>>
    BY <1>7 DEF Locations, Forget, Status, Cancel, vars
  <2>2. sent'["book"] = sent["book"] /\ sent'["modify"] = sent["modify"]
    BY <1>1, <1>7 DEF Locations, Forget, Status, Cancel, vars, Kinds
  <2> QED BY <1>5, <2>1, <2>2
<1> QED BY <1>3, <1>4, <1>6, <1>7 DEF Next

\* What is sent has the extras of the order.
THEOREM ExtrasReach == Spec => []ExtrasOrdered
<1>1. Init => ExtrasOrdered /\ ModifiedOrdered
  BY DEF Init, ExtrasOrdered, ModifiedOrdered, OrderIn, Kinds
<1> QED BY <1>1, ExtrasStep, FittingAlways, PTL DEF Spec

-----------------------------------------------------------------------------
(***************************************************************************)
(* A re-quote shows what the search showed.                                *)
(***************************************************************************)
\* A re-quote shows what the search shows.
LEMMA QuotesAsRates ==
  ASSUME Fitting, NEW t \in session.trips, platform = "hertz", NEW existing,
         existing.supplierBookingReference = "conf",
         QuotesFromSupplier(Params(t, existing)), session' = session, trip' = t
  PROVE  QuoteAsRates'
<1> DEFINE params == Params(t, existing)
           plain == Params(t, None)
           equips == session.equips
           I(offer) == {i \in DOMAIN offer :
                          Hertz!MapVehicles(<<offer[i]>>, equips, params, cfg).vehicles # <<>>}
           A == Hertz!VehAvail(OfferId, OrNone(QuoteId))
           E == Hertz!VehAvail({None}, {None})
           id == IssuedFor(params)
           echo == [booking |-> params.booking.supplierBookingReference,
                    pickUp |-> params.pickUp, dropOff |-> params.dropOff,
                    from |-> params.from, until |-> params.until]
<1>1. PICK offer \in session.offers :
        LET priced == Only(offer, I(offer))
            parsed == [i \in DOMAIN priced |->
                         Hertz!ParseQuote(answer'[i], equips, params, cfg)]
        IN  /\ answer' = Echoed(Issued(priced, params), params)
            /\ vehicles' = Only(parsed, {i \in DOMAIN parsed : parsed[i] # None})
  BY DEF QuotesFromSupplier
<1> DEFINE priced == Only(offer, I(offer))
           a == answer'
           quotes == [i \in DOMAIN a |-> Hertz!ParseQuote(a[i], equips, params, cfg)]
<1>2. session \in Sessions /\ equips \in Seq(Hertz!PricedEquip) /\ t \in Rental
  BY SessionParts DEF Fitting, TypeInv
<1>3. offer \in Seq(E)
  <2>1. session.offers \subseteq Seq(Offered(platform, {None}, {None}, {None}))
    BY <1>2, SessionParts
  <2>2. Offered(platform, {None}, {None}, {None}) = E
    BY DEF Offered
  <2> HIDE DEF E
  <2> QED BY <2>1, <2>2
<1>4. /\ params.rentalDays \in Int /\ Alike(params, plain)
      /\ id \in OfferId /\ params.booking = existing
      /\ params.pickUp = t.pickUp /\ params.dropOff = t.dropOff
      /\ params.from = t.from /\ params.until = t.until
      /\ t.pickUp \in STRING /\ t.dropOff \in STRING /\ t.from \in Int /\ t.until \in Int
  <2>1. Alike(params, plain)
    BY DEF Alike, Params, RatesRequest
  <2> HIDE DEF params
  <2> QED BY <1>2, <2>1, TripParts DEF params
<1>5. echo \in QuoteId /\ echo # None
  <2> HIDE DEF params
  <2>1. echo \in QuoteId
    BY <1>4, TextIsText DEF QuoteId
  <2> QED BY <2>1, NoneIsNoValue
<1>6. \A i \in DOMAIN priced :
        /\ priced[i] \in E /\ priced[i].status = "Available"
        /\ HertzBase(priced[i], params) # None
  <2> DEFINE J == I(offer)
  <2>1. \A j \in DOMAIN offer \cap J : /\ offer[j] \in E
          /\ Hertz!MapVehicles(<<offer[j]>>, equips, params, cfg).vehicles # <<>>
    BY <1>3
  <2>4. priced = Only(offer, J)
    OBVIOUS
  <2> HIDE DEF params, equips, E, J, I, priced
  <2>2. /\ Only(offer, J) \in Seq(E)
        /\ \A i \in DOMAIN Only(offer, J) : \E j \in DOMAIN offer \cap J : Only(offer, J)[i] = offer[j]
    BY <1>3, OnlyElements
  <2>3. \A j \in DOMAIN offer \cap J :
          offer[j].status = "Available" /\ HertzBase(offer[j], params) # None
    BY <1>2, <1>4, <2>1, PricedAlone DEF E
  <2> QED BY <2>1, <2>2, <2>3, <2>4
<1>7. QuotesGive(priced, params, t)
  <2> HIDE DEF I
  <2>1. priced \in Seq(E)
    BY <1>2, PricedOffer
  <2> QED BY <1>2, <2>1, QuotesFit
<1>8. a = QuoteAnswer(priced, params) /\ a \in Seq(Answered) /\ DOMAIN a = DOMAIN priced
  BY <1>1, <1>7 DEF QuoteAnswer, QuotesGive
<1>9. vehicles' = Kept(quotes)
  BY <1>1, <1>8 DEF Kept
<1> HIDE DEF params, priced, I
<1>10. a = [i \in DOMAIN priced |-> Echo(priced[i], id, echo)]
  <2>1. Issued(priced, params) = [i \in DOMAIN priced |-> [priced[i] EXCEPT !.reference = id]]
    BY DEF Issued
  <2>2. QuoteAnswer(priced, params) =
          [i \in DOMAIN Issued(priced, params) |-> [Issued(priced, params)[i] EXCEPT !.echoToken = echo]]
    BY DEF QuoteAnswer, Echoed
  <2> HIDE DEF id, echo
  <2> QED BY <1>8, <2>1, <2>2 DEF Echo
<1> HIDE DEF id, echo, plain, equips, a, E
<1>11. \A i \in DOMAIN a :
         a[i].status = "Available" /\ HertzBase(a[i], params) # None /\ a[i].echoToken # None
  <2> SUFFICES ASSUME NEW i \in DOMAIN a
               PROVE  a[i].status = "Available" /\ HertzBase(a[i], params) # None /\ a[i].echoToken # None
    OBVIOUS
  <2> DEFINE va == priced[i]
  <2>1. va \in E /\ va.status = "Available" /\ HertzBase(va, params) # None /\ a[i] = Echo(va, id, echo)
    BY <1>6, <1>8, <1>10
  <2> HIDE DEF va
  <2>2. /\ Echo(va, id, echo).status = va.status /\ Echo(va, id, echo).total = va.total
        /\ Echo(va, id, echo).paymentRules = va.paymentRules
        /\ Echo(va, id, echo).echoToken = echo
    BY <2>1 DEF E, Hertz!VehAvail, Echo
  <2>3. HertzBase(Echo(va, id, echo), params) = HertzBase(va, params)
    BY <2>2 DEF HertzBase
  <2> QED BY <1>5, <2>1, <2>2, <2>3
<1>12. None \notin HertzVehicles(OfferId, QuoteId) /\ Answered = A
  <2>1. None \notin VehicleFor("hertz")
    BY NoneIsNoValue DEF Platforms
  <2>2. VehicleFor("hertz") = HertzVehicles(OfferId, QuoteId) /\ Answered = A
    BY DEF VehicleFor, SupplierRateReferences, HertzVehicles, Answered, Offered
  <2> QED BY <2>1, <2>2
<1>13. ShownAsRates(Kept(quotes), a, equips, plain, cfg)
  <2> HIDE DEF quotes
  <2> QED BY <1>2, <1>4, <1>8, <1>11, <1>12, QuotesShown DEF quotes, equips
<1> HIDE DEF quotes
<1>14. ShownAsRates(vehicles', answer', session'.equips, plain, cfg)
  BY <1>9, <1>13 DEF a, equips
<1>15. Params(trip, None)' = plain /\ cfg' = cfg
  BY SameSession DEF Params, plain
<1> QED BY <1>14, <1>15 DEF QuoteAsRates, ShownAsRates, ShownOf

\* Every step keeps quotes shown as rates.
LEMMA QuotesStep == Fitting /\ QuoteAsRates /\ [Next]_vars => QuoteAsRates'
<1> SUFFICES ASSUME Fitting, QuoteAsRates, [Next]_vars PROVE QuoteAsRates'
  OBVIOUS
<1>1. CASE quoted' = FALSE
  BY <1>1 DEF QuoteAsRates
<1>2. ASSUME UNCHANGED <<session, trip, answer, vehicles, quoted>>
      PROVE  QuoteAsRates'
  <2>1. Params(trip, None)' = Params(trip, None) /\ cfg' = cfg
    BY <1>2, SameSession DEF Params
  <2> QED BY <1>2, <2>1 DEF QuoteAsRates
<1>3. ASSUME NEW t \in session.trips, Search(t) PROVE QuoteAsRates'
  BY <1>1, <1>3 DEF Search, FromCache, FromSupplier
<1>4. ASSUME NEW t \in session.trips, Requote(t) PROVE QuoteAsRates'
  <2> DEFINE existing == ExistingBooking(booking.reference, customer)
  <2>1. /\ trip' = t /\ platform = "hertz" /\ booking # None /\ session' = session
        /\ FromCache(Params(t, existing)) \/ QuotesFromSupplier(Params(t, existing))
    BY <1>4 DEF Requote, Live
  <2>2. existing.supplierBookingReference = "conf"
    BY <2>1 DEF Fitting, TypeInv, ExistingBooking
  <2> HIDE DEF existing
  <2>3. CASE FromCache(Params(t, existing))
    BY <1>1, <2>3 DEF FromCache
  <2>4. CASE QuotesFromSupplier(Params(t, existing))
    BY <2>1, <2>2, <2>4, QuotesAsRates
  <2> QED BY <2>1, <2>3, <2>4
<1>5. CASE \E i \in DOMAIN vehicles : \E extras \in session.orders :
             Book(i, extras) \/ Modify(i, extras)
  BY <1>2, <1>5 DEF Book, Modify
<1>6. CASE Locations \/ Forget \/ Status \/ Cancel \/ UNCHANGED vars
  BY <1>2, <1>6 DEF Locations, Forget, Status, Cancel, vars
<1> QED BY <1>3, <1>4, <1>5, <1>6 DEF Next

\* A re-quote of what has not changed shows what the search showed.
THEOREM RequoteShown == Spec => []QuoteAsRates
<1>1. Init => QuoteAsRates
  BY DEF Init, QuoteAsRates
<1> QED BY <1>1, QuotesStep, FittingAlways, PTL DEF Spec

-----------------------------------------------------------------------------
(***************************************************************************)
(* What the options of a contract change in a total.                       *)
(***************************************************************************)
\* A vehicle of the last answer, and what it is priced with.
LEMMA AnswerParts ==
  ASSUME Fitting, platform = "hertz", NEW i \in DOMAIN answer
  PROVE  /\ answer[i] \in Hertz!VehAvail(OfferId, OrNone(QuoteId))
         /\ session.equips \in Seq(Hertz!PricedEquip)
         /\ Params(trip, None).rentalDays \in Int
         /\ Params(trip, None).paymentType \in {"full", "partial"}
<1>1. answer \in Seq(Answered) /\ answer # <<>> /\ session \in Sessions
  BY DEF Fitting, TypeInv
<1>2. Answered = Hertz!VehAvail(OfferId, OrNone(QuoteId))
  BY DEF Answered, Offered
<1>3. trip \in session.trips
  BY <1>1 DEF Fitting, TypeInv
<1>4. session.trips \subseteq Rental /\ session.equips \in Seq(Hertz!PricedEquip)
  BY <1>1, SessionParts
<1>5. Params(trip, None).rentalDays \in Int
  BY <1>3, <1>4, TripParts
<1>6. Params(trip, None).paymentType = session.paymentType
  BY DEF Params, RatesRequest
<1>7. session.paymentType \in {"full", "partial"}
  BY <1>1, SessionParts
<1> QED BY <1>1, <1>2, <1>4, <1>5, <1>6, <1>7

\* A configuration of Hertz with one of its flags changed.
LEMMA FlagsChanged ==
  ASSUME Fitting, platform = "hertz", NEW flag \in BOOLEAN
  PROVE  /\ LET c == [cfg EXCEPT !.includeCoveragesInRate = flag]
            IN  /\ SameCoverages(c, cfg) /\ SameCharges(c, cfg)
                /\ c.includeCoveragesInRate = flag
         /\ LET c == [cfg EXCEPT !.fpPayFeesLocally = flag]
            IN  /\ SameCoverages(c, cfg) /\ c.includeCoveragesInRate = cfg.includeCoveragesInRate
                /\ c.feePayableLocally = cfg.feePayableLocally
                /\ c.fpPaynowVehiclePriceWithTax = cfg.fpPaynowVehiclePriceWithTax
         /\ LET c == [cfg EXCEPT !.fpPaynowVehiclePriceWithTax = flag]
            IN  /\ SameCoverages(c, cfg) /\ c.includeCoveragesInRate = cfg.includeCoveragesInRate
                /\ c.feePayableLocally = cfg.feePayableLocally
                /\ c.fpPayFeesLocally = cfg.fpPayFeesLocally
                /\ c.fpPaynowVehiclePriceWithTax = flag
<1>1. session \in Sessions
  BY DEF Fitting, TypeInv
<1> DEFINE countries == IF cfg.residenceCountryMapping = None THEN {}
                        ELSE DOMAIN cfg.residenceCountryMapping
           fees == DOMAIN cfg.feePayableLocally
<1>2. cfg \in Hertz!HertzConfiguration(countries, fees)
  BY <1>1, HertzConfigured
<1> HIDE DEF countries, fees
<1> QED BY <1>2 DEF Hertz!HertzConfiguration, SameCoverages, SameCharges

\* Whatever the answer, what is moved into the price is paid once.
LEMMA OnceAlways == Fitting => CoveragesOnce
<1> SUFFICES ASSUME Fitting, platform = "hertz" PROVE CoveragesOnce
  BY DEF CoveragesOnce
<1> DEFINE c == [cfg EXCEPT !.includeCoveragesInRate = TRUE]
           d == [cfg EXCEPT !.includeCoveragesInRate = FALSE]
           params == Params(trip, None)
<1>1. /\ SameCoverages(c, d) /\ SameCharges(c, d)
      /\ c.includeCoveragesInRate = TRUE /\ d.includeCoveragesInRate = FALSE
  <2>1. /\ SameCoverages(c, cfg) /\ SameCharges(c, cfg) /\ c.includeCoveragesInRate = TRUE
        /\ SameCoverages(d, cfg) /\ SameCharges(d, cfg) /\ d.includeCoveragesInRate = FALSE
    BY FlagsChanged
  <2> HIDE DEF c, d
  <2> QED BY <2>1 DEF SameCoverages, SameCharges
<1> HIDE DEF c, d
<1>2. ASSUME NEW i \in DOMAIN answer, Priced(d)[i] # None
      PROVE  OnceFor(Priced(c)[i], Priced(d)[i])
  <2>1. /\ Priced(c)[i] = Hertz!ParseVehicle(answer[i], session.equips, params, c)
        /\ Priced(d)[i] = Hertz!ParseVehicle(answer[i], session.equips, params, d)
    BY DEF Priced
  <2>2. HertzBase(answer[i], params) # None
    <3>1. \A va, equips, p, e : HertzBase(va, p) = None => Hertz!ParseVehicle(va, equips, p, e) = None
      BY HertzVehicle
    <3> HIDE DEF params
    <3> QED BY <1>2, <2>1, <3>1
  <2>3. /\ answer[i] \in Hertz!VehAvail(OfferId, OrNone(QuoteId))
        /\ session.equips \in Seq(Hertz!PricedEquip) /\ params.rentalDays \in Int
    BY AnswerParts
  <2> HIDE DEF params
  <2> QED BY <1>1, <2>1, <2>2, <2>3, VehicleOnce
<1>3. \A i \in DOMAIN answer : Priced(d)[i] # None =>
        Total(Priced(c)[i]) = Total(Priced(d)[i]) + AmountsOf(Priced(d)[i].extrasAndFees,
          LAMBDA e : e.type = "VCT" /\ e.mandatory /\ e.includedInRate)
  BY <1>2 DEF OnceFor
<1> QED BY <1>3 DEF CoveragesOnce, c, d

\* What is moved into the price is paid once.
THEOREM CoveragesPaidOnce == Spec => []CoveragesOnce
BY OnceAlways, FittingAlways, PTL

-----------------------------------------------------------------------------
\* The total and the charges of a vehicle are those of an offer.
OfOffer(va) ==
  \E offer \in session.offers : \E j \in DOMAIN offer :
    va.total = offer[j].total /\ va.charges = offer[j].charges

AnswerOffered == platform = "hertz" => \A i \in DOMAIN answer : OfOffer(answer[i])

\* The taxes of an offer mean the same in percent and as an amount.
LEMMA OfferTaxes ==
  ASSUME session \in Sessions, platform = "hertz", NEW va, OfOffer(va)
  PROVE  TaxesMean(va)
<1>1. PICK offer \in session.offers : \E j \in DOMAIN offer :
        va.total = offer[j].total /\ va.charges = offer[j].charges
  BY DEF OfOffer
<1>2. PICK i \in DOMAIN offer : va.total = offer[i].total /\ va.charges = offer[i].charges
  BY <1>1
<1>3. session.platform = "hertz"
  BY DEF platform
<1>4. \A j \in DOMAIN offer[i].charges : \A k \in DOMAIN offer[i].charges[j].taxes :
        LET tax == offer[i].charges[j].taxes[k]
        IN  offer[i].charges[j].purpose = Hertz!RentalFee /\ tax.description = "Tax" =>
              Hertz!Taxed(offer[i].total.amount, tax.percentage)
                = offer[i].total.amount + tax.total
  BY <1>3, TaxesAgree, Zenon
<1> QED BY <1>2, <1>4 DEF TaxesMean

\* What a search answers with is, but for the reference, an offer.
LEMMA SearchOffered ==
  ASSUME Fitting, NEW t \in session.trips, FromSupplier(Params(t, None)), session' = session
  PROVE  AnswerOffered'
<1> DEFINE params == Params(t, None)
<1> SUFFICES ASSUME platform = "hertz", NEW i \in DOMAIN answer'
             PROVE  OfOffer(answer'[i])
  <2>1. platform' = platform
    BY SameSession
  <2>2. AnswerOffered' <=> (platform' = "hertz" =>
          \A i \in DOMAIN answer' : \E offer \in session'.offers : \E j \in DOMAIN offer :
            answer'[i].total = offer[j].total /\ answer'[i].charges = offer[j].charges)
    BY DEF AnswerOffered, OfOffer
  <2> QED BY <2>1, <2>2 DEF OfOffer
<1>1. PICK offer \in session.offers : answer' = Issued(offer, params)
  BY DEF FromSupplier
<1>2. offer \in Seq(Hertz!VehAvail({None}, {None}))
  <2>1. session.offers \subseteq Seq(Offered(platform, {None}, {None}, {None}))
    BY SessionParts DEF Fitting, TypeInv
  <2>2. Offered(platform, {None}, {None}, {None}) = Hertz!VehAvail({None}, {None})
    BY DEF Offered
  <2> QED BY <2>1, <2>2
<1> HIDE DEF params
<1>3. answer' = [j \in DOMAIN offer |-> [offer[j] EXCEPT !.reference = IssuedFor(params)]]
  BY <1>1 DEF Issued
<1>4. i \in DOMAIN offer /\ answer'[i] = [offer[i] EXCEPT !.reference = IssuedFor(params)]
  BY <1>3
<1>5. answer'[i].total = offer[i].total /\ answer'[i].charges = offer[i].charges
  <2>1. offer[i] \in Hertz!VehAvail({None}, {None})
    BY <1>2, <1>4
  <2> QED BY <2>1, <1>4 DEF Hertz!VehAvail
<1> QED BY <1>4, <1>5 DEF OfOffer

\* What a re-quote answers with is, but for reference and token, some of an offer.
LEMMA QuotesOffered ==
  ASSUME Fitting, NEW params, QuotesFromSupplier(params), session' = session
  PROVE  AnswerOffered'
<1> DEFINE I(offer) == {i \in DOMAIN offer :
                          Hertz!MapVehicles(<<offer[i]>>, session.equips, params, cfg).vehicles # <<>>}
           E == Hertz!VehAvail({None}, {None})
           id == IssuedFor(params)
           echo == [booking |-> params.booking.supplierBookingReference,
                    pickUp |-> params.pickUp, dropOff |-> params.dropOff,
                    from |-> params.from, until |-> params.until]
<1> SUFFICES ASSUME platform = "hertz", NEW i \in DOMAIN answer'
             PROVE  OfOffer(answer'[i])
  <2>1. platform' = platform
    BY SameSession
  <2>2. AnswerOffered' <=> (platform' = "hertz" =>
          \A i \in DOMAIN answer' : \E offer \in session'.offers : \E j \in DOMAIN offer :
            answer'[i].total = offer[j].total /\ answer'[i].charges = offer[j].charges)
    BY DEF AnswerOffered, OfOffer
  <2> QED BY <2>1, <2>2 DEF OfOffer
<1>1. PICK offer \in session.offers :
        answer' = Echoed(Issued(Only(offer, I(offer)), params), params)
  BY DEF QuotesFromSupplier
<1> DEFINE J == I(offer)
           priced == Only(offer, J)
<1>2. offer \in Seq(E)
  <2>1. session.offers \subseteq Seq(Offered(platform, {None}, {None}, {None}))
    BY SessionParts DEF Fitting, TypeInv
  <2>2. Offered(platform, {None}, {None}, {None}) = E
    BY DEF Offered
  <2> HIDE DEF E
  <2> QED BY <2>1, <2>2
<1>3. answer' = Echoed(Issued(priced, params), params)
  BY <1>1
<1> HIDE DEF I, J, E, priced
<1>4. priced \in Seq(E) /\ \A j \in DOMAIN priced : \E k \in DOMAIN offer : priced[j] = offer[k]
  BY <1>2, OnlyElements DEF priced
<1>5. answer' = [j \in DOMAIN priced |-> Echo(priced[j], id, echo)]
  <2>1. Issued(priced, params) = [j \in DOMAIN priced |-> [priced[j] EXCEPT !.reference = id]]
    BY DEF Issued
  <2>2. answer' = [j \in DOMAIN Issued(priced, params) |->
                     [Issued(priced, params)[j] EXCEPT !.echoToken = echo]]
    BY <1>3 DEF Echoed
  <2> HIDE DEF id, echo
  <2> QED BY <2>1, <2>2 DEF Echo
<1> HIDE DEF id, echo
<1>6. i \in DOMAIN priced /\ answer'[i] = Echo(priced[i], id, echo)
  BY <1>5
<1>7. PICK k \in DOMAIN offer : priced[i] = offer[k]
  BY <1>4, <1>6
<1>8. answer'[i].total = offer[k].total /\ answer'[i].charges = offer[k].charges
  <2>1. offer[k] \in Hertz!VehAvail({None}, {None})
    BY <1>2 DEF E
  <2> QED BY <2>1, <1>6, <1>7 DEF Hertz!VehAvail, Echo
<1> QED BY <1>8 DEF OfOffer

\* A step keeps the supplier's vehicles those of an offer.
LEMMA OfferedStep == Fitting /\ AnswerOffered /\ [Next]_vars => AnswerOffered'
<1> SUFFICES ASSUME Fitting, AnswerOffered, [Next]_vars PROVE AnswerOffered'
  OBVIOUS
<1>1. ASSUME UNCHANGED <<session, answer>> PROVE AnswerOffered'
  <2>1. platform' = platform
    BY <1>1, SameSession
  <2> QED BY <1>1, <2>1 DEF AnswerOffered, OfOffer
<1>2. ASSUME NEW t \in session.trips, Search(t) PROVE AnswerOffered'
  <2>1. session' = session /\ (FromCache(Params(t, None)) \/ FromSupplier(Params(t, None)))
    BY <1>2 DEF Search
  <2> QED BY <1>1, <2>1, SearchOffered DEF FromCache
<1>3. ASSUME NEW t \in session.trips, Requote(t) PROVE AnswerOffered'
  <2>1. session' = session /\ \E params : FromCache(params) \/ QuotesFromSupplier(params)
    BY <1>3 DEF Requote
  <2> QED BY <1>1, <2>1, QuotesOffered DEF FromCache
<1>4. CASE \E i \in DOMAIN vehicles : \E extras \in session.orders :
             Book(i, extras) \/ Modify(i, extras)
  BY <1>1, <1>4 DEF Book, Modify
<1>5. CASE Locations \/ Forget \/ Status \/ Cancel \/ UNCHANGED vars
  BY <1>1, <1>5 DEF Locations, Forget, Status, Cancel, vars
<1> QED BY <1>2, <1>3, <1>4, <1>5 DEF Next

\* With a price, a vehicle is mapped.
LEMMA PricedIsMapped ==
  ASSUME Fitting, platform = "hertz", NEW i \in DOMAIN answer, NEW c
  PROVE  Hertz!ParseVehicle(answer[i], session.equips, Params(trip, None), c) = None
           <=> HertzBase(answer[i], Params(trip, None)) = None
<1> DEFINE va == answer[i]
           params == Params(trip, None)
           equips == session.equips
           R == Hertz!RateReference(OfferId \cup QuoteId, OrNone(QuoteId))
           asRate == [fromRates |-> va.reference, fromQuote |-> None,
                      estimatedTotalAmount |-> va.estimatedTotal]
           v == Hertz!ParseVehicle(va, equips, params, c)
<1>1. /\ va \in Hertz!VehAvail(OfferId, OrNone(QuoteId))
      /\ equips \in Seq(Hertz!PricedEquip) /\ params.rentalDays \in Int
  BY AnswerParts
<1> HIDE DEF va, params, equips
<1>2. HertzBase(va, params) = None => v = None
  BY HertzVehicle
<1>3. ASSUME HertzBase(va, params) # None PROVE v \in VehicleType(R)
  <2>1. asRate \in R
    BY <1>1, HertzReferenceType DEF HertzReferenceIn
  <2>2. v = VehicleOf(va.class, HertzShown(va, params, c), HertzItems(va, equips, params, c),
                      asRate, Hertz!MileageOf(va.distance), Hertz!FeaturesOf(va.vehicle))
    BY <1>3, HertzVehicle
  <2> HIDE DEF asRate, R, v
  <2> QED BY <1>1, <1>3, <2>1, <2>2, HertzVehicleType
<1>4. None \notin VehicleType(R)
  <2>1. None \notin VehicleFor("hertz")
    BY NoneIsNoValue DEF Platforms
  <2> QED BY <2>1 DEF VehicleFor, SupplierRateReferences
<1> HIDE DEF v, R
<1>5. v = None <=> HertzBase(va, params) = None
  BY <1>2, <1>3, <1>4
<1> QED BY <1>5 DEF v, va, params, equips

\* Two configurations under which every vehicle with a price costs the same.
LEMMA SameTotalsOf ==
  ASSUME Fitting, platform = "hertz", NEW c, NEW d,
         \A i \in DOMAIN answer : HertzBase(answer[i], Params(trip, None)) # None =>
           SameCost(answer[i], Params(trip, None), c, d)
  PROVE  SameTotals(Priced(c), Priced(d))
<1> DEFINE params == Params(trip, None)
<1> SUFFICES ASSUME NEW i \in DOMAIN answer
             PROVE  /\ Priced(c)[i] = None <=> Priced(d)[i] = None
                    /\ Priced(c)[i] # None => Total(Priced(c)[i]) = Total(Priced(d)[i])
  BY DEF SameTotals
<1>1. /\ Priced(c)[i] = Hertz!ParseVehicle(answer[i], session.equips, params, c)
      /\ Priced(d)[i] = Hertz!ParseVehicle(answer[i], session.equips, params, d)
  BY DEF Priced
<1>2. /\ Priced(c)[i] = None <=> HertzBase(answer[i], params) = None
      /\ Priced(d)[i] = None <=> HertzBase(answer[i], params) = None
  BY <1>1, PricedIsMapped
<1>3. /\ answer[i] \in Hertz!VehAvail(OfferId, OrNone(QuoteId))
      /\ session.equips \in Seq(Hertz!PricedEquip) /\ params.rentalDays \in Int
  BY AnswerParts
<1>4. HertzBase(answer[i], params) # None => SameCost(answer[i], params, c, d)
  OBVIOUS
<1> HIDE DEF params
<1>5. HertzBase(answer[i], params) # None => Total(Priced(c)[i]) = Total(Priced(d)[i])
  BY <1>1, <1>3, <1>4, VehicleSame
<1> QED BY <1>2, <1>5

\* Whatever the answer, the two flags decide where is paid, not what.
LEMMA WhereAlways == Fitting /\ AnswerOffered => WhereNotWhat
<1> SUFFICES ASSUME Fitting, AnswerOffered, platform = "hertz" PROVE WhereNotWhat
  BY DEF WhereNotWhat
<1> DEFINE params == Params(trip, None)
           c1 == [cfg EXCEPT !.fpPayFeesLocally = TRUE]
           d1 == [cfg EXCEPT !.fpPayFeesLocally = FALSE]
           c2 == [cfg EXCEPT !.fpPaynowVehiclePriceWithTax = TRUE]
           d2 == [cfg EXCEPT !.fpPaynowVehiclePriceWithTax = FALSE]
<1>1. /\ SameCoverages(c1, cfg) /\ c1.includeCoveragesInRate = cfg.includeCoveragesInRate
      /\ c1.feePayableLocally = cfg.feePayableLocally
      /\ c1.fpPaynowVehiclePriceWithTax = cfg.fpPaynowVehiclePriceWithTax
      /\ SameCoverages(d1, cfg) /\ d1.includeCoveragesInRate = cfg.includeCoveragesInRate
      /\ d1.feePayableLocally = cfg.feePayableLocally
      /\ d1.fpPaynowVehiclePriceWithTax = cfg.fpPaynowVehiclePriceWithTax
  BY FlagsChanged
<1>2. /\ SameCoverages(c2, cfg) /\ c2.includeCoveragesInRate = cfg.includeCoveragesInRate
      /\ c2.feePayableLocally = cfg.feePayableLocally
      /\ c2.fpPayFeesLocally = cfg.fpPayFeesLocally
      /\ c2.fpPaynowVehiclePriceWithTax = TRUE
      /\ SameCoverages(d2, cfg) /\ d2.includeCoveragesInRate = cfg.includeCoveragesInRate
      /\ d2.feePayableLocally = cfg.feePayableLocally
      /\ d2.fpPayFeesLocally = cfg.fpPayFeesLocally
      /\ d2.fpPaynowVehiclePriceWithTax = FALSE
  BY FlagsChanged
<1>3. SameTotals(Priced(c1), Priced(d1)) /\ SameTotals(Priced(c2), Priced(d2))
  <2> HIDE DEF c1, d1, c2, d2
  <2>1. SameCoverages(c1, d1) /\ SameCoverages(c2, d2)
    BY <1>1, <1>2 DEF SameCoverages
  <2>2. ASSUME NEW i \in DOMAIN answer, HertzBase(answer[i], params) # None
        PROVE  SameCost(answer[i], params, c1, d1) /\ SameCost(answer[i], params, c2, d2)
    <3>1. answer[i] \in Hertz!VehAvail(OfferId, OrNone(QuoteId)) /\ params.rentalDays \in Int
      BY AnswerParts
    <3>2. TaxesMean(answer[i])
      <4>1. OfOffer(answer[i]) /\ session \in Sessions
        BY DEF AnswerOffered, Fitting, TypeInv
      <4> QED BY <4>1, OfferTaxes
    <3> HIDE DEF params
    <3>3. SameCost(answer[i], params, c1, d1)
      BY <1>1, <2>1, <3>1, WherePaid
    <3>4. SameCost(answer[i], params, c2, d2)
      BY <1>2, <2>1, <2>2, <3>1, <3>2, InPriceOrBeside
    <3> QED BY <3>3, <3>4
  <2> QED BY <2>2, SameTotalsOf
<1> QED BY <1>3 DEF WhereNotWhat

\* What two flags of the configuration decide about where fees and tax are paid
\* and shown does not change what is paid.
THEOREM PaidAlike == Spec => []WhereNotWhat
<1>1. Init => AnswerOffered
  BY DEF Init, AnswerOffered
<1> QED BY <1>1, OfferedStep, WhereAlways, FittingAlways, PTL DEF Spec

-----------------------------------------------------------------------------
(***************************************************************************)
(* The documents have the elements that their types cannot do without.     *)
(***************************************************************************)
IsDocument(doc, kind) ==
  /\ doc.kind = IF kind = "extras" THEN "rates" ELSE kind
  /\ Conforms(doc, DocumentType(kind))

SentConform == \A kind \in Kinds : sent[kind] # None => IsDocument(sent[kind], kind)

\* What is a value is not None.
LEMMA IsValue ==
  \A v : v \in STRING \/ v \in Int \/ v \in PointOfSale \/ v \in Credentials \/ v \in OfferId
           => v # None
BY NoneIsNoValue

\* The kinds are text.
LEMMA KindsAreText == \A kind \in Kinds : kind # None
BY TextIsText, IsValue

\* A search of Hertz's rates and of its extras sends documents of their type.
LEMMA HertzRatesDocument ==
  ASSUME session \in Sessions, platform = "hertz", NEW t \in session.trips, NEW existing
  PROVE  LET params == Params(t, existing)
         IN  /\ IsDocument(RatesDocument(params), "rates")
             /\ IsDocument(Hertz!ExtrasDocument(params, cfg), "extras")
<1> DEFINE params == Params(t, existing)
           pos == Hertz!NewPOS(Hertz!MappedResidenceCountry(cfg, params.country), cfg, "")
           doc == Hertz!RatesDocument(params, cfg)
<1>1. t \in Rental
  BY SessionParts
<1>2. params.pickUp # None /\ params.from # None /\ params.until # None
  BY <1>1, TripParts, IsValue
<1>3. pos # None
  <2>1. params.country = customer.country /\ "" \in STRING
    BY TextIsText DEF Params, RatesRequest
  <2>2. pos \in PointOfSale
    BY <2>1, CustomerParts, HertzCountry, HertzPOS
  <2> QED BY <2>2, IsValue
<1>4. Hertz!Unwrap(cfg.maxResponses, 10) # None
  <2>1. cfg.maxResponses \in OrNone(Nat)
    BY HertzConfigured DEF Hertz!HertzConfiguration, Hertz!OrNone, OrNone
  <2> QED BY <2>1, IsValue DEF Hertz!Unwrap, OrNone
<1>5. "rates" # None
  BY KindsAreText DEF Kinds
<1> DEFINE max == Hertz!Unwrap(cfg.maxResponses, 10)
<1>6. /\ doc.kind = "rates" /\ doc.maxResponses = max /\ doc.pos = pos
      /\ doc.pickUp = params.pickUp /\ doc.from = params.from /\ doc.until = params.until
      /\ DOMAIN doc = {"kind", "maxResponses", "pos", "pickUp", "return", "from", "until",
                       "rateQualifier", "tour", "custLoyalty", "specialEquipPrefs"}
  BY DEF Hertz!RatesDocument
<1> DEFINE extras == Hertz!ExtrasDocument(params, cfg)
<1>7. /\ extras.kind = doc.kind /\ extras.maxResponses = doc.maxResponses /\ extras.pos = doc.pos
      /\ extras.pickUp = doc.pickUp /\ extras.from = doc.from /\ extras.until = doc.until
      /\ DOMAIN extras = DOMAIN doc
  <2> HIDE DEF doc
  <2>1. extras = [doc EXCEPT !.specialEquipPrefs =
                    [i \in DOMAIN params.branchExtras |->
                       [code |-> params.branchExtras[i], quantity |-> 1]]]
    BY DEF Hertz!ExtrasDocument, doc
  <2> HIDE DEF extras
  <2> QED BY <1>6, <2>1
<1>8. RatesDocument(params) = doc
  BY DEF RatesDocument
<1>9. /\ DocumentType("rates") = Hertz!VehAvailRateRQ
      /\ DocumentType("extras") = Hertz!VehAvailRateRQ
  BY DEF DocumentType, Hertz!DocumentType
<1> HIDE DEF params, pos, doc, extras, max
<1>10. IsDocument(doc, "rates") /\ IsDocument(extras, "extras")
  BY <1>2, <1>3, <1>4, <1>5, <1>6, <1>7, <1>9
  DEF IsDocument, Conforms, Hertz!VehAvailRateRQ, max
<1> QED BY <1>8, <1>10 DEF params, extras

\* Who asks is in every document of ProfitMax.
LEMMA ProfitMaxEnvelope ==
  ASSUME session \in Sessions, platform = "profitmaxdht"
  PROVE  /\ ProfitMax!Credentials(cfg) # None /\ ProfitMax!POS(cfg) # None
         /\ ProfitMax!Target(cfg) # None
         /\ cfg.maxResponses \in OrNone(Nat)
<1>1. cfg \in ProfitMax!ProfitMaxDHTConfiguration
  BY SessionParts DEF Configurations
<1>2. /\ cfg.vn \in OrNone(STRING) /\ cfg.vendorCode \in OrNone(STRING)
      /\ cfg.destination \in STRING /\ cfg.username \in STRING
      /\ cfg.maxResponses \in OrNone(Nat)
  BY <1>1 DEF ProfitMax!ProfitMaxDHTConfiguration, ProfitMax!OrNone, OrNone
<1>3. ProfitMax!Credentials(cfg) \in Credentials
  BY <1>2 DEF ProfitMax!Credentials, Credentials
<1>4. ProfitMax!POS(cfg) \in PointOfSale
  <2> DEFINE S == STRING \X OrNone(STRING)
             vn == {<<"4", cfg.vn>>}
             vendor == IF cfg.vendorCode = None THEN {} ELSE {<<"8", cfg.vendorCode>>}
  <2>1. "4" \in STRING /\ "8" \in STRING /\ "US" \in STRING
    BY TextIsText
  <2>2. vn \in SUBSET S /\ vendor \in SUBSET S
    BY <1>2, <2>1 DEF OrNone
  <2>3. ProfitMax!POS(cfg) = [country |-> "US", requestors |-> vn \cup vendor]
    BY DEF ProfitMax!POS
  <2> HIDE DEF vn, vendor, S
  <2>4. vn \cup vendor \in SUBSET S
    BY <2>2
  <2> QED BY <2>1, <2>3, <2>4 DEF PointOfSale, S
<1>5. ProfitMax!Target(cfg) \in STRING
  BY TextIsText DEF ProfitMax!Target
<1> QED BY <1>2, <1>3, <1>4, <1>5, IsValue

\* A search of ProfitMax sends a document of its type.
LEMMA ProfitMaxRatesDocument ==
  ASSUME session \in Sessions, platform = "profitmaxdht", NEW t \in session.trips
  PROVE  IsDocument(RatesDocument(Params(t, None)), "rates")
<1> DEFINE params == Params(t, None)
           max == ProfitMax!Unwrap(cfg.maxResponses, 10)
           doc == ProfitMax!RatesDocument(params, cfg)
<1>1. params.from # None /\ params.until # None
  BY SessionParts, TripParts, IsValue
<1>2. max # None
  BY ProfitMaxEnvelope, IsValue DEF ProfitMax!Unwrap, OrNone
<1>3. "rates" # None
  BY KindsAreText DEF Kinds
<1>4. /\ doc.kind = "rates" /\ doc.credentials = ProfitMax!Credentials(cfg)
      /\ doc.pos = ProfitMax!POS(cfg) /\ doc.target = ProfitMax!Target(cfg)
      /\ doc.maxResponses = max /\ doc.from = params.from /\ doc.until = params.until
      /\ DOMAIN doc = {"kind", "credentials", "pos", "target", "maxResponses", "pickUp", "return",
                       "from", "until", "rateQualifier", "tour"}
  BY DEF ProfitMax!RatesDocument
<1>5. RatesDocument(params) = doc /\ DocumentType("rates") = ProfitMax!VehAvailRateRQ
  BY DEF RatesDocument, DocumentType, ProfitMax!DocumentType
<1> HIDE DEF params, max, doc
<1>6. IsDocument(doc, "rates")
  BY <1>1, <1>2, <1>3, <1>4, <1>5, ProfitMaxEnvelope
  DEF IsDocument, Conforms, ProfitMax!VehAvailRateRQ, ProfitMax!InEnvelope
<1> QED BY <1>5, <1>6 DEF params

\* And so does one of Booking.com.
LEMMA BookingcomRatesDocument ==
  ASSUME session \in Sessions, platform = "bookingcom", NEW t \in session.trips
  PROVE  IsDocument(RatesDocument(Params(t, None)), "rates")
<1> DEFINE params == Params(t, None)
           doc == Bookingcom!RatesDocument(params, Iata)
<1>1. params.pickUp # None /\ params.dropOff # None /\ params.from # None /\ params.until # None
  BY SessionParts, TripParts, IsValue
<1>2. params.country # None
  BY CustomerParts, IsValue DEF Params, RatesRequest
<1>3. "rates" # None
  BY KindsAreText DEF Kinds
<1> HIDE DEF params
<1>4. /\ doc.kind = "rates" /\ doc.country = params.country
      /\ doc.pickUp # None /\ doc.dropOff # None
      /\ doc.from = params.from /\ doc.until = params.until
      /\ DOMAIN doc = {"kind", "country", "pickUp", "dropOff", "from", "until"}
  BY <1>1 DEF Bookingcom!RatesDocument
<1>5. RatesDocument(params) = doc /\ DocumentType("rates") = Bookingcom!SearchRQ
  BY DEF RatesDocument, DocumentType, Bookingcom!DocumentType
<1> HIDE DEF doc
<1>6. IsDocument(doc, "rates")
  BY <1>1, <1>2, <1>3, <1>4, <1>5 DEF IsDocument, Conforms, Bookingcom!SearchRQ
<1> QED BY <1>5, <1>6 DEF params

\* And one of AnyRent.
LEMMA AnyRentRatesDocument ==
  ASSUME session \in Sessions, platform = "anyrent", NEW t \in session.trips
  PROVE  IsDocument(RatesDocument(Params(t, None)), "rates")
<1> DEFINE params == Params(t, None)
           doc == AnyRent!RatesDocument(params)
<1>1. params.pickUp # None /\ params.dropOff # None /\ params.from # None /\ params.until # None
  BY SessionParts, TripParts, IsValue
<1>2. "rates" # None
  BY KindsAreText DEF Kinds
<1>3. /\ doc.kind = "rates" /\ doc.pickUp = params.pickUp /\ doc.dropOff = params.dropOff
      /\ doc.from = params.from /\ doc.until = params.until
      /\ DOMAIN doc = {"kind", "pickUp", "dropOff", "from", "until"}
  BY DEF AnyRent!RatesDocument
<1>4. RatesDocument(params) = doc /\ DocumentType("rates") = AnyRent!PricesAndAvailabilityRQ
  BY DEF RatesDocument, DocumentType, AnyRent!DocumentType
<1> HIDE DEF params, doc
<1>5. IsDocument(doc, "rates")
  BY <1>1, <1>2, <1>3, <1>4 DEF IsDocument, Conforms, AnyRent!PricesAndAvailabilityRQ
<1> QED BY <1>4, <1>5 DEF params

\* And one of Rently.
LEMMA RentlyRatesDocument ==
  ASSUME session \in Sessions, platform = "rently", NEW t \in session.trips
  PROVE  IsDocument(RatesDocument(Params(t, None)), "rates")
<1> DEFINE params == Params(t, None)
           doc == Rently!RatesDocument(params, cfg)
<1>1. params.pickUp # None /\ params.dropOff # None /\ params.from # None /\ params.until # None
  BY SessionParts, TripParts, IsValue
<1>2. cfg.commercialAgreementCode # None
  BY SessionParts, IsValue DEF Configurations, Rently!RentlyConfiguration
<1>3. "rates" # None
  BY KindsAreText DEF Kinds
<1>4. /\ doc.kind = "rates" /\ doc.deliveryLocation = params.pickUp
      /\ doc.dropOffLocation = params.dropOff
      /\ doc.from = params.from /\ doc.until = params.until
      /\ doc.commercialAgreementCode = cfg.commercialAgreementCode
      /\ DOMAIN doc = {"kind", "deliveryLocation", "dropOffLocation", "from", "until",
                       "commercialAgreementCode"}
  BY DEF Rently!RatesDocument
<1>5. RatesDocument(params) = doc /\ DocumentType("rates") = Rently!PricesAndAvailabilityRQ
  BY DEF RatesDocument, DocumentType, Rently!DocumentType
<1> HIDE DEF params, doc
<1>6. IsDocument(doc, "rates")
  BY <1>1, <1>2, <1>3, <1>4, <1>5 DEF IsDocument, Conforms, Rently!PricesAndAvailabilityRQ
<1> QED BY <1>5, <1>6 DEF params

\* A search sends documents of their type.
LEMMA RatesSent ==
  ASSUME session \in Sessions, NEW t \in session.trips
  PROVE  IsDocument(RatesDocument(Params(t, None)), "rates")
BY SessionParts, HertzRatesDocument, ProfitMaxRatesDocument, BookingcomRatesDocument,
   AnyRentRatesDocument, RentlyRatesDocument

\* A quote is asked for with a document of its type.
LEMMA QuoteSent ==
  ASSUME session \in Sessions, platform = "hertz", NEW t \in session.trips, NEW class,
         NEW existing, existing.supplierBookingReference = "conf",
         existing.lastName = customer.lastName
  PROVE  IsDocument(Hertz!QuoteDocument(Params(t, existing), cfg, class), "quote")
<1> DEFINE params == Params(t, existing)
           pos == Hertz!NewPOS(Hertz!MappedResidenceCountry(cfg, params.country), cfg, "")
           surname == Hertz!PersonName(params.booking)
           doc == Hertz!QuoteDocument(params, cfg, class)
<1>1. params.pickUp # None /\ params.from # None /\ params.until # None /\ params.booking = existing
  BY SessionParts, TripParts, IsValue
<1>2. pos # None
  <2>1. params.country = customer.country /\ "" \in STRING
    BY TextIsText DEF Params, RatesRequest
  <2>2. pos \in PointOfSale
    BY <2>1, CustomerParts, HertzCountry, HertzPOS
  <2> QED BY <2>2, IsValue
<1>3. surname # None
  <2>1. surname = Hertz!LatinCharacters(customer.lastName)
    BY <1>1 DEF Hertz!PersonName
  <2> QED BY <2>1, CustomerParts, LatinType, IsValue
<1>4. params.booking.supplierBookingReference # None
  BY <1>1, TextIsText, IsValue
<1>5. "quote" # None
  BY KindsAreText DEF Kinds
<1>6. /\ doc.kind = "quote" /\ doc.pos = pos /\ doc.pickUp = params.pickUp
      /\ doc.uniqueID = params.booking.supplierBookingReference
      /\ doc.from = params.from /\ doc.until = params.until /\ doc.surname = surname
      /\ DOMAIN doc = {"kind", "pos", "uniqueID", "pickUp", "from", "until", "vehPref",
                       "rentalPaymentPref", "phone", "surname"}
  BY DEF Hertz!QuoteDocument
<1>7. DocumentType("quote") = Hertz!VehModifyRQ
  BY DEF DocumentType, Hertz!DocumentType
<1> HIDE DEF params, pos, surname, doc
<1>8. IsDocument(doc, "quote")
  BY <1>1, <1>2, <1>3, <1>4, <1>5, <1>6, <1>7 DEF IsDocument, Conforms, Hertz!VehModifyRQ
<1> QED BY <1>8 DEF params, doc

\* What a booking is made of, on every platform.
LEMMA BookingParts ==
  ASSUME Fitting, NEW i \in DOMAIN vehicles, NEW extras \in session.orders
  PROVE  LET params == BookingParams(Order(i, extras))
         IN  /\ session \in Sessions
             /\ params.pickUp \in STRING /\ params.dropOff \in STRING
             /\ params.from \in Int /\ params.until \in Int
             /\ params.customer = customer
             /\ params.supplierRateReference = vehicles[i].supplierRateReference
             /\ vehicles[i].supplierRateReference \in SupplierRateReferences(platform)
<1>1. /\ trip \in Rental /\ vehicles[i] \in VType
      /\ Order(i, extras).trip = trip /\ Order(i, extras).vehicle = vehicles[i]
  BY OrderParts
<1>2. vehicles[i].supplierRateReference \in SupplierRateReferences(platform)
  BY <1>1 DEF VType, VehicleFor, VehicleType
<1>3. trip.pickUp \in STRING /\ trip.dropOff \in STRING /\ trip.from \in Int /\ trip.until \in Int
  BY <1>1, TripParts
<1>4. session \in Sessions
  BY DEF Fitting, TypeInv
<1> QED BY <1>1, <1>2, <1>3, <1>4 DEF BookingParams, BookingRequest

\* A booking with Hertz sends a document of its type.
LEMMA HertzBookingSent ==
  ASSUME Fitting, platform = "hertz", NEW i \in DOMAIN vehicles, NEW extras \in session.orders,
         NEW card
  PROVE  IsDocument(BookingDocument(BookingParams(Order(i, extras)), card), "book")
<1> DEFINE params == BookingParams(Order(i, extras))
           pos == Hertz!NewPOS(Hertz!MappedResidenceCountry(cfg, params.customer.country), cfg,
                               params.customer.brokerReference)
           surname == Hertz!PersonName(params.customer)
           doc == Hertz!BookingDocument(params, cfg)
<1>1. /\ session \in Sessions /\ params.pickUp # None /\ params.from # None /\ params.until # None
      /\ params.customer = customer
  BY BookingParts, IsValue
<1>2. pos # None
  <2>1. pos \in PointOfSale
    BY <1>1, CustomerParts, HertzCountry, HertzPOS
  <2> QED BY <2>1, IsValue
<1>3. surname # None
  BY <1>1, CustomerParts, LatinType, IsValue DEF Hertz!PersonName
<1>4. "book" # None
  BY KindsAreText DEF Kinds
<1>5. /\ doc.kind = "book" /\ doc.pos = pos /\ doc.pickUp = params.pickUp
      /\ doc.from = params.from /\ doc.until = params.until /\ doc.surname = surname
      /\ DOMAIN doc = {"kind", "pos", "pickUp", "return", "from", "until", "arrivalDetails",
                       "rentalPaymentPref", "vehPref", "reference", "specialEquipPrefs", "tour",
                       "custLoyalty", "phone", "surname"}
  BY DEF Hertz!BookingDocument
<1>6. BookingDocument(params, card) = doc /\ DocumentType("book") = Hertz!VehResRQ
  BY DEF BookingDocument, DocumentType, Hertz!DocumentType
<1> HIDE DEF params, pos, surname, doc
<1>7. IsDocument(doc, "book")
  BY <1>1, <1>2, <1>3, <1>4, <1>5, <1>6 DEF IsDocument, Conforms, Hertz!VehResRQ
<1> QED BY <1>6, <1>7 DEF params

\* And so does one with ProfitMax.
LEMMA ProfitMaxBookingSent ==
  ASSUME Fitting, platform = "profitmaxdht", NEW i \in DOMAIN vehicles,
         NEW extras \in session.orders, NEW card
  PROVE  IsDocument(BookingDocument(BookingParams(Order(i, extras)), card), "book")
<1> DEFINE params == BookingParams(Order(i, extras))
           surname == ProfitMax!LatinCharacters(params.customer.lastName)
           doc == ProfitMax!BookingDocument(params, cfg)
<1>1. /\ session \in Sessions /\ params.from # None /\ params.until # None
      /\ params.customer = customer
  BY BookingParts, IsValue
<1>2. surname # None
  <2>1. surname \in STRING
    BY <1>1, CustomerParts, LatinConforms DEF ProfitMax!LatinCharacters
  <2> QED BY <2>1, IsValue
<1>3. "book" # None
  BY KindsAreText DEF Kinds
<1>4. /\ doc.kind = "book" /\ doc.credentials = ProfitMax!Credentials(cfg)
      /\ doc.pos = ProfitMax!POS(cfg) /\ doc.target = ProfitMax!Target(cfg)
      /\ doc.from = params.from /\ doc.until = params.until /\ doc.surname = surname
      /\ DOMAIN doc = {"kind", "credentials", "pos", "target", "pickUp", "return", "from", "until",
                       "voucher", "reference", "specialEquipPrefs", "tour", "phone", "surname"}
  BY DEF ProfitMax!BookingDocument
<1>5. BookingDocument(params, card) = doc /\ DocumentType("book") = ProfitMax!VehResRQ
  BY DEF BookingDocument, DocumentType, ProfitMax!DocumentType
<1>6. /\ ProfitMax!Credentials(cfg) # None /\ ProfitMax!POS(cfg) # None
      /\ ProfitMax!Target(cfg) # None
  BY <1>1, ProfitMaxEnvelope
<1> HIDE DEF params, surname, doc
<1>7. IsDocument(doc, "book")
  BY <1>1, <1>2, <1>3, <1>4, <1>5, <1>6
  DEF IsDocument, Conforms, ProfitMax!VehResRQ, ProfitMax!InEnvelope
<1> QED BY <1>5, <1>7 DEF params

\* And one with Booking.com, once the card is known.
LEMMA BookingcomBookingSent ==
  ASSUME Fitting, platform = "bookingcom", NEW i \in DOMAIN vehicles,
         NEW extras \in session.orders, NEW card, card.vaultToken = "spt"
  PROVE  IsDocument(BookingDocument(BookingParams(Order(i, extras)), card), "book")
<1> DEFINE params == BookingParams(Order(i, extras))
           id == params.supplierRateReference
           name == Bookingcom!LatinCharacters(params.customer.lastName)
           doc == Bookingcom!BookingDocument(params, card)
<1>1. /\ session \in Sessions /\ params.from # None /\ params.until # None
      /\ params.customer = customer /\ id \in SupplierRateReferences(platform)
  BY BookingParts, IsValue
<1>2. /\ id.vehicleId # None /\ id.pickUpLocationId # None /\ id.dropOffLocationId # None
      /\ id.basePrice # None
  <2> HIDE DEF id
  <2>1. id \in Bookingcom!RateReference(OfferId)
    BY <1>1 DEF SupplierRateReferences
  <2>2. /\ id.vehicleId \in OfferId /\ id.pickUpLocationId \in STRING
        /\ id.dropOffLocationId \in STRING /\ id.basePrice \in Int
    BY <2>1 DEF Bookingcom!RateReference
  <2> QED BY <2>2, IsValue
<1>3. name # None /\ params.customer.country # None
  <2>1. name \in STRING /\ params.customer.country \in STRING
    BY <1>1, CustomerParts, LatinConforms DEF Bookingcom!LatinCharacters
  <2> QED BY <2>1, IsValue
<1>4. "book" # None /\ "spt" # None
  BY KindsAreText, TextIsText, IsValue DEF Kinds
<1>5. /\ doc.kind = "book" /\ doc.pickUp = id.pickUpLocationId
      /\ doc.dropOff = id.dropOffLocationId
      /\ doc.from = params.from /\ doc.until = params.until
      /\ doc.vehicleId = id.vehicleId /\ doc.acceptedPrice = id.basePrice
      /\ doc.lastName = name /\ doc.country = params.customer.country
      /\ doc.card = card.vaultToken
      /\ DOMAIN doc = {"kind", "pickUp", "dropOff", "from", "until", "vehicleId", "acceptedPrice",
                       "extras", "lastName", "country", "flightNo", "card"}
  BY DEF Bookingcom!BookingDocument
<1>6. BookingDocument(params, card) = doc /\ DocumentType("book") = Bookingcom!MakeBookingRQ
  BY DEF BookingDocument, DocumentType, Bookingcom!DocumentType
<1> HIDE DEF params, name, doc, id
<1>7. IsDocument(doc, "book")
  BY <1>1, <1>2, <1>3, <1>4, <1>5, <1>6 DEF IsDocument, Conforms, Bookingcom!MakeBookingRQ
<1> QED BY <1>6, <1>7 DEF params

\* And one with AnyRent, by what the vehicle refers to.
LEMMA AnyRentBookingSent ==
  ASSUME Fitting, platform = "anyrent", NEW i \in DOMAIN vehicles,
         NEW extras \in session.orders, NEW card
  PROVE  IsDocument(BookingDocument(BookingParams(Order(i, extras)), card), "book")
<1> DEFINE params == BookingParams(Order(i, extras))
           id == params.supplierRateReference
           driver == AnyRent!LatinCharacters(params.customer.lastName)
           doc == AnyRent!BookingDocument(params)
<1>1. /\ session \in Sessions /\ params.customer = customer
      /\ id \in SupplierRateReferences(platform)
  BY BookingParts
<1>2. /\ id.pickupStation # None /\ id.pickupDate # None /\ id.dropOffStation # None
      /\ id.dropOffDate # None /\ id.group # None
  <2> HIDE DEF id
  <2>1. id \in AnyRent!RateReference
    BY <1>1 DEF SupplierRateReferences
  <2>2. /\ id.pickupStation \in STRING /\ id.pickupDate \in Int /\ id.dropOffStation \in STRING
        /\ id.dropOffDate \in Int /\ id.group \in STRING
    BY <2>1 DEF AnyRent!RateReference
  <2> QED BY <2>2, IsValue
<1>3. driver # None /\ params.customer.country # None
  <2>1. driver \in STRING /\ params.customer.country \in STRING
    BY <1>1, CustomerParts, LatinConforms DEF AnyRent!LatinCharacters
  <2> QED BY <2>1, IsValue
<1>4. "book" # None
  BY KindsAreText DEF Kinds
<1>5. /\ doc.kind = "book" /\ doc.pickUp = id.pickupStation /\ doc.from = id.pickupDate
      /\ doc.dropOff = id.dropOffStation /\ doc.until = id.dropOffDate /\ doc.group = id.group
      /\ doc.driver = driver /\ doc.country = params.customer.country
      /\ DOMAIN doc = {"kind", "pickUp", "from", "dropOff", "until", "group", "extras", "taxes",
                       "driver", "country", "arrivalFlight"}
  BY DEF AnyRent!BookingDocument
<1>6. BookingDocument(params, card) = doc /\ DocumentType("book") = AnyRent!BookingRQ
  BY DEF BookingDocument, DocumentType, AnyRent!DocumentType
<1> HIDE DEF params, driver, doc, id
<1>7. IsDocument(doc, "book")
  BY <1>1, <1>2, <1>3, <1>4, <1>5, <1>6 DEF IsDocument, Conforms, AnyRent!BookingRQ
<1> QED BY <1>6, <1>7 DEF params

\* And one with Rently.
LEMMA RentlyBookingSent ==
  ASSUME Fitting, platform = "rently", NEW i \in DOMAIN vehicles,
         NEW extras \in session.orders, NEW card
  PROVE  IsDocument(BookingDocument(BookingParams(Order(i, extras)), card), "book")
<1> DEFINE params == BookingParams(Order(i, extras))
           id == params.supplierRateReference
           name == Rently!LatinCharacters(params.customer.lastName)
           doc == Rently!BookingDocument(params, cfg)
<1>1. /\ session \in Sessions /\ params.customer = customer
      /\ params.pickUp # None /\ params.dropOff # None
      /\ params.from # None /\ params.until # None
      /\ id \in SupplierRateReferences(platform)
  BY BookingParts, IsValue
<1>2. id.model # None
  <2> HIDE DEF id
  <2>1. id \in Rently!RateReference
    BY <1>1 DEF SupplierRateReferences
  <2>2. id.model \in Int
    BY <2>1 DEF Rently!RateReference
  <2> QED BY <2>2, IsValue
<1>3. name # None /\ params.customer.country # None /\ cfg.commercialAgreementCode # None
  <2>1. name \in STRING /\ params.customer.country \in STRING
    BY <1>1, CustomerParts, LatinConforms DEF Rently!LatinCharacters
  <2>2. cfg.commercialAgreementCode \in STRING
    BY <1>1, SessionParts DEF Configurations, Rently!RentlyConfiguration
  <2> QED BY <2>1, <2>2, IsValue
<1>4. "book" # None
  BY KindsAreText DEF Kinds
<1>5. /\ doc.kind = "book" /\ doc.model = id.model /\ doc.deliveryPlace = params.pickUp
      /\ doc.dropOffPlace = params.dropOff /\ doc.from = params.from /\ doc.until = params.until
      /\ doc.commercialAgreementCode = cfg.commercialAgreementCode
      /\ doc.customer = name /\ doc.country = params.customer.country
      /\ DOMAIN doc = {"kind", "model", "deliveryPlace", "dropOffPlace", "from", "until",
                       "additionals", "commercialAgreementCode", "customer", "country"}
  BY DEF Rently!BookingDocument
<1>6. BookingDocument(params, card) = doc /\ DocumentType("book") = Rently!BookingRQ
  BY DEF BookingDocument, DocumentType, Rently!DocumentType
<1> HIDE DEF params, name, doc, id
<1>7. IsDocument(doc, "book")
  BY <1>1, <1>2, <1>3, <1>4, <1>5, <1>6 DEF IsDocument, Conforms, Rently!BookingRQ
<1> QED BY <1>6, <1>7 DEF params

\* A booking sends a document of its type.
LEMMA BookingSent ==
  ASSUME Fitting, NEW i \in DOMAIN vehicles, NEW extras \in session.orders, NEW card,
         platform = "bookingcom" => card.vaultToken = "spt"
  PROVE  IsDocument(BookingDocument(BookingParams(Order(i, extras)), card), "book")
<1>1. platform \in {"hertz", "profitmaxdht", "bookingcom", "anyrent", "rently"}
  BY SessionParts DEF Fitting, TypeInv
<1>2. CASE platform = "hertz"
  BY <1>2, HertzBookingSent
<1>3. CASE platform = "profitmaxdht"
  BY <1>3, ProfitMaxBookingSent
<1>4. CASE platform = "bookingcom"
  BY <1>4, BookingcomBookingSent
<1>5. CASE platform = "anyrent"
  BY <1>5, AnyRentBookingSent
<1>6. CASE platform = "rently"
  BY <1>6, RentlyBookingSent
<1> QED BY <1>1, <1>2, <1>3, <1>4, <1>5, <1>6

\* A modification sends a document of its type.
LEMMA ModificationSent ==
  ASSUME platform = "hertz", NEW doc \in Hertz!Modification(PointOfSale, QuoteId)
  PROVE  IsDocument(doc, "modify")
<1> DEFINE V == OrNone([code : STRING, number : STRING])
           P == OrNone([voucher : OrNone([billingNumber : STRING, seriesCode : STRING]),
                        paymentAmount : OrNone(Int)])
           L == OrNone([member : STRING, program : STRING])
           E == Seq([code : STRING, quantity : Nat])
           S == OrNone(STRING)
           R == OrNone(QuoteId)
<1>1. doc \in [kind : {"modify"}, pos : PointOfSale, uniqueID : STRING, pickUp : STRING,
               from : Int, until : Int, arrivalDetails : V, rentalPaymentPref : P, vehPref : S,
               reference : R, specialEquipPrefs : E, custLoyalty : L, phone : S, surname : STRING]
  BY DEF Hertz!Modification, Hertz!OrNone, OrNone
<1> HIDE DEF V, P, L, E, S, R
<1>2. /\ doc.kind = "modify" /\ doc.pos \in PointOfSale /\ doc.uniqueID \in STRING
      /\ doc.pickUp \in STRING /\ doc.from \in Int /\ doc.until \in Int /\ doc.surname \in STRING
      /\ DOMAIN doc = {"kind", "pos", "uniqueID", "pickUp", "from", "until", "arrivalDetails",
                       "rentalPaymentPref", "vehPref", "reference", "specialEquipPrefs",
                       "custLoyalty", "phone", "surname"}
  BY <1>1
<1>3. "modify" # None
  BY KindsAreText DEF Kinds
<1>4. /\ doc.pos # None /\ doc.uniqueID # None /\ doc.pickUp # None /\ doc.from # None
      /\ doc.until # None /\ doc.surname # None
  BY <1>2, IsValue
<1>5. DocumentType("modify") = Hertz!VehModifyRQ
  BY DEF DocumentType, Hertz!DocumentType
<1> QED BY <1>2, <1>3, <1>4, <1>5 DEF IsDocument, Conforms, Hertz!VehModifyRQ

\* What a status request and a cancellation are made of.
LEMMA CancelParts ==
  ASSUME Fitting, booking # None
  PROVE  LET params == CancelRequest(booking.reference, customer, booking.supplierData)
         IN  /\ session \in Sessions
             /\ params.supplierBookingReference \in STRING /\ params.reservNumber \in STRING
             /\ params.brokerReference \in STRING
             /\ platform \in {"hertz", "profitmaxdht"} =>
                  /\ params.supplierData.lastName \in STRING
                  /\ params.supplierData.residenceCountry \in STRING
<1>1. /\ session \in Sessions /\ booking.reference = "conf" /\ booking.supplierData = SupplierData
  BY DEF Fitting, TypeInv
<1>2. platform \in {"hertz", "profitmaxdht"} =>
        /\ SupplierData.lastName = customer.lastName
        /\ SupplierData.residenceCountry = customer.country
  BY DEF SupplierData, Hertz!SupplierData, ProfitMax!SupplierData
<1>3. "conf" \in STRING
  BY TextIsText
<1> QED BY <1>1, <1>2, <1>3, CustomerParts DEF CancelRequest

\* A cancellation with Hertz sends a document of its type.
LEMMA HertzCancelSent ==
  ASSUME session \in Sessions, platform = "hertz", NEW params, params.brokerReference \in STRING,
         params.supplierData.residenceCountry \in STRING
  PROVE  IsDocument(Hertz!CancelDocument(params, cfg), "cancel")
<1> DEFINE pos == Hertz!NewPOS(params.supplierData.residenceCountry, cfg, params.brokerReference)
           doc == Hertz!CancelDocument(params, cfg)
<1>1. pos # None
  <2>1. pos \in PointOfSale
    BY HertzPOS
  <2> QED BY <2>1, IsValue
<1>2. "cancel" # None
  BY KindsAreText DEF Kinds
<1>3. /\ doc.kind = "cancel" /\ doc.pos = pos
      /\ DOMAIN doc = {"kind", "pos", "uniqueID", "surname"}
  BY DEF Hertz!CancelDocument
<1>4. DocumentType("cancel") = Hertz!VehCancelRQ
  BY DEF DocumentType, Hertz!DocumentType
<1> HIDE DEF pos, doc
<1>5. IsDocument(doc, "cancel")
  BY <1>1, <1>2, <1>3, <1>4 DEF IsDocument, Conforms, Hertz!VehCancelRQ
<1> QED BY <1>5 DEF doc

\* A cancellation and a status request with ProfitMax name the owner.
LEMMA ProfitMaxOwnerSent ==
  ASSUME session \in Sessions, platform = "profitmaxdht", NEW params,
         params.supplierBookingReference \in STRING, params.supplierData.lastName \in STRING
  PROVE  /\ IsDocument(ProfitMax!CancelDocument(params, cfg), "cancel")
         /\ IsDocument(ProfitMax!StatusDocument(params, cfg), "status")
<1> DEFINE cancel == ProfitMax!CancelDocument(params, cfg)
           status == ProfitMax!StatusDocument(params, cfg)
<1>1. /\ cancel.kind = "cancel" /\ cancel.credentials = ProfitMax!Credentials(cfg)
      /\ cancel.pos = ProfitMax!POS(cfg) /\ cancel.target = ProfitMax!Target(cfg)
      /\ DOMAIN cancel = {"kind", "credentials", "pos", "target", "uniqueID", "surname"}
  BY DEF ProfitMax!CancelDocument
<1>2. /\ status.kind = "status" /\ status.credentials = ProfitMax!Credentials(cfg)
      /\ status.pos = ProfitMax!POS(cfg) /\ status.target = ProfitMax!Target(cfg)
      /\ status.uniqueID = params.supplierBookingReference
      /\ status.surname = params.supplierData.lastName
      /\ DOMAIN status = {"kind", "credentials", "pos", "target", "uniqueID", "surname"}
  BY DEF ProfitMax!StatusDocument
<1>3. "cancel" # None /\ "status" # None
  BY KindsAreText DEF Kinds
<1>4. params.supplierBookingReference # None /\ params.supplierData.lastName # None
  BY IsValue
<1>5. /\ DocumentType("cancel") = ProfitMax!VehCancelRQ
      /\ DocumentType("status") = ProfitMax!VehRetResRQ
  BY DEF DocumentType, ProfitMax!DocumentType
<1> HIDE DEF cancel, status
<1>6. IsDocument(cancel, "cancel")
  BY <1>1, <1>3, <1>5, ProfitMaxEnvelope
  DEF IsDocument, Conforms, ProfitMax!VehCancelRQ, ProfitMax!InEnvelope
<1>7. IsDocument(status, "status")
  BY <1>2, <1>3, <1>4, <1>5, ProfitMaxEnvelope
  DEF IsDocument, Conforms, ProfitMax!VehRetResRQ, ProfitMax!InEnvelope
<1> QED BY <1>6, <1>7 DEF cancel, status

\* With the other three, they name the booking alone.
LEMMA NumberSent ==
  ASSUME NEW params, params.supplierBookingReference \in STRING, params.reservNumber \in STRING
  PROVE  /\ platform = "bookingcom" =>
              /\ IsDocument(Bookingcom!CancelDocument(params), "cancel")
              /\ IsDocument(Bookingcom!StatusDocument(params), "status")
         /\ platform = "anyrent" =>
              /\ IsDocument(AnyRent!CancelDocument(params), "cancel")
              /\ IsDocument(AnyRent!StatusDocument(params), "status")
         /\ platform = "rently" => IsDocument(Rently!CancelDocument(params), "cancel")
<1> DEFINE Made(kind, id) == [kind |-> kind, id |-> id]
           type == [required |-> {"kind", "id"}, optional |-> {}]
<1>1. \A kind, id : kind # None /\ id # None => Conforms(Made(kind, id), type)
  BY DEF Conforms
<1>2. "cancel" # None /\ "status" # None
  BY KindsAreText DEF Kinds
<1>3. params.supplierBookingReference # None /\ params.reservNumber # None
  BY IsValue
<1>4. /\ Bookingcom!CancelDocument(params) = Made("cancel", params.supplierBookingReference)
      /\ Bookingcom!StatusDocument(params) = Made("status", params.reservNumber)
      /\ AnyRent!CancelDocument(params) = Made("cancel", params.supplierBookingReference)
      /\ AnyRent!StatusDocument(params) = Made("status", params.supplierBookingReference)
      /\ Rently!CancelDocument(params) = Made("cancel", params.supplierBookingReference)
  BY DEF Bookingcom!CancelDocument, Bookingcom!StatusDocument, AnyRent!CancelDocument,
         AnyRent!StatusDocument, Rently!CancelDocument
<1>5. /\ platform = "bookingcom" => DocumentType("cancel") = type /\ DocumentType("status") = type
      /\ platform = "anyrent" => DocumentType("cancel") = type /\ DocumentType("status") = type
      /\ platform = "rently" => DocumentType("cancel") = type
  BY DEF DocumentType, Bookingcom!DocumentType, Bookingcom!BookingIdRQ, AnyRent!DocumentType,
         Rently!DocumentType
<1>6. \A kind, id : Made(kind, id).kind = kind
  OBVIOUS
<1> HIDE DEF Made, type
<1> QED BY <1>1, <1>2, <1>3, <1>4, <1>5, <1>6 DEF IsDocument

\* Every document that a step makes has its type, and the rest is as it was.
LEMMA SentMade ==
  ASSUME SentConform, session' = session,
         \A kind \in Kinds :
           sent'[kind] = sent[kind] \/ sent'[kind] = None \/ IsDocument(sent'[kind], kind)
  PROVE  SentConform'
<1>1. \A kind : DocumentType(kind)' = DocumentType(kind)
  BY SameSession DEF DocumentType
<1>2. ASSUME NEW kind \in Kinds, sent'[kind] # None
      PROVE  IsDocument(sent'[kind], kind)
  BY <1>2 DEF SentConform
<1>3. ASSUME NEW kind \in Kinds, sent'[kind] # None
      PROVE  IsDocument(sent[kind], kind)'
  <2>1. IsDocument(sent'[kind], kind)
    BY <1>2, <1>3
  <2> QED BY <1>1, <2>1 DEF IsDocument
<1> QED BY <1>3 DEF SentConform

\* A search keeps the documents of their types.
LEMMA SentBySearch ==
  ASSUME Fitting, SentConform, NEW t \in session.trips, FromSupplier(Params(t, None)),
         session' = session
  PROVE  SentConform'
<1> DEFINE rates == RatesDocument(Params(t, None))
           extras == IF platform = "hertz" THEN Hertz!ExtrasDocument(Params(t, None), cfg) ELSE None
<1>1. sent' = [sent EXCEPT !["rates"] = rates, !["extras"] = extras] /\ DOMAIN sent = Kinds
  BY DEF FromSupplier, Fitting, TypeInv
<1>2. IsDocument(rates, "rates")
  BY RatesSent DEF Fitting, TypeInv
<1>3. extras = None \/ IsDocument(extras, "extras")
  <2>1. platform = "hertz" => IsDocument(Hertz!ExtrasDocument(Params(t, None), cfg), "extras")
    BY HertzRatesDocument DEF Fitting, TypeInv
  <2> QED BY <2>1
<1> HIDE DEF rates, extras
<1>4. \A kind \in Kinds :
        sent'[kind] = IF kind = "rates" THEN rates ELSE IF kind = "extras" THEN extras ELSE sent[kind]
  BY <1>1
<1>5. \A kind \in Kinds :
        sent'[kind] = sent[kind] \/ sent'[kind] = None \/ IsDocument(sent'[kind], kind)
  BY <1>2, <1>3, <1>4
<1> QED BY <1>5, SentMade

\* And so does a re-quote.
LEMMA SentByRequote ==
  ASSUME Fitting, SentConform, NEW t \in session.trips, platform = "hertz", booking # None,
         QuotesFromSupplier(Params(t, ExistingBooking(booking.reference, customer))),
         session' = session
  PROVE  SentConform'
<1> DEFINE existing == ExistingBooking(booking.reference, customer)
           params == Params(t, existing)
           rates == RatesDocument(params)
           Quote(class) == Hertz!QuoteDocument(params, cfg, class)
<1>1. existing.supplierBookingReference = "conf" /\ existing.lastName = customer.lastName
  BY DEF Fitting, TypeInv, ExistingBooking
<1> HIDE DEF existing
<1>2. PICK class : \/ sent' = [sent EXCEPT !["rates"] = rates, !["quote"] = sent["quote"]]
                   \/ sent' = [sent EXCEPT !["rates"] = rates, !["quote"] = Quote(class)]
  BY DEF QuotesFromSupplier, existing
<1>3. session \in Sessions /\ DOMAIN sent = Kinds
  BY DEF Fitting, TypeInv
<1>4. IsDocument(rates, "rates")
  BY <1>3, HertzRatesDocument
<1>5. IsDocument(Quote(class), "quote")
  BY <1>1, <1>3, QuoteSent
<1> DEFINE quote == Quote(class)
<1> HIDE DEF rates, Quote, quote
<1>6. \A kind \in Kinds :
        \/ sent'[kind] = sent[kind]
        \/ kind = "rates" /\ sent'[kind] = rates
        \/ kind = "quote" /\ sent'[kind] = Quote(class)
  BY <1>2, <1>3
<1>7. \A kind \in Kinds :
        sent'[kind] = sent[kind] \/ sent'[kind] = None \/ IsDocument(sent'[kind], kind)
  BY <1>4, <1>5, <1>6
<1> QED BY <1>7, SentMade

\* One document, or none.
LEMMA SentOne ==
  ASSUME Fitting, SentConform, session' = session, NEW one \in Kinds, NEW doc,
         sent' = [sent EXCEPT ![one] = doc], IsDocument(doc, one)
  PROVE  SentConform'
<1>1. DOMAIN sent = Kinds
  BY DEF Fitting, TypeInv
<1>2. \A kind \in Kinds : sent'[kind] = IF kind = one THEN doc ELSE sent[kind]
  BY <1>1
<1>3. \A kind \in Kinds :
        sent'[kind] = sent[kind] \/ sent'[kind] = None \/ IsDocument(sent'[kind], kind)
  BY <1>2
<1> QED BY <1>3, SentMade

\* And a booking.
LEMMA SentByBooking ==
  ASSUME Fitting, SentConform, NEW i \in DOMAIN vehicles, NEW extras \in session.orders,
         Book(i, extras)
  PROVE  SentConform'
<1> DEFINE params == BookingParams(Order(i, extras))
<1>1. PICK auth \in {"ok", "failed"}, spit \in {"ok", "failed", "without3ds"} :
        LET card == Bookingcom!CardInfo(spit, Bookingcom!UatToken(auth), "spt")
        IN  /\ Sendable(params, card)
            /\ sent' = [sent EXCEPT !["book"] = BookingDocument(params, card)]
  BY DEF Book
<1> DEFINE card == Bookingcom!CardInfo(spit, Bookingcom!UatToken(auth), "spt")
<1>2. platform = "bookingcom" => card.vaultToken = "spt"
  <2>1. platform = "bookingcom" => card # None
    BY <1>1 DEF Sendable
  <2>2. card # None => card.vaultToken = "spt"
    BY DEF Bookingcom!CardInfo
  <2> QED BY <2>1, <2>2
<1>3. sent' = [sent EXCEPT !["book"] = BookingDocument(params, card)] /\ session' = session
  BY <1>1 DEF Book
<1> HIDE DEF card
<1>4. IsDocument(BookingDocument(params, card), "book")
  BY <1>2, BookingSent
<1> HIDE DEF params
<1> QED BY <1>3, <1>4, SentOne DEF Kinds

\* And a modification.
LEMMA SentByModification ==
  ASSUME Fitting, SentConform, NEW i \in DOMAIN vehicles, NEW extras \in session.orders,
         Modify(i, extras)
  PROVE  SentConform'
<1>1. PICK doc : sent' = [sent EXCEPT !["modify"] = doc]
  BY DEF Modify
<1>2. session' = session /\ platform = "hertz"
  BY DEF Modify
<1>3. sent'["modify"] = doc
  BY <1>1 DEF Fitting, TypeInv, Kinds
<1>4. doc \in Hertz!Modification(PointOfSale, QuoteId)
  BY <1>3, Modifying
<1>5. IsDocument(doc, "modify")
  BY <1>2, <1>4, ModificationSent
<1> QED BY <1>1, <1>2, <1>5, SentOne DEF Kinds

\* And a status request.
LEMMA SentByStatus ==
  ASSUME Fitting, SentConform, Status
  PROVE  SentConform'
<1> DEFINE params == CancelRequest(booking.reference, customer, booking.supplierData)
           doc == CASE platform = "profitmaxdht" -> ProfitMax!StatusDocument(params, cfg)
                    [] platform = "bookingcom" -> Bookingcom!StatusDocument(params)
                    [] platform = "anyrent" -> AnyRent!StatusDocument(params)
<1>1. /\ platform \in {"profitmaxdht", "bookingcom", "anyrent"} /\ booking # None
      /\ session' = session /\ sent' = [sent EXCEPT !["status"] = doc]
  BY DEF Status, Live
<1>2. /\ session \in Sessions
      /\ params.supplierBookingReference \in STRING /\ params.reservNumber \in STRING
      /\ platform = "profitmaxdht" => params.supplierData.lastName \in STRING
  BY <1>1, CancelParts
<1> HIDE DEF params
<1>3. IsDocument(doc, "status")
  <2>1. CASE platform = "profitmaxdht"
    BY <1>2, <2>1, ProfitMaxOwnerSent
  <2>2. CASE platform = "bookingcom"
    BY <1>2, <2>2, NumberSent
  <2>3. CASE platform = "anyrent"
    BY <1>2, <2>3, NumberSent
  <2> QED BY <1>1, <2>1, <2>2, <2>3
<1> HIDE DEF doc
<1> QED BY <1>1, <1>3, SentOne DEF Kinds

\* And a cancellation.
LEMMA SentByCancel ==
  ASSUME Fitting, SentConform, Cancel
  PROVE  SentConform'
<1> DEFINE params == CancelRequest(booking.reference, customer, booking.supplierData)
           doc == CASE platform = "hertz" -> Hertz!CancelDocument(params, cfg)
                    [] platform = "profitmaxdht" -> ProfitMax!CancelDocument(params, cfg)
                    [] platform = "bookingcom" -> Bookingcom!CancelDocument(params)
                    [] platform = "anyrent" -> AnyRent!CancelDocument(params)
                    [] platform = "rently" -> Rently!CancelDocument(params)
<1>1. /\ booking # None /\ session' = session /\ sent' = [sent EXCEPT !["cancel"] = doc]
  BY DEF Cancel, Live
<1>2. /\ session \in Sessions
      /\ params.supplierBookingReference \in STRING /\ params.reservNumber \in STRING
      /\ params.brokerReference \in STRING
      /\ platform \in {"hertz", "profitmaxdht"} =>
           params.supplierData.lastName \in STRING /\ params.supplierData.residenceCountry \in STRING
  BY <1>1, CancelParts
<1>3. platform \in {"hertz", "profitmaxdht", "bookingcom", "anyrent", "rently"}
  BY <1>2, SessionParts
<1> HIDE DEF params
<1>4. IsDocument(doc, "cancel")
  <2>1. CASE platform = "hertz"
    BY <1>2, <2>1, HertzCancelSent
  <2>2. CASE platform = "profitmaxdht"
    BY <1>2, <2>2, ProfitMaxOwnerSent
  <2>3. CASE platform = "bookingcom"
    BY <1>2, <2>3, NumberSent
  <2>4. CASE platform = "anyrent"
    BY <1>2, <2>4, NumberSent
  <2>5. CASE platform = "rently"
    BY <1>2, <2>5, NumberSent
  <2> QED BY <1>3, <2>1, <2>2, <2>3, <2>4, <2>5
<1> HIDE DEF doc
<1> QED BY <1>1, <1>4, SentOne DEF Kinds

\* Every step keeps the documents of their types.
LEMMA SentStep == Fitting /\ SentConform /\ [Next]_vars => SentConform'
<1> SUFFICES ASSUME Fitting, SentConform, [Next]_vars PROVE SentConform'
  OBVIOUS
<1>1. ASSUME UNCHANGED <<session, sent>> PROVE SentConform'
  BY <1>1, SentMade
<1>2. ASSUME NEW t \in session.trips, Search(t) PROVE SentConform'
  <2>1. session' = session /\ (FromCache(Params(t, None)) \/ FromSupplier(Params(t, None)))
    BY <1>2 DEF Search
  <2> QED BY <1>1, <2>1, SentBySearch DEF FromCache
<1>3. ASSUME NEW t \in session.trips, Requote(t) PROVE SentConform'
  <2> DEFINE params == Params(t, ExistingBooking(booking.reference, customer))
  <2>1. /\ session' = session /\ platform = "hertz" /\ booking # None
        /\ FromCache(params) \/ QuotesFromSupplier(params)
    BY <1>3 DEF Requote, Live
  <2>2. CASE FromCache(params)
    BY <1>1, <2>1, <2>2 DEF FromCache
  <2>3. CASE QuotesFromSupplier(params)
    BY <2>1, <2>3, SentByRequote
  <2> QED BY <2>1, <2>2, <2>3
<1>4. ASSUME NEW i \in DOMAIN vehicles, NEW extras \in session.orders,
             Book(i, extras) \/ Modify(i, extras)
      PROVE  SentConform'
  BY <1>4, SentByBooking, SentByModification
<1>5. CASE Locations \/ Forget \/ UNCHANGED vars
  BY <1>1, <1>5 DEF Locations, Forget, vars
<1>6. CASE Status \/ Cancel
  BY <1>6, SentByStatus, SentByCancel
<1> QED BY <1>2, <1>3, <1>4, <1>5, <1>6 DEF Next

\* With vehicles and documents of their types, everything has its type.
LEMMA TypeAlways == Fitting /\ SentConform => TypeOK
<1> SUFFICES ASSUME Fitting, SentConform PROVE TypeOK
  OBVIOUS
<1>1. /\ trip \in session.trips \cup {None} /\ vehicles \in Seq(VehicleFor(platform))
      /\ quoted \in BOOLEAN /\ DOMAIN sent = Kinds
      /\ \A key \in DOMAIN stored : stored[key] \in Seq(VehicleFor(platform))
  BY DEF Fitting, TypeInv, VType
<1>2. \A kind \in Kinds : sent[kind] # None =>
        /\ sent[kind].kind = IF kind = "extras" THEN "rates" ELSE kind
        /\ Conforms(sent[kind], DocumentType(kind))
  BY DEF SentConform, IsDocument
<1> QED BY <1>1, <1>2 DEF TypeOK

\* Vehicles have the shape of the schema, documents what their types ask for.
THEOREM WellFormed == Spec => []TypeOK
<1>1. Init => SentConform
  BY DEF Init, SentConform
<1> QED BY <1>1, SentStep, TypeAlways, FittingAlways, PTL DEF Spec
=============================================================================
