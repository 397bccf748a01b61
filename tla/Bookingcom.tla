----------------------------- MODULE Bookingcom -----------------------------
(***************************************************************************)
(* The Booking.com platform: what it makes of the matches of a search and  *)
(* the documents it sends, with the two services it asks for the customer's*)
(* card before a booking.                                                  *)
(***************************************************************************)
EXTENDS Requests, FiniteSets

\* Type SearchRSMatch, with its fees and extras.  The vehicle's identification and
\* the route are the supplier's to fill in.
SearchRSMatch(vehicleIds, routes) ==
  [class : STRING, basePrice : Int, availabilityCheck : BOOLEAN, supplierName : STRING,
   unlimitedMileage : BOOLEAN, automatic : BOOLEAN, petrol : STRING,
   fees : Seq([name : STRING, amount : Int, alwaysPayable : BOOLEAN]),
   extras : Seq([product : STRING, amount : Int, priceAvailable : BOOLEAN]),
   vehicleId : vehicleIds, route : routes]

\* Type of SupplierRateReference, by rate_reference.go.
RateReference(vehicleIds) ==
  [vehicleId : vehicleIds, pickUpLocationId : STRING, dropOffLocationId : STRING,
   basePrice : Int]

\* DepositExcessFees.Coverages: three coverages that cost nothing, the excess
\* being what the supplier names.
Coverages ==
  [i \in 1..3 |-> Item("VCT", <<"TheftExcess", "DamageExcess", "Deposit">>[i],
                       0, TRUE, FALSE, TRUE)]

\* KnownFees.Fees
Fees(fees) ==
  [i \in DOMAIN fees |->
     Item("VCP", fees[i].name, fees[i].amount, FALSE, FALSE, fees[i].alwaysPayable)]

\* ExtraInfoList.Extras: those with a price.
Extras(extras) ==
  LET priced == Only(extras, {i \in DOMAIN extras : extras[i].priceAvailable})
  IN  [i \in DOMAIN priced |->
         Item("EQP", priced[i].product, priced[i].amount, FALSE, FALSE, FALSE)]

\* Transmission
Transmission(vehicle) == IF vehicle.automatic THEN "Automatic" ELSE "Manual"

\* Fuel
Fuel(vehicle) == OneOf(vehicle.petrol, {"Diesel", "Petrol"})

\* parseVehicle.  The reference names the vehicle, the locations as the supplier
\* knows them, and the price.
ParseVehicle(match) ==
  VehicleOf(match.class, match.basePrice,
    Coverages \o Fees(match.fees) \o Extras(match.extras),
    [vehicleId |-> match.vehicleId, pickUpLocationId |-> match.route.pickUp,
     dropOffLocationId |-> match.route.dropOff, basePrice |-> match.basePrice],
    MileageWithoutUnits(match.unlimitedMileage),
    Features(Transmission(match), Fuel(match), None))

\* The loop of Execute over the matches.
MapVehicles(answer, cfg) ==
  LET wanted == Only(answer, {i \in DOMAIN answer :
                   answer[i].availabilityCheck /\ answer[i].supplierName = cfg.supplierName})
  IN  [vehicles |-> [i \in DOMAIN wanted |-> ParseVehicle(wanted[i])], errors |-> 0]

-----------------------------------------------------------------------------
\* Type BookingComConfiguration, as far as it is used.
BookingComConfiguration == [supplierName : STRING]

\* The types of the documents.
SearchRQ ==
  [required |-> {"kind", "country", "pickUp", "dropOff", "from", "until"}, optional |-> {}]

MakeBookingRQ ==
  [required |-> {"kind", "pickUp", "dropOff", "from", "until", "vehicleId", "acceptedPrice",
                 "lastName", "country", "card"},
   optional |-> {"extras", "flightNo"}]

BookingIdRQ == [required |-> {"kind", "id"}, optional |-> {}]

DocumentType(kind) ==
  CASE kind = "rates" -> SearchRQ
    [] kind = "book" -> MakeBookingRQ
    [] kind \in {"status", "cancel"} -> BookingIdRQ

\* requestBody of rates.go: a station goes by its airport code if it has one.
RatesDocument(params, iata) ==
  [kind |-> "rates", country |-> params.country,
   pickUp |-> IF iata[params.pickUp] # None THEN iata[params.pickUp] ELSE params.pickUp,
   dropOff |-> IF iata[params.dropOff] # None THEN iata[params.dropOff] ELSE params.dropOff,
   from |-> params.from, until |-> params.until]

\* The pieces of TrafficLightGroupingCacheKey.
CacheKey(params, cfg) ==
  <<params.pickUp, params.dropOff, Day(params.from), params.until - params.from,
    cfg.supplierName>>

\* requestUatToken: AuthUserViaPassword, external, answers with a token or fails.
UatToken(answer) == IF answer = "ok" THEN "uat" ELSE None

\* requestCardInfo: ConvertToken, external, turns the customer's token into card
\* data, whose 3-D Secure values may be missing.
CardInfo(answer, uatToken, sptToken) ==
  IF uatToken = None \/ answer = "failed" THEN None
  ELSE [vaultToken |-> sptToken, threeDs |-> IF answer = "without3ds" THEN None ELSE "3ds"]

NilInBooking(card) == card.threeDs = None

\* requestBody of booking.go: vehicle, places and price from the reference, the
\* time from the request.
BookingDocument(params, card) ==
  [kind |-> "book",
   pickUp |-> params.supplierRateReference.pickUpLocationId,
   dropOff |-> params.supplierRateReference.dropOffLocationId,
   from |-> params.from, until |-> params.until,
   vehicleId |-> params.supplierRateReference.vehicleId,
   acceptedPrice |-> params.supplierRateReference.basePrice,
   extras |-> [i \in DOMAIN params.extras |->
                 [code |-> params.extras[i].code,
                  quantity |-> Unwrap(params.extras[i].quantity, 1)]],
   lastName |-> LatinCharacters(params.customer.lastName),
   country |-> params.customer.country,
   flightNo |-> params.customer.flightNo, card |-> card.vaultToken]

\* requestBody of bookingstatus.go: the booking goes by the number the gateway
\* gave it.  The status request that Execute of booking.go makes itself puts the
\* supplier's number there.
StatusDocument(params) == [kind |-> "status", id |-> params.reservNumber]

\* requestBody of cancel.go
CancelDocument(params) == [kind |-> "cancel", id |-> params.supplierBookingReference]
=============================================================================
