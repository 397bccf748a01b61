------------------------------- MODULE Journey -------------------------------
(***************************************************************************)
(* What one customer goes through on one platform: searches, a booking,    *)
(* with Hertz a re-quote and a modification, a status request and the      *)
(* cancellation.  It composes the five platforms' modules and says what    *)
(* has to hold between the documents that the hub sends on the way, each   *)
(* of which another handler makes from what the client gives back:         *)
(* SupplierRateReference, the extras chosen, SupplierData.                 *)
(*                                                                         *)
(* In between stands the cache of request grouping, as one customer sees   *)
(* it: a search is answered from it if its key is there.  The concurrency  *)
(* of the handlers is the subject of RequestGrouping, SupplierRates and    *)
(* HertzQuote, the outcome of a booking or cancellation of                 *)
(* SupplierBookings.                                                       *)
(***************************************************************************)
EXTENDS Requests, FiniteSets

CONSTANTS
  Sessions,  \* the platform, the contract's configuration cfg, the customer, how it
             \* pays; its trips; the offers its supplier may answer with, the
             \* equips of a branch; the orders of extras that it may make; the
             \* schedules of the supplier's stations
  Iata       \* Booking.com: the airport code of a station, or None

Hertz == INSTANCE HertzDocuments
ProfitMax == INSTANCE ProfitMax
Bookingcom == INSTANCE Bookingcom
AnyRent == INSTANCE AnyRent
Rently == INSTANCE Rently
Places == INSTANCE Locations

VARIABLES
  session,   \* fixed
  places,    \* the opening hours of the stations, None before they were asked for
  trip,      \* the trip of the last search, None before the first
  answer,    \* the supplier's vehicles, as last seen
  vehicles,  \* what the hub answered to the last search
  quoted,    \* whether those are quotes for a booking
  stored,    \* the grouping cache: from a key to vehicles
  sent,      \* the last document of each kind, or None
  ordered,   \* trip, vehicle and extras last ordered, or None
  booking    \* what the answer to the booking gives the client, or None

vars == <<session, places, trip, answer, vehicles, quoted, stored, sent, ordered, booking>>

Platforms == {"hertz", "profitmaxdht", "bookingcom", "anyrent", "rently"}

Kinds == {"rates", "extras", "quote", "book", "modify", "status", "cancel"}

platform == session.platform
cfg == session.cfg
customer == session.customer

Init ==
  /\ session \in Sessions
  /\ places = None
  /\ trip = None /\ answer = <<>> /\ vehicles = <<>> /\ quoted = FALSE
  /\ stored = <<>>
  /\ sent = [kind \in Kinds |-> None]
  /\ ordered = None /\ booking = None

\* What a supplier, external, identifies an offer or a quote by: it stands for the
\* trip that the offer was made for, the echo token of a quote for the booking as
\* well.
OfferId == [pickUp : STRING, dropOff : STRING, from : Int, until : Int]
QuoteId ==
  [booking : STRING, pickUp : STRING, dropOff : STRING, from : Int, until : Int]
Route == [pickUp : STRING, dropOff : STRING]

\* Types of a supplier's vehicle, given the types of what identifies it.
Offered(platform_, offerIds, quoteIds, routes) ==
  CASE platform_ = "hertz" -> Hertz!VehAvail(offerIds, quoteIds)
    [] platform_ = "profitmaxdht" -> ProfitMax!VehAvail(offerIds)
    [] platform_ = "bookingcom" -> Bookingcom!SearchRSMatch(offerIds, routes)
    [] platform_ = "anyrent" -> AnyRent!FleetGroup
    [] platform_ = "rently" -> Rently!RentlyVehicle

\* Types of SupplierRateReference.
SupplierRateReferences(platform_) ==
  CASE platform_ = "hertz" -> Hertz!RateReference(OfferId \cup QuoteId, OrNone(QuoteId))
    [] platform_ = "profitmaxdht" -> ProfitMax!RateReference(OfferId)
    [] platform_ = "bookingcom" -> Bookingcom!RateReference(OfferId)
    [] platform_ = "anyrent" -> AnyRent!RateReference
    [] platform_ = "rently" -> Rently!RateReference

\* Type Vehicle of a platform, and what a client orders of it.
VehicleFor(platform_) == VehicleType(SupplierRateReferences(platform_))

OrderFor(platform_) ==
  [trip : Rental, vehicle : VehicleFor(platform_), extras : Seq(BookingExtraOrFee)]

\* Types of the contract's configuration; AnyRent's is not used.
Configurations(platform_, configuration) ==
  CASE platform_ = "hertz" ->
         LET mapping == configuration.residenceCountryMapping
         IN  Hertz!HertzConfiguration(IF mapping = None THEN {} ELSE DOMAIN mapping,
                                      DOMAIN configuration.feePayableLocally)
    [] platform_ = "profitmaxdht" -> ProfitMax!ProfitMaxDHTConfiguration
    [] platform_ = "bookingcom" -> Bookingcom!BookingComConfiguration
    [] platform_ = "anyrent" -> {<<>>}
    [] platform_ = "rently" -> Rently!RentlyConfiguration

\* Types of the schedules of stations.
Schedules(platform_) ==
  CASE platform_ = "anyrent" -> Places!AnyRentSchedule
    [] platform_ = "rently" -> Places!RentlySchedule
    [] OTHER -> {}

\* What a contract is configured with, a client asks for and a supplier may answer
\* is what the types of the code can hold.
ASSUME SessionsConform ==
  \A s \in Sessions :
    /\ s.platform \in Platforms
    /\ s.cfg \in Configurations(s.platform, s.cfg)
    /\ s.customer \in Customer
    /\ s.paymentType \in {"full", "partial"}
    /\ s.trips \subseteq Rental
    /\ s.offers \subseteq Seq(Offered(s.platform, {None}, {None}, {None}))
    /\ s.equips \in Seq(Hertz!PricedEquip)
    /\ s.orders \subseteq Seq(BookingExtraOrFee)
    /\ s.stations \in Seq(Schedules(s.platform))

\* A supplier that gives the tax of the rental fee in percent and as an amount means
\* the same by both.
ASSUME TaxesAgree ==
  \A s \in Sessions : s.platform = "hertz" =>
    \A offer \in s.offers : \A i \in DOMAIN offer : \A j \in DOMAIN offer[i].charges :
      \A k \in DOMAIN offer[i].charges[j].taxes :
        LET tax == offer[i].charges[j].taxes[k]
        IN  offer[i].charges[j].purpose = Hertz!RentalFee /\ tax.description = "Tax" =>
              Hertz!Taxed(offer[i].total.amount, tax.percentage)
                = offer[i].total.amount + tax.total

\* A name without its diacritics is a name.
ASSUME LatinConforms == \A name \in DOMAIN Latin : Latin[name] \in STRING

\* Types POS, and Credentials of the envelope.
PointOfSale == [country : STRING, requestors : SUBSET (STRING \X OrNone(STRING))]
Credentials == [username : STRING, destination : STRING]

\* A nil pointer points to no value.
ASSUME NoneIsNoValue ==
  /\ None \notin STRING /\ None \notin Int
  /\ None \notin OfferId /\ None \notin QuoteId
  /\ None \notin PointOfSale /\ None \notin Credentials
  /\ None \notin Hertz!Modification(PointOfSale, QuoteId)
  /\ \A p \in Platforms : None \notin VehicleFor(p) /\ None \notin OrderFor(p)

\* What the code itself writes into a text is text.
ASSUME TextIsText ==
  /\ {Hertz!Tax, "CollisionDamage", "TheftExcess", "DamageExcess", "RolloverExcess", "Deposit",
      "conf", "", "4", "5", "8", "14", "16", "24", "29", "ZE", "US", "ALL", "Test",
      "Production", "spt"} \subseteq STRING
  /\ Kinds \subseteq STRING

\* Type of a document.
DocumentType(kind) ==
  CASE platform = "hertz" -> Hertz!DocumentType(kind)
    [] platform = "profitmaxdht" -> ProfitMax!DocumentType(kind)
    [] platform = "bookingcom" -> Bookingcom!DocumentType(kind)
    [] platform = "anyrent" -> AnyRent!DocumentType(kind)
    [] platform = "rently" -> Rently!DocumentType(kind)

-----------------------------------------------------------------------------
\* TrafficLightGroupingCacheKey; two platforms do without grouping.
Key(params) ==
  CASE platform = "hertz" -> Hertz!CacheKey(params, cfg)
    [] platform = "profitmaxdht" -> ProfitMax!CacheKey(params, cfg)
    [] platform = "bookingcom" -> Bookingcom!CacheKey(params, cfg)
    [] OTHER -> None

RatesDocument(params) ==
  CASE platform = "hertz" -> Hertz!RatesDocument(params, cfg)
    [] platform = "profitmaxdht" -> ProfitMax!RatesDocument(params, cfg)
    [] platform = "bookingcom" -> Bookingcom!RatesDocument(params, Iata)
    [] platform = "anyrent" -> AnyRent!RatesDocument(params)
    [] platform = "rently" -> Rently!RatesDocument(params, cfg)

Mapped(offer, params) ==
  CASE platform = "hertz" -> Hertz!MapVehicles(offer, session.equips, params, cfg).vehicles
    [] platform = "profitmaxdht" -> ProfitMax!MapVehicles(offer, params, cfg).vehicles
    [] platform = "bookingcom" -> Bookingcom!MapVehicles(offer, cfg).vehicles
    [] platform = "anyrent" -> AnyRent!MapVehicles(offer, params).vehicles
    [] platform = "rently" -> Rently!MapVehicles(offer).vehicles

\* The suppliers, external, identify what they answer.
IssuedFor(params) == [pickUp |-> params.pickUp, dropOff |-> params.dropOff,
                      from |-> params.from, until |-> params.until]

Issued(offer, params) ==
  [i \in DOMAIN offer |->
     CASE platform \in {"hertz", "profitmaxdht"} ->
            [offer[i] EXCEPT !.reference = IssuedFor(params)]
       [] platform = "bookingcom" ->
            [offer[i] EXCEPT !.vehicleId = IssuedFor(params),
                             !.route = [pickUp |-> params.pickUp, dropOff |-> params.dropOff]]
       [] OTHER -> offer[i]]

Echoed(offer, params) ==
  [i \in DOMAIN offer |->
     [offer[i] EXCEPT !.echoToken =
        [booking |-> params.booking.supplierBookingReference,
         pickUp |-> params.pickUp, dropOff |-> params.dropOff,
         from |-> params.from, until |-> params.until]]]

Params(t, existing) ==
  RatesRequest(t, customer.country, session.paymentType, existing)

-----------------------------------------------------------------------------
\* POST /locations, which two platforms offer.  One time that cannot be read is a
\* panic, so no location is answered.
Locations ==
  /\ platform \in {"anyrent", "rently"} /\ places = None /\ session.stations # <<>>
  /\ \A i \in DOMAIN session.stations :
       IF platform = "rently" THEN Places!RentlyReadable(session.stations[i])
       ELSE Places!AnyRentReadable(session.stations[i])
  /\ places' = [i \in DOMAIN session.stations |->
       IF platform = "rently" THEN Places!GetOpeningTime(session.stations[i])
       ELSE Places!OpeningHours(session.stations[i])]
  /\ UNCHANGED <<session, trip, answer, vehicles, quoted, stored, sent, ordered, booking>>

\* POST /rates, answered from the grouping cache.
FromCache(params) ==
  /\ Key(params) \in DOMAIN stored
  /\ vehicles' = stored[Key(params)]
  /\ quoted' = FALSE
  /\ UNCHANGED <<answer, stored, sent>>

Store(params, found) ==
  stored' = IF Key(params) = None THEN stored
            ELSE [key \in DOMAIN stored \cup {Key(params)} |->
                    IF key = Key(params) THEN found ELSE stored[key]]

\* GetRates asks the supplier.
FromSupplier(params) ==
  /\ Key(params) \notin DOMAIN stored
  /\ \E offer \in session.offers :
       /\ answer' = Issued(offer, params)
       /\ vehicles' = Mapped(answer', params)
  /\ quoted' = FALSE
  /\ Store(params, vehicles')
  /\ sent' = [sent EXCEPT
       !["rates"] = RatesDocument(params),
       !["extras"] = IF platform = "hertz" THEN Hertz!ExtrasDocument(params, cfg) ELSE None]

Search(t) ==
  /\ ordered = None
  /\ trip' = t
  /\ \E params \in {Params(t, None)} : FromCache(params) \/ FromSupplier(params)
  /\ UNCHANGED <<session, places, ordered, booking>>

\* The entries of the grouping cache run out.  Before the booking that leaves
\* nothing but a search that is yet to be made.
Forget ==
  /\ stored # <<>> /\ booking # None
  /\ stored' = <<>>
  /\ UNCHANGED <<session, places, trip, answer, vehicles, quoted, sent, ordered, booking>>

\* GetRates of hertz.go with an existing booking: rates, and a quote for every
\* vehicle among them.  The cache does not tell it from a search.
QuotesFromSupplier(params) ==
  /\ Key(params) \notin DOMAIN stored
  /\ \E offer \in session.offers :
     \E priced \in {Only(offer, {i \in DOMAIN offer :
                    Hertz!MapVehicles(<<offer[i]>>, session.equips, params, cfg).vehicles # <<>>})} :
       LET parsed == [i \in DOMAIN priced |->
                        Hertz!ParseQuote(answer'[i], session.equips, params, cfg)]
       IN  /\ answer' = Echoed(Issued(priced, params), params)
           /\ vehicles' = Only(parsed, {i \in DOMAIN parsed : parsed[i] # None})
           /\ quoted' = (priced # <<>>)
           /\ sent' = [sent EXCEPT
                !["rates"] = RatesDocument(params),
                !["quote"] = IF priced = <<>> THEN @
                             ELSE Hertz!QuoteDocument(params, cfg, Last(priced).class)]
  /\ Store(params, vehicles')

\* There is a booking that has not been cancelled.
Live == booking # None /\ sent["cancel"] = None

\* POST /rates for a booking to be modified.  A journey has one modification.
Requote(t) ==
  /\ platform = "hertz"
  /\ Live /\ sent["modify"] = None
  /\ trip' = t
  /\ \E params \in {Params(t, ExistingBooking(booking.reference, customer))} :
       FromCache(params) \/ QuotesFromSupplier(params)
  /\ UNCHANGED <<session, places, ordered, booking>>

-----------------------------------------------------------------------------
\* The request to book a vehicle of the last answer.
Order(i, extras) == [trip |-> trip, vehicle |-> vehicles[i], extras |-> extras]

BookingParams(order) == BookingRequest(order.trip, customer, order.vehicle, order.extras)

\* BookingDocument of a platform; of Booking.com once its two services have
\* answered.
BookingDocument(params, card) ==
  CASE platform = "hertz" -> Hertz!BookingDocument(params, cfg)
    [] platform = "profitmaxdht" -> ProfitMax!BookingDocument(params, cfg)
    [] platform = "bookingcom" -> Bookingcom!BookingDocument(params, card)
    [] platform = "anyrent" -> AnyRent!BookingDocument(params)
    [] platform = "rently" -> Rently!BookingDocument(params, cfg)

\* No document leaves when a service fails or a nil pointer is followed.
Sendable(params, card) ==
  CASE platform = "hertz" -> ~Hertz!NilInBooking(params, cfg)
    [] platform = "profitmaxdht" -> ~ProfitMax!NilInBooking(params)
    [] platform = "bookingcom" -> card # None /\ ~Bookingcom!NilInBooking(card)
    [] OTHER -> TRUE

SupplierData ==
  CASE platform = "hertz" -> Hertz!SupplierData(customer)
    [] platform = "profitmaxdht" -> ProfitMax!SupplierData(customer)
    [] OTHER -> None

\* POST /booking.  The supplier, external, gives the booking a number or does
\* not, which ends the journey.
Book(i, extras) ==
  LET order == Order(i, extras)
      params == BookingParams(order)
  IN  /\ ordered = None
      /\ \E auth \in {"ok", "failed"}, spit \in {"ok", "failed", "without3ds"} :
           LET card == Bookingcom!CardInfo(spit, Bookingcom!UatToken(auth), "spt")
           IN  /\ Sendable(params, card)
               /\ sent' = [sent EXCEPT !["book"] = BookingDocument(params, card)]
      /\ ordered' = order
      /\ booking' \in {None, [reference |-> "conf", supplierData |-> SupplierData]}
      /\ UNCHANGED <<session, places, trip, answer, vehicles, quoted, stored>>

\* POST /modify: the vehicle of an answer to a re-quote.
Modify(i, extras) ==
  LET order == Order(i, extras)
      params == ModifyRequest(trip, customer, order.vehicle, extras, booking.reference)
  IN  /\ platform = "hertz" /\ Live /\ sent["modify"] = None
      /\ ~Hertz!NilInModification(params, cfg)
      /\ sent' = [sent EXCEPT !["modify"] = Hertz!ModifyDocument(params, cfg)]
      /\ ordered' = order
      /\ UNCHANGED <<session, places, trip, answer, vehicles, quoted, stored, booking>>

\* POST /booking-status, which two platforms do not offer.
Status ==
  LET params == CancelRequest(booking.reference, customer, booking.supplierData)
  IN  /\ platform \in {"profitmaxdht", "bookingcom", "anyrent"} /\ Live
      /\ sent' = [sent EXCEPT !["status"] =
           CASE platform = "profitmaxdht" -> ProfitMax!StatusDocument(params, cfg)
             [] platform = "bookingcom" -> Bookingcom!StatusDocument(params)
             [] platform = "anyrent" -> AnyRent!StatusDocument(params)]
      /\ UNCHANGED <<session, places, trip, answer, vehicles, quoted, stored, ordered, booking>>

\* POST /cancel
Cancel ==
  LET params == CancelRequest(booking.reference, customer, booking.supplierData)
  IN  /\ Live
      /\ platform = "hertz" => ~Hertz!NilInCancellation(params)
      /\ platform = "profitmaxdht" => ~ProfitMax!NilInSupplierData(params)
      /\ sent' = [sent EXCEPT !["cancel"] =
           CASE platform = "hertz" -> Hertz!CancelDocument(params, cfg)
             [] platform = "profitmaxdht" -> ProfitMax!CancelDocument(params, cfg)
             [] platform = "bookingcom" -> Bookingcom!CancelDocument(params)
             [] platform = "anyrent" -> AnyRent!CancelDocument(params)
             [] platform = "rently" -> Rently!CancelDocument(params)]
      /\ UNCHANGED <<session, places, trip, answer, vehicles, quoted, stored, ordered, booking>>

Next ==
  \/ \E t \in session.trips : Search(t) \/ Requote(t)
  \/ \E i \in DOMAIN vehicles : \E extras \in session.orders :
       Book(i, extras) \/ Modify(i, extras)
  \/ Locations \/ Forget \/ Status \/ Cancel

Spec == Init /\ [][Next]_vars

-----------------------------------------------------------------------------
(***************************************************************************)
(* Properties of what the hub answers.                                     *)
(***************************************************************************)
\* The variables have their types; every vehicle that is shown has the shape of
\* the schema, its enumerations included, whichever platform it is from, and every
\* document that is sent has the elements that its type cannot do without.
TypeOK ==
  /\ trip \in session.trips \cup {None}
  /\ vehicles \in Seq(VehicleFor(platform))
  /\ quoted \in BOOLEAN
  /\ \A key \in DOMAIN stored : stored[key] \in Seq(VehicleFor(platform))
  /\ DOMAIN sent = Kinds
  /\ \A kind \in Kinds : sent[kind] # None =>
       /\ sent[kind].kind = IF kind = "extras" THEN "rates" ELSE kind
       /\ Conforms(sent[kind], DocumentType(kind))

\* On no day of the week is a station said to be closed when the supplier has it
\* open, normally or out of hours.  Rently's is said to be open at no other time
\* either; AnyRent's are, on weekends at the hours of the week.
OpenWhenSupplierIs ==
  places # None => \A i \in DOMAIN places, day \in 1 .. 7 :
    LET shown == Places!HoursOn(places[i], day)
    IN  IF platform = "rently" THEN shown = Places!RentlyHours(session.stations[i], day)
        ELSE Places!AnyRentHours(session.stations[i], day) \subseteq shown

\* The supplier's vehicles under the session's configuration, some of it changed.
Priced(configuration) ==
  [i \in DOMAIN answer |->
     Hertz!ParseVehicle(answer[i], session.equips, Params(trip, None), configuration)]

SameTotals(some, others) ==
  \A i \in DOMAIN answer :
    /\ some[i] = None <=> others[i] = None
    /\ some[i] # None => Total(some[i]) = Total(others[i])

\* fpPayFeesLocally (TaxCharge, Fees) decides where fees and tax are paid, and
\* fpPaynowVehiclePriceWithTax (TaxCharge, parseVehicle) whether the tax is in the
\* vehicle's price or beside it: neither changes what the customer pays in all.
WhereNotWhat ==
  platform = "hertz" =>
    /\ SameTotals(Priced([cfg EXCEPT !.fpPayFeesLocally = TRUE]),
                  Priced([cfg EXCEPT !.fpPayFeesLocally = FALSE]))
    /\ SameTotals(Priced([cfg EXCEPT !.fpPaynowVehiclePriceWithTax = TRUE]),
                  Priced([cfg EXCEPT !.fpPaynowVehiclePriceWithTax = FALSE]))

\* includeCoveragesInRate (VehicleCoverages) moves what mandatory coverages cost
\* into the vehicle's price.  What it adds to the total is the price of those
\* the supplier had included already, and nothing else.
CoveragesOnce ==
  platform = "hertz" =>
    LET inRate == Priced([cfg EXCEPT !.includeCoveragesInRate = TRUE])
        listed == Priced([cfg EXCEPT !.includeCoveragesInRate = FALSE])
    IN  \A i \in DOMAIN answer : listed[i] # None =>
          Total(inRate[i]) = Total(listed[i]) + AmountsOf(listed[i].extrasAndFees,
            LAMBDA e : e.type = "VCT" /\ e.mandatory /\ e.includedInRate)

\* parseQuote repeats parseVehicle line by line: a re-quote of what has not
\* changed shows the customer what the search showed, but for the reference.
QuoteAsRates ==
  quoted =>
    LET Shown(v) == [v EXCEPT !.supplierRateReference = None]
    IN  \E rates \in {Hertz!MapVehicles(answer, session.equips, Params(trip, None), cfg).vehicles} :
          [i \in DOMAIN vehicles |-> Shown(vehicles[i])] =
          [i \in DOMAIN rates |-> Shown(rates[i])]

-----------------------------------------------------------------------------
(***************************************************************************)
(* Properties of what the hub sends.                                       *)
(***************************************************************************)
SameRental(reference, from, until) ==
  /\ Day(reference.from) = Day(from)
  /\ reference.until - reference.from = until - from

\* The offer a booking names was made by the supplier for the stations, the day
\* and the length of the rental booked, though the answer it came in may be one
\* that the grouping cache kept for another search; and at Booking.com the price
\* accepted is the price shown.
BookedAsOffered ==
  LET doc == sent["book"]
  IN  doc # None =>
        CASE platform \in {"hertz", "profitmaxdht"} ->
               doc.reference # None =>
                 /\ <<doc.reference.pickUp, doc.reference.dropOff>> = <<doc.pickUp, doc.return>>
                 /\ SameRental(doc.reference, doc.from, doc.until)
          [] platform = "bookingcom" ->
               /\ <<doc.vehicleId.pickUp, doc.vehicleId.dropOff>> = <<doc.pickUp, doc.dropOff>>
               /\ SameRental(doc.vehicleId, doc.from, doc.until)
               /\ doc.acceptedPrice = ordered.vehicle.price
          [] platform = "anyrent" -> IssuedFor(doc) = IssuedFor(ordered.trip)
          [] OTHER -> doc.model = ordered.vehicle.supplierRateReference.model

\* A modification that refers to a quote refers to one of this booking and for
\* the rental as it shall be, except for the station to return to, which neither
\* the quote nor the modification says.
ModifiedAsQuoted ==
  LET doc == sent["modify"]
  IN  doc # None /\ doc.reference # None =>
        /\ "booking" \in DOMAIN doc.reference /\ doc.reference.booking = doc.uniqueID
        /\ doc.reference.pickUp = doc.pickUp
        /\ SameRental(doc.reference, doc.from, doc.until)

\* How often a code is in a document, by the way the platform writes it.
CountedIn(list, code) ==
  Sum([i \in DOMAIN list |-> IF list[i].code = code THEN list[i].quantity ELSE 0])

Occurrences(codes, code) == Sum([i \in DOMAIN codes |-> IF codes[i] = code THEN 1 ELSE 0])

DocumentCount(doc, code) ==
  CASE platform \in {"hertz", "profitmaxdht"} -> CountedIn(doc.specialEquipPrefs, code)
    [] platform = "bookingcom" -> CountedIn(doc.extras, code)
    [] platform = "anyrent" -> Occurrences(doc.extras \o doc.taxes, code)
    [] platform = "rently" ->
         IF doc.additionals = None THEN 0 ELSE CountedIn(doc.additionals, code)

\* How often the code of an extra was ordered, once where the order does not say.
OrderedCount(code) ==
  Sum([i \in DOMAIN ordered.extras |->
         IF ordered.extras[i].code = code THEN Unwrap(ordered.extras[i].quantity, 1) ELSE 0])

\* Every extra ordered is in the document, as often as it was ordered.
OrderIn(doc) ==
  doc # None => \A i \in DOMAIN ordered.extras :
    \E code \in {ordered.extras[i].code} : DocumentCount(doc, code) = OrderedCount(code)

\* The extras of an order reach the supplier: the last document, the booking's
\* or the modification's, has every one of them with its quantity.
ExtrasOrdered ==
  platform # "rently" =>
    OrderIn(IF sent["modify"] # None THEN sent["modify"] ELSE sent["book"])

\* The code of an extra is the supplier's (BookingExtraOrFee in gen_schema.go),
\* so what Rently is asked to book has the extras in it, as Additionals of
\* json/vehbookingrq.go provides.  It has not.
RentlyExtrasOrdered == platform = "rently" => OrderIn(sent["book"])
=============================================================================
