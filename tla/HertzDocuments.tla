--------------------------- MODULE HertzDocuments ---------------------------
(***************************************************************************)
(* The documents the Hertz platform sends, made by ratesRequestBody        *)
(* (rates.go) and requestBody (booking.go, quote.go, modify.go, cancel.go).*)
(* A document is a record of its elements, an element left out is None.    *)
(***************************************************************************)
EXTENDS HertzOffers, Requests, FiniteSets

\* Type HertzConfiguration, as far as it is used, with a map for some countries and
\* one for some fees.  A list is a set, as far as one is, and a flag that is not
\* there is FALSE.
HertzConfiguration(countries, fees) ==
  [vn : OrNone(STRING), vendorCode : STRING, taco : OrNone(STRING),
   bookingAgent : OrNone(STRING), residenceCountryMapping : OrNone([countries -> STRING]),
   maxResponses : OrNone(Nat), rateQualifier : OrNone(STRING), tour : OrNone(STRING),
   clubNumber : OrNone(STRING), frequentTravellerNumber : OrNone(STRING),
   frequentTravellerProgramId : OrNone(STRING), sendVoucher : BOOLEAN,
   sendAgencyBillingNumberWithBooking : BOOLEAN, voucherContractBillingType : OrNone(STRING),
   useDirectSell : BOOLEAN, fpPaynowVehiclePriceWithTax : BOOLEAN,
   fpPayFeesLocally : BOOLEAN, includeCoveragesInRate : BOOLEAN,
   payNowCoverages : SUBSET STRING, addTaxToCoverages : SUBSET STRING,
   taxExclCoverageCountries : SUBSET STRING, feePayableLocally : [fees -> SUBSET STRING]]

\* The types of the documents: what they cannot do without, and what they can.
VehAvailRateRQ ==
  [required |-> {"kind", "maxResponses", "pos", "pickUp", "from", "until"},
   optional |-> {"return", "rateQualifier", "tour", "custLoyalty", "specialEquipPrefs"}]

VehResRQ ==
  [required |-> {"kind", "pos", "pickUp", "from", "until", "surname"},
   optional |-> {"return", "arrivalDetails", "rentalPaymentPref", "vehPref", "reference",
                 "specialEquipPrefs", "tour", "custLoyalty", "phone"}]

\* Of a quote as well.
VehModifyRQ ==
  [required |-> {"kind", "pos", "uniqueID", "pickUp", "from", "until", "surname"},
   optional |-> {"arrivalDetails", "rentalPaymentPref", "vehPref", "reference",
                 "specialEquipPrefs", "custLoyalty", "phone"}]

\* A modification element by element, given the types of who asks and of a quote.
Modification(pointsOfSale, tokens) ==
  [kind : {"modify"}, pos : pointsOfSale, uniqueID : STRING, pickUp : STRING,
   from : Int, until : Int, arrivalDetails : OrNone([code : STRING, number : STRING]),
   rentalPaymentPref :
     OrNone([voucher : OrNone([billingNumber : STRING, seriesCode : STRING]),
             paymentAmount : OrNone(Int)]),
   vehPref : OrNone(STRING), reference : OrNone(tokens),
   specialEquipPrefs : Seq([code : STRING, quantity : Nat]),
   custLoyalty : OrNone([member : STRING, program : STRING]),
   phone : OrNone(STRING), surname : STRING]

VehCancelRQ ==
  [required |-> {"kind", "pos"}, optional |-> {"uniqueID", "surname"}]

DocumentType(kind) ==
  CASE kind \in {"rates", "extras"} -> VehAvailRateRQ
    [] kind = "book" -> VehResRQ
    [] kind \in {"quote", "modify"} -> VehModifyRQ
    [] kind = "cancel" -> VehCancelRQ

-----------------------------------------------------------------------------
IfSet(type, value) == IF value = None THEN {} ELSE {<<type, value>>}

\* NewPOS: who asks, by type of identification.
NewPOS(country, cfg, brokerReference) ==
  [country |-> country,
   requestors |-> {<<"4", cfg.vn>>, <<"8", cfg.vendorCode>>}
                    \cup IfSet("5", cfg.taco) \cup IfSet("29", cfg.bookingAgent)
                    \cup IfSet("16", IF brokerReference = "" THEN None ELSE brokerReference)]

MappedResidenceCountry(cfg, country) ==
  LET mapping == cfg.residenceCountryMapping
  IN  IF mapping = None THEN country
      ELSE IF "ALL" \in DOMAIN mapping THEN mapping["ALL"]
      ELSE IF country \in DOMAIN mapping THEN mapping[country]
      ELSE country

\* ratesRequestBody
RatesDocument(params, cfg) ==
  [kind |-> "rates",
   maxResponses |-> Unwrap(cfg.maxResponses, 10),
   pos |-> NewPOS(MappedResidenceCountry(cfg, params.country), cfg, ""),
   pickUp |-> params.pickUp, return |-> params.dropOff,
   from |-> params.from, until |-> params.until,
   rateQualifier |-> cfg.rateQualifier, tour |-> cfg.tour,
   custLoyalty |-> cfg.clubNumber,
   specialEquipPrefs |-> <<>>]

\* ratesRequestBodyWithExtras: one of every extra of the branch.
ExtrasDocument(params, cfg) ==
  [RatesDocument(params, cfg) EXCEPT
     !.specialEquipPrefs =
        [i \in DOMAIN params.branchExtras |->
           [code |-> params.branchExtras[i], quantity |-> 1]]]

\* A key for one-way rentals and others alike.
CacheKeyWithoutReturn(params, cfg) ==
  <<params.pickUp, Day(params.from), params.until - params.from>>

\* The pieces of TrafficLightGroupingCacheKey that depend on the request: the
\* stations, the date without its time, the length of the rental.
CacheKey(params, cfg) ==
  <<params.pickUp, params.dropOff, Day(params.from), params.until - params.from,
    cfg.bookingAgent, cfg.clubNumber, cfg.rateQualifier, cfg.taco, cfg.tour,
    cfg.vn, cfg.vendorCode>>

\* extrasCacheKey
ExtrasCacheKey(params, cfg) ==
  <<cfg.vendorCode, Unwrap(cfg.taco, ""), params.pickUp, params.rentalDays>>

-----------------------------------------------------------------------------
\* Parts that requestBody of booking.go and of modify.go both write.
ArrivalDetails(customer) ==
  IF customer.airlineCode = "walk-in" THEN [code |-> "24", number |-> ""]
  ELSE IF customer.flightNo # None /\ customer.airlineCode # None
  THEN [code |-> "14", number |-> customer.flightNo]
  ELSE None

Billed(customer, cfg) ==
  customer.supplierSpecificInformation # None /\ cfg.sendAgencyBillingNumberWithBooking

RentalPaymentPref(params, cfg) ==
  LET customer == params.customer
      voucher == IF Billed(customer, cfg)
                 THEN [billingNumber |-> customer.supplierSpecificInformation.hertzBillingNumber,
                       seriesCode |-> customer.brokerReference]
                 ELSE IF cfg.sendVoucher
                 THEN [billingNumber |-> "", seriesCode |-> customer.brokerReference]
                 ELSE None
      amount == IF cfg.voucherContractBillingType = "Partial"
                THEN params.supplierRateReference.estimatedTotalAmount ELSE None
  IN  IF voucher = None /\ amount = None THEN None
      ELSE [voucher |-> voucher, paymentAmount |-> amount]

VehPref(params, cfg) == IF cfg.useDirectSell THEN params.vehicleClass ELSE None

\* An empty id, here None, is left out as well.
Reference(id, cfg) == IF cfg.useDirectSell THEN None ELSE id

SpecialEquipPrefs(params) ==
  [i \in DOMAIN params.extras |->
     [code |-> params.extras[i].code, quantity |-> params.extras[i].quantity]]

CustLoyalty(cfg) ==
  IF cfg.clubNumber # None THEN [member |-> cfg.clubNumber, program |-> "ZE"]
  ELSE IF cfg.frequentTravellerNumber # None
  THEN [member |-> cfg.frequentTravellerNumber, program |-> cfg.frequentTravellerProgramId]
  ELSE None

PersonName(customer) == LatinCharacters(customer.lastName)

\* Pointers that requestBody follows without asking whether they are nil; gin's
\* recovery answers for a request that panics.
NilInBooking(params, cfg) ==
  \/ \E i \in DOMAIN params.extras : params.extras[i].quantity = None
  \/ /\ Billed(params.customer, cfg)
     /\ params.customer.supplierSpecificInformation.hertzBillingNumber = None
  \/ /\ cfg.clubNumber = None /\ cfg.frequentTravellerNumber # None
     /\ cfg.frequentTravellerProgramId = None

\* requestBody of booking.go
BookingDocument(params, cfg) ==
  LET customer == params.customer
  IN  [kind |-> "book",
       pos |-> NewPOS(MappedResidenceCountry(cfg, customer.country), cfg,
                      customer.brokerReference),
       pickUp |-> params.pickUp, return |-> params.dropOff,
       from |-> params.from, until |-> params.until,
       arrivalDetails |-> ArrivalDetails(customer),
       rentalPaymentPref |-> RentalPaymentPref(params, cfg),
       vehPref |-> VehPref(params, cfg),
       reference |-> Reference(params.supplierRateReference.fromRates, cfg),
       specialEquipPrefs |-> SpecialEquipPrefs(params),
       tour |-> cfg.tour, custLoyalty |-> CustLoyalty(cfg),
       phone |-> customer.phone, surname |-> PersonName(customer)]

\* AsMap of mapping/rate_reference.go, with the answer to a booking that has a
\* number.
SupplierData(customer) ==
  [lastName |-> customer.lastName, residenceCountry |-> customer.country]

\* requestBody of quote.go: by class, and without a place to return to.
QuoteDocument(params, cfg, vehicleClass) ==
  [kind |-> "quote",
   pos |-> NewPOS(MappedResidenceCountry(cfg, params.country), cfg, ""),
   uniqueID |-> params.booking.supplierBookingReference,
   pickUp |-> params.pickUp, from |-> params.from, until |-> params.until,
   vehPref |-> IF vehicleClass = "" THEN None ELSE vehicleClass,
   rentalPaymentPref |-> IF cfg.sendVoucher THEN params.booking.reservNumber ELSE None,
   phone |-> params.booking.phone, surname |-> PersonName(params.booking)]

\* requestBody of modify.go: as for a booking, with the reference of the quote,
\* and neither a place to return to nor a tour.  flightNumber decides whether
\* flightNo, another parameter, is written.
ModifyArrivalDetails(customer) ==
  IF customer.flightNumber = None /\ customer.airlineCode # "walk-in" THEN None
  ELSE ArrivalDetails(customer)

\* The reference of the offer that was booked, instead of the quote's.
ModifyReferenceFromRates(params, cfg) ==
  Reference(params.supplierRateReference.fromRates, cfg)

ModifyReference(params, cfg) == Reference(params.supplierRateReference.fromQuote, cfg)

NilInModification(params, cfg) ==
  \/ NilInBooking(params, cfg)
  \/ /\ params.customer.airlineCode \notin {None, "walk-in"}
     /\ params.customer.flightNumber # None /\ params.customer.flightNo = None

ModifyDocument(params, cfg) ==
  LET customer == params.customer
  IN  [kind |-> "modify",
       pos |-> NewPOS(MappedResidenceCountry(cfg, customer.country), cfg,
                      customer.brokerReference),
       uniqueID |-> params.supplierBookingReference,
       pickUp |-> params.pickUp, from |-> params.from, until |-> params.until,
       arrivalDetails |-> ModifyArrivalDetails(customer),
       rentalPaymentPref |-> RentalPaymentPref(params, cfg),
       vehPref |-> VehPref(params, cfg),
       reference |-> ModifyReference(params, cfg),
       specialEquipPrefs |-> SpecialEquipPrefs(params),
       custLoyalty |-> CustLoyalty(cfg),
       phone |-> customer.phone, surname |-> PersonName(customer)]

\* requestBody of cancel.go: the owner as the answer to the booking gave it,
\* neither mapped nor respelled.  Its pointers are followed unasked.
CancelDocument(params, cfg) ==
  [kind |-> "cancel",
   pos |-> NewPOS(params.supplierData.residenceCountry, cfg, params.brokerReference),
   uniqueID |-> params.supplierBookingReference,
   surname |-> params.supplierData.lastName]

NilInCancellation(params) == params.supplierData = None
=============================================================================
