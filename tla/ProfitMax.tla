----------------------------- MODULE ProfitMax -----------------------------
(***************************************************************************)
(* The ProfitMax (Dollar, Thrifty) platform: what it makes of a supplier's *)
(* vehicle and the documents it sends.  The package profitmaxdht is a copy *)
(* of hertz with some of the configuration taken out; what is still the    *)
(* same is taken from HertzOffers, and the map names the copy.             *)
(***************************************************************************)
EXTENDS Requests

Hertz == INSTANCE HertzOffers

\* The types of an answer are those of Hertz: a charge, a coverage, a vehicle.
VehicleCharge == Hertz!VehicleCharge
PricedCoverage == Hertz!PricedCoverage
VehAvail(references) == Hertz!VehAvail(references, {None})

\* Type of SupplierRateReference, by rate_reference.go.
RateReference(references) == [fromRates : references, estimatedTotalAmount : Int]

Price(total, params, rules) == Hertz!Price(total, params, rules)

TaxCharge(charges, params, cfg, rules) == Hertz!TaxCharge(charges, params, cfg, rules)

Charges(charges) == Hertz!Charges(charges)

\* No fee is payable locally by country, and fpPayFeesLocally is not asked.
FeeIncludedType(fee, params, rules) ==
  Hertz!FeeIncludedType(fee, params,
    [feePayableLocally |-> <<>>, fpPayFeesLocally |-> FALSE], rules)

Fees(fees, params, rules) ==
  [i \in DOMAIN fees |->
     LET how == FeeIncludedType(fees[i], params, rules)
     IN  Item("VCP", fees[i].purpose, fees[i].amount, how = "feesIncluded",
              how \in {"feesNotIncludedPayLocally", "feesUnknown"}, TRUE)]

\* Every coverage without tax gets it, and every mandatory one becomes part of
\* the vehicle's price, those the supplier has included in it as well.
CoverageRules(coverages) ==
  [payNowCoverages |-> {}, addTaxToCoverages |-> {coverages[i].type : i \in DOMAIN coverages},
   taxExclCoverageCountries |-> {}, includeCoveragesInRate |-> TRUE]

VehicleCoverages(coverages, percent, rules, params) ==
  Hertz!VehicleCoverages(coverages, percent, rules, params, CoverageRules(coverages))

MileageOf(distance) == Hertz!MileageOf(distance)

FeaturesOf(vehicle) == Hertz!FeaturesOf(vehicle)

\* parseExtra
ParseExtra(equip, percent) == Hertz!ParseExtra(equip, percent)

\* parseVehicle, with the equipment of the vehicle itself.
ParseVehicle(va, params, cfg) ==
  LET rules == va.paymentRules
      base == Price(va.total, params, rules)
      tax == TaxCharge(va.charges, params, cfg, rules)
      withTax == IF tax.inPrice THEN Hertz!Taxed(base, tax.percent) ELSE base
      coverages == VehicleCoverages(va.coverages, tax.percent, rules, params)
      extras == [i \in DOMAIN va.equips |-> ParseExtra(va.equips[i], tax.percent)]
  IN  IF base = None THEN None
      ELSE VehicleOf(
             va.class, withTax + coverages.added,
             tax.items \o extras \o Charges(va.charges)
               \o Fees(va.fees, params, rules) \o coverages.items,
             [fromRates |-> va.reference, estimatedTotalAmount |-> va.estimatedTotal],
             MileageOf(va.distance), FeaturesOf(va.vehicle))

\* The loop of ratesRequest.Execute over the answer.
MapVehicles(answer, params, cfg) ==
  LET available == Only(answer, {i \in DOMAIN answer : answer[i].status = "Available"})
      parsed == [i \in DOMAIN available |-> ParseVehicle(available[i], params, cfg)]
  IN  [vehicles |-> Only(parsed, {i \in DOMAIN parsed : parsed[i] # None}),
       errors |-> Len(Only(parsed, {i \in DOMAIN parsed : parsed[i] = None}))]

-----------------------------------------------------------------------------
\* Type ProfitMaxDHTConfiguration, as far as it is used.
ProfitMaxDHTConfiguration ==
  [vn : OrNone(STRING), vendorCode : OrNone(STRING), destination : STRING, username : STRING,
   test : BOOLEAN, maxResponses : OrNone(Nat), rateQualifier : OrNone(STRING),
   tour : OrNone(STRING), sendVoucher : BOOLEAN, fpPaynowVehiclePriceWithTax : BOOLEAN,
   fpPayFeesLocally : BOOLEAN]

\* The types of the documents; the envelope is that of all.
InEnvelope(elements) == {"kind", "credentials", "pos", "target"} \cup elements

VehAvailRateRQ ==
  [required |-> InEnvelope({"maxResponses", "from", "until"}),
   optional |-> {"pickUp", "return", "rateQualifier", "tour"}]

VehResRQ ==
  [required |-> InEnvelope({"from", "until", "surname"}),
   optional |-> {"pickUp", "return", "voucher", "reference", "specialEquipPrefs", "tour", "phone"}]

VehCancelRQ == [required |-> InEnvelope({}), optional |-> {"uniqueID", "surname"}]

VehRetResRQ == [required |-> InEnvelope({"uniqueID", "surname"}), optional |-> {}]

DocumentType(kind) ==
  CASE kind = "rates" -> VehAvailRateRQ
    [] kind = "book" -> VehResRQ
    [] kind = "cancel" -> VehCancelRQ
    [] kind = "status" -> VehRetResRQ

\* POSBuiler: the country of every customer is US.
POS(cfg) ==
  [country |-> "US",
   requestors |-> {<<"4", cfg.vn>>}
                    \cup IF cfg.vendorCode = None THEN {} ELSE {<<"8", cfg.vendorCode>>}]

\* SoapEnvHeaderBuilder
Credentials(cfg) == [username |-> cfg.username, destination |-> cfg.destination]

\* The target of every request.
Target(cfg) == IF cfg.test THEN "Test" ELSE "Production"

\* ratesRequestBody
RatesDocument(params, cfg) ==
  [kind |-> "rates",
   credentials |-> Credentials(cfg), pos |-> POS(cfg), target |-> Target(cfg),
   maxResponses |-> Unwrap(cfg.maxResponses, 10),
   pickUp |-> params.pickUp, return |-> params.dropOff,
   from |-> params.from, until |-> params.until,
   rateQualifier |-> cfg.rateQualifier, tour |-> cfg.tour]

\* The pieces of TrafficLightGroupingCacheKey.
CacheKey(params, cfg) ==
  <<params.pickUp, params.dropOff, Day(params.from), params.until - params.from,
    cfg.rateQualifier, cfg.vn, cfg.vendorCode, cfg.destination>>

\* A quantity that is nil is followed all the same.
NilInBooking(params) == \E i \in DOMAIN params.extras : params.extras[i].quantity = None

\* requestBody of booking.go
BookingDocument(params, cfg) ==
  LET customer == params.customer
  IN  [kind |-> "book",
       credentials |-> Credentials(cfg), pos |-> POS(cfg), target |-> Target(cfg),
       pickUp |-> params.pickUp, return |-> params.dropOff,
       from |-> params.from, until |-> params.until,
       voucher |-> IF cfg.sendVoucher THEN customer.brokerReference ELSE None,
       reference |-> params.supplierRateReference.fromRates,
       specialEquipPrefs |->
         [i \in DOMAIN params.extras |->
            [code |-> params.extras[i].code, quantity |-> params.extras[i].quantity]],
       tour |-> cfg.tour, phone |-> customer.phone,
       surname |-> LatinCharacters(customer.lastName)]

\* SupplierData of mapping/rate_reference.go
SupplierData(customer) ==
  [lastName |-> customer.lastName, residenceCountry |-> customer.country]

\* requestBody of cancel.go: the name that the answer to the booking gave.
CancelDocument(params, cfg) ==
  [kind |-> "cancel",
   credentials |-> Credentials(cfg), pos |-> POS(cfg), target |-> Target(cfg),
   uniqueID |-> params.supplierBookingReference,
   surname |-> params.supplierData.lastName]

\* requestBody of bookingstatus.go
StatusDocument(params, cfg) ==
  [kind |-> "status",
   credentials |-> Credentials(cfg), pos |-> POS(cfg), target |-> Target(cfg),
   uniqueID |-> params.supplierBookingReference,
   surname |-> params.supplierData.lastName]

\* Both follow the pointer to the name unasked.
NilInSupplierData(params) == params.supplierData = None
=============================================================================
