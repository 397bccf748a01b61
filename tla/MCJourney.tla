------------------------------ MODULE MCJourney ------------------------------
(***************************************************************************)
(* Sessions for checking Journey: customers of Hertz with one offer each,  *)
(* for every combination of what its price is made of and of the contract's*)
(* pricing options; and customers of all platforms with several trips and  *)
(* offers, for every option of a document, one at a time.                  *)
(***************************************************************************)
EXTENDS Journey

MCLatin == "Mu:ller" :> "Muller"
MCIata == [s \in {"s1", "s2"} |-> IF s = "s1" THEN "RIX" ELSE None]

Trip(pickUp, dropOff, from, until) ==
  [pickUp |-> pickUp, dropOff |-> dropOff, from |-> from, until |-> until,
   country |-> "LV", branchExtras |-> <<"7", "13">>]

Here == Trip("s1", "s2", 34, 82)
Later == Trip("s1", "s2", 38, 86)       \* some hours later on the same day
Elsewhere == Trip("s1", "s1", 34, 82)

SomeCustomer ==
  [lastName |-> "Mu:ller", country |-> "EE", phone |-> None, brokerReference |-> "b1",
   airlineCode |-> None, flightNo |-> None, flightNumber |-> None,
   supplierSpecificInformation |-> None]

\* Every record with one of these fields of the record changed.
Changes(record, values) ==
  {record} \cup UNION {{[record EXCEPT ![field] = v] : v \in values[field]} :
                       field \in DOMAIN values}

Customers == Changes(SomeCustomer,
  [lastName |-> {"Smith"},
   airlineCode |-> {"walk-in", "BT"},
   supplierSpecificInformation |->
     {[hertzBillingNumber |-> None], [hertzBillingNumber |-> "h1"]}])
  \cup {[SomeCustomer EXCEPT !.airlineCode = "BT", !.flightNo = "f1", !.flightNumber = n] :
          n \in {None, "f2"}}

-----------------------------------------------------------------------------
HertzCfg ==
  [vn |-> "vn", vendorCode |-> "ZE", taco |-> None, bookingAgent |-> None,
   residenceCountryMapping |-> None, maxResponses |-> None, rateQualifier |-> None,
   tour |-> None, clubNumber |-> None, frequentTravellerNumber |-> None,
   frequentTravellerProgramId |-> None, sendVoucher |-> FALSE,
   sendAgencyBillingNumberWithBooking |-> FALSE, voucherContractBillingType |-> None,
   useDirectSell |-> FALSE,
   fpPaynowVehiclePriceWithTax |-> FALSE, fpPayFeesLocally |-> FALSE,
   includeCoveragesInRate |-> FALSE, payNowCoverages |-> {}, addTaxToCoverages |-> {},
   taxExclCoverageCountries |-> {"LV"}, feePayableLocally |-> <<>>]

HertzCfgs == Changes(HertzCfg,
  [taco |-> {"t1"}, clubNumber |-> {"c1"}, frequentTravellerNumber |-> {"n1"},
   residenceCountryMapping |-> {"EE" :> "DE", "ALL" :> "US", "LT" :> "DE"},
   sendVoucher |-> {TRUE}, sendAgencyBillingNumberWithBooking |-> {TRUE},
   voucherContractBillingType |-> {"Partial"}, useDirectSell |-> {TRUE}])

PricingCfgs ==
  {[HertzCfg EXCEPT !.fpPaynowVehiclePriceWithTax = tax, !.fpPayFeesLocally = locally,
      !.includeCoveragesInRate = coverages, !.payNowCoverages = payNow,
      !.addTaxToCoverages = payNow, !.feePayableLocally = fees] :
     tax, locally, coverages \in BOOLEAN, payNow \in {{}, {"7"}},
     fees \in {<<>>, "AIRPORT" :> {"LV"}}}

ProfitMaxCfg ==
  [vn |-> "vn", vendorCode |-> None, destination |-> "d", username |-> "u", test |-> FALSE,
   maxResponses |-> None, rateQualifier |-> None, tour |-> None, sendVoucher |-> TRUE,
   fpPaynowVehiclePriceWithTax |-> FALSE, fpPayFeesLocally |-> FALSE]

-----------------------------------------------------------------------------
Vehicle ==
  [status |-> "Available", class |-> "ECAR", total |-> [amount |-> 1000, currency |-> "EUR"],
   paymentRules |-> <<>>, charges |-> <<>>, fees |-> <<>>, coverages |-> <<>>,
   distance |-> [unlimited |-> FALSE, unit |-> "Mile", period |-> "Day"],
   vehicle |-> [transmission |-> "Automatic", fuel |-> "Unspecified", drive |-> "AWD"],
   reference |-> None, echoToken |-> None, estimatedTotal |-> 1200,
   equips |-> <<[type |-> "7", amount |-> 100, includedInRate |-> FALSE]>>]

Rules == {<<>>, <<[ruleType |-> "prepay", amount |-> 900, currency |-> "EUR"]>>,
          <<[ruleType |-> "guarantee", amount |-> 900, currency |-> "EUR"]>>}

Charge(purpose, taxes, included) ==
  [purpose |-> purpose, taxes |-> taxes, includedInRate |-> included, amount |-> 100]

RentalCharge == Charge("1", <<[description |-> "Tax", percentage |-> 10, total |-> 100]>>, TRUE)

Fee(description, included) ==
  [purpose |-> "5", description |-> description, amount |-> 100, includedInRate |-> included]

Coverage(type, included, required, amount, calculation) ==
  [type |-> type, includedInRate |-> included, required |-> required,
   coverageRequired |-> FALSE, amount |-> amount, calculation |-> calculation,
   taxInclusive |-> FALSE]

PricedVehicles ==
  {[Vehicle EXCEPT !.paymentRules = rules, !.charges = charges, !.fees = fees,
                   !.coverages = coverages] :
     rules \in Rules,
     charges \in {<<>>, <<RentalCharge, Charge("8", <<>>, FALSE), Charge("2", <<>>, FALSE)>>},
     fees \in {<<>>, <<Fee("AIRPORT", FALSE), Fee("ROAD", TRUE)>>},
     coverages \in
       {<<>>, <<Coverage("7", FALSE, TRUE, 200, <<>>), Coverage("24", TRUE, FALSE, 100, <<>>)>>,
        <<Coverage("7", FALSE, FALSE, None, <<[unit |-> "Day", charge |-> 100]>>),
          Coverage("38", FALSE, TRUE, None, <<>>)>>}}

\* A vehicle that has gone, one without a price, and the only one to be shown.
HertzOffer ==
  <<[Vehicle EXCEPT !.status = "Unavailable"], [Vehicle EXCEPT !.total.amount = 0], Vehicle>>

Match ==
  [class |-> "ECAR", basePrice |-> 1000, vehicleId |-> None, route |-> None,
   availabilityCheck |-> TRUE, supplierName |-> "alamo", unlimitedMileage |-> TRUE,
   fees |-> <<[name |-> "tax", amount |-> 100, alwaysPayable |-> TRUE]>>,
   extras |-> <<[product |-> "7", amount |-> 100, priceAvailable |-> TRUE]>>,
   automatic |-> TRUE, petrol |-> "Petrol"]

Listed(code, required) ==
  [code |-> code, total |-> 100, included |-> FALSE, autoAssignable |-> FALSE,
   required |-> required]

Group ==
  [code |-> "A", status |-> "AVAILABLE", rateAfterTax |-> 1000, includedMileage |-> 0,
   insurances |-> <<Listed("cdw", TRUE)>>, taxes |-> <<>>, extras |-> <<Listed("7", TRUE)>>,
   optionals |-> [insurances |-> <<Listed("cdw", FALSE)>>, taxes |-> <<>>,
                  extras |-> <<Listed("13", FALSE)>>],
   transmission |-> "auto", fuel |-> "Petrol"]

RentlyVehicle ==
  [model |-> [id |-> 1, sipp |-> "ECAR", franchises |-> {"TheftExcess"},
              transmission |-> "manual"],
   price |-> 1000, limitedKm |-> TRUE,
   additionalPrices |-> <<[type |-> "Additional", id |-> "7", price |-> 100,
                           isRequired |-> FALSE]>>]

-----------------------------------------------------------------------------
Orders ==
  {<<BookingExtra("7", "Extra", 2)>>,
   <<BookingExtra("13", "Fee", 1), BookingExtra("7", "Extra", None)>>}

Session(platform_, cfg_, customer_, paymentType, trips, offers, orders) ==
  [platform |-> platform_, cfg |-> cfg_, customer |-> customer_,
   paymentType |-> paymentType, trips |-> trips, offers |-> offers, orders |-> orders,
   equips |-> <<[type |-> "7", amount |-> 100, includedInRate |-> FALSE]>>,
   stations |-> <<>>]

PricingSessions ==
  {Session("hertz", c, SomeCustomer, payment, {Here}, {<<v>>}, {<<>>}) :
     c \in PricingCfgs, payment \in {"full", "partial"}, v \in PricedVehicles}

HertzSessions ==
  {Session("hertz", HertzCfg, SomeCustomer, "full", {Here, Later, Elsewhere},
           {<<>>, HertzOffer}, Orders)}
    \cup {Session("hertz", c, SomeCustomer, "full", {Here, Elsewhere}, {HertzOffer}, Orders) :
             c \in HertzCfgs}
    \cup {Session("hertz", [HertzCfg EXCEPT !.sendAgencyBillingNumberWithBooking = TRUE,
                                            !.sendVoucher = TRUE],
                  c, "full", {Here, Elsewhere}, {HertzOffer}, Orders) : c \in Customers}

OtherSession(platform_, cfg_, offer, c) ==
  Session(platform_, cfg_, c, "full", {Here, Later, Elsewhere}, {<<>>, offer}, Orders)

OtherSessions ==
  UNION {{OtherSession("profitmaxdht", ProfitMaxCfg, HertzOffer, c),
          OtherSession("bookingcom", [supplierName |-> "alamo"],
                       <<Match, [Match EXCEPT !.supplierName = "avis"]>>, c),
          OtherSession("anyrent", <<>>, <<Group, [Group EXCEPT !.status = "ON_REQUEST"]>>, c),
          OtherSession("rently", [commercialAgreementCode |-> "x"], <<RentlyVehicle>>, c)} :
         c \in Customers}

-----------------------------------------------------------------------------
\* Schedules: hours of a day or none, twice a day, to the second; and a station
\* whose times cannot be read.
Morning == [openedFrom |-> <<8, 0>>, openedTo |-> <<12, 30, 30>>]
Evening == [openedFrom |-> <<14, 0>>, openedTo |-> <<23, 59, 59>>]

RentlySchedules ==
  {[days |-> [day \in 1 .. 7 |-> IF day \in open THEN <<Morning, Evening>>
                                ELSE IF day \in short THEN <<Morning>> ELSE <<>>]] :
     open, short \in {{}, {7}, {1, 6}, 1 .. 5}}
    \cup {[days |-> [day \in 1 .. 7 |-> <<[Morning EXCEPT !.openedTo = <<24>>]>>]]}

Hours(from, until) ==
  [open |-> <<from, 0>>, close |-> <<until, 0>>, oohStart |-> <<until, 0>>, oohEnd |-> <<23, 30>>]

AnyRentSchedules ==
  {[week |-> Hours(8, 20), saturday |-> Hours(from, until), sunday |-> Hours(from, 14)] :
     from \in {0, 8, 10}, until \in {12, 20}}
    \cup {[week |-> Hours(8, 20), saturday |-> Hours(8, 12),
           sunday |-> [Hours(8, 12) EXCEPT !.open = <<0>>]]}

StationSession(platform_, configuration, schedules) ==
  [Session(platform_, configuration, SomeCustomer, "full", {}, {}, {}) EXCEPT !.stations = schedules]

StationSessions ==
  {StationSession("rently", [commercialAgreementCode |-> "x"], <<s>>) : s \in RentlySchedules}
    \cup {StationSession("anyrent", <<>>, <<s>>) : s \in AnyRentSchedules}

MCSessions == PricingSessions \cup HertzSessions \cup OtherSessions \cup StationSessions
=============================================================================
