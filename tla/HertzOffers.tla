---------------------------- MODULE HertzOffers ----------------------------
(***************************************************************************)
(* What the Hertz platform makes of the vehicles of an answer to a rates   *)
(* or re-quote request: the methods of src/internal/platform/              *)
(* implementations/hertz/ota/vehavailraters.go, and parseVehicle of        *)
(* rates.go and parseQuote of quote.go, which put them together.           *)
(*                                                                         *)
(* va is an element of VehAvail: its total, charges, fees, coverages and   *)
(* payment rules.  params and cfg are the request and the contract's       *)
(* configuration.                                                          *)
(***************************************************************************)
EXTENDS Offers

\* Types TaxAmount, VehicleCharge, Fee and PaymentRule.
TaxAmount == [description : STRING, percentage : Int, total : Int]

VehicleCharge ==
  [purpose : STRING, taxes : Seq(TaxAmount), includedInRate : BOOLEAN, amount : Int]

Fee == [purpose : STRING, description : STRING, amount : Int, includedInRate : BOOLEAN]

PaymentRule == [ruleType : STRING, amount : Int, currency : STRING]

\* Type PricedCoverage with Coverage, Charge and CoverageCalculation.  Of all
\* amounts only that of a coverage is a pointer.
PricedCoverage ==
  [type : STRING, includedInRate : BOOLEAN, required : BOOLEAN, coverageRequired : BOOLEAN,
   taxInclusive : BOOLEAN, amount : OrNone(Int),
   calculation : Seq([unit : STRING, charge : Int])]

\* Types Vehicle, RateDistance and PricedEquip.
VehicleElements == [transmission : STRING, fuel : STRING, drive : STRING]
RateDistance == [unlimited : BOOLEAN, unit : STRING, period : STRING]
PricedEquip == [type : STRING, amount : Int, includedInRate : BOOLEAN]

\* Type VehAvail, with what is in it.  The reference and the echo token are the
\* supplier's to fill in.
VehAvail(references, tokens) ==
  [status : STRING, class : STRING, total : [amount : Int, currency : STRING],
   paymentRules : Seq(PaymentRule), charges : Seq(VehicleCharge), fees : Seq(Fee),
   coverages : Seq(PricedCoverage), distance : RateDistance, vehicle : VehicleElements,
   equips : Seq(PricedEquip), estimatedTotal : Int,
   reference : references, echoToken : tokens]

\* Type of SupplierRateReference, by rate_reference.go.
RateReference(references, tokens) ==
  [fromRates : references, fromQuote : tokens, estimatedTotalAmount : Int]

\* OtaVcp: purposes of a charge.
RentalFee == "1"
AdditionalDistance == "8"
Tax == "7"
Whitelist == {"2", AdditionalDistance, "23"}

IsFullPrepay(params) == params.paymentType = "full"
IsPartialPayment(params) == params.paymentType = "partial"
FullWithoutPaymentRules(params, rules) == IsFullPrepay(params) /\ rules = <<>>
IsPrepay(rules) == rules # <<>> /\ Head(rules).ruleType = "prepay"

-----------------------------------------------------------------------------
\* TotalCharge.Price: the rate of the total, or the amount of a pre-pay rule.
\* Any other combination leaves the price zero, which is an error like a zero
\* amount is.
Price(total, params, rules) ==
  LET fromTotal == IsPartialPayment(params) \/ FullWithoutPaymentRules(params, rules)
      fromRule == IsFullPrepay(params) /\ IsPrepay(rules)
      source == IF fromRule THEN Head(rules) ELSE total
  IN  IF (fromTotal \/ fromRule) /\ source.currency # "" /\ source.amount # 0
      THEN source.amount
      ELSE None

Taxed(amount, percent) == (amount * (100 + percent)) \div 100

\* As in TaxAsItem, before the configuration had a say.
TaxAsItemAlways(params, cfg, rules) ==
  IsPartialPayment(params) \/ FullWithoutPaymentRules(params, rules)

\* Whether the tax of the rental fee becomes an item of its own, or part of the
\* vehicle's price.  With a payment rule to pre-pay it is neither.
TaxAsItem(params, cfg, rules) ==
  \/ IsPartialPayment(params)
  \/ ~cfg.fpPaynowVehiclePriceWithTax /\ FullWithoutPaymentRules(params, rules)

TaxInPrice(params, cfg, rules) ==
  cfg.fpPaynowVehiclePriceWithTax /\ FullWithoutPaymentRules(params, rules)

\* The taxes of the rental fee, one charge after the other.
RentalTaxes(charges) ==
  FlattenSeq([i \in DOMAIN charges |->
    IF charges[i].purpose = RentalFee
    THEN Only(charges[i].taxes, {j \in DOMAIN charges[i].taxes :
                                   charges[i].taxes[j].description = "Tax"})
    ELSE <<>>])

\* VehicleCharges.TaxCharge: the tax of the rental fee, in percent, and where it
\* goes.  The loop over the taxes ends at the first one that goes somewhere, and
\* otherwise runs on.
TaxCharge(charges, params, cfg, rules) ==
  LET taxes == RentalTaxes(charges)
      inPrice == TaxInPrice(params, cfg, rules)
      asItem == TaxAsItem(params, cfg, rules)
      tax == IF inPrice \/ asItem THEN Head(taxes) ELSE Last(taxes)
      payLocal == IsFullPrepay(params) => cfg.fpPayFeesLocally
  IN  IF taxes = <<>>
      THEN [percent |-> 0, items |-> <<>>, inPrice |-> FALSE]
      ELSE [percent |-> tax.percentage,
            items |-> IF asItem
                      THEN <<Item("VCP", Tax, tax.total, FALSE, payLocal, TRUE)>>
                      ELSE <<>>,
            inPrice |-> inPrice]

\* VehicleCharges.Charges
Charges(charges) ==
  LET listed == Only(charges, {i \in DOMAIN charges : charges[i].purpose \in Whitelist})
      Charge(c) ==
        LET included == c.includedInRate /\ c.purpose # AdditionalDistance
        IN  Item("VCP", c.purpose, c.amount, included, ~included,
                 c.purpose # AdditionalDistance)
  IN  [i \in DOMAIN listed |-> Charge(listed[i])]

-----------------------------------------------------------------------------
\* mapContains, of the configuration's feePayableLocally.  fee.description is the
\* name in capitals, as the code compares it with the configuration.
PayableLocally(fee, params, cfg) ==
  /\ fee.description \in DOMAIN cfg.feePayableLocally
  /\ params.pickUpCountry \in cfg.feePayableLocally[fee.description]

\* feeIncludedType
FeeIncludedType(fee, params, cfg, rules) ==
  CASE IsFullPrepay(params) ->
         IF PayableLocally(fee, params, cfg) THEN "feesNotIncludedPayLocally"
         ELSE IF IsPrepay(rules) THEN "feesIncluded"
         ELSE IF cfg.fpPayFeesLocally THEN "feesNotIncludedPayLocally"
         ELSE "feesNotIncludedPayNow"
    [] IsPartialPayment(params) ->
         IF fee.includedInRate THEN "feesIncluded" ELSE "feesUnknown"
    [] OTHER -> "feesUnknown"

\* Fees.Fees
Fees(fees, params, cfg, rules) ==
  [i \in DOMAIN fees |->
     LET how == FeeIncludedType(fees[i], params, cfg, rules)
     IN  Item("VCP", fees[i].purpose, fees[i].amount, how = "feesIncluded",
              how \in {"feesNotIncludedPayLocally", "feesUnknown"}, TRUE)]

-----------------------------------------------------------------------------
\* whichCoverageIncludedType
WhichCoverageIncludedType(c, rules, params, cfg) ==
  IF c.type \in cfg.payNowCoverages THEN "payNow"
  ELSE IF c.includedInRate THEN "included"
  ELSE IF IsFullPrepay(params) /\ IsPrepay(rules) /\ (c.coverageRequired \/ c.required)
  THEN "included"
  ELSE "notIncluded"

\* The price of a coverage: its amount, or what the first calculation by day or
\* by rental comes to, or none.
CoveragePrice(c, params) ==
  LET applicable == Only(c.calculation, {i \in DOMAIN c.calculation :
                           c.calculation[i].unit \in {"Day", "RentalPeriod"}})
  IN  IF c.amount # None THEN c.amount
      ELSE IF applicable = <<>> THEN None
      ELSE IF Head(applicable).unit = "Day"
      THEN Head(applicable).charge * params.rentalDays
      ELSE Head(applicable).charge

IsTaxed(c, params, cfg) ==
  /\ ~c.taxInclusive
  /\ \/ c.type \in cfg.addTaxToCoverages
     \/ ~c.required /\ params.pickUpCountry \notin cfg.taxExclCoverageCountries

\* PricedCoverages.VehicleCoverages as a slip would leave it: a coverage whose
\* price went into the vehicle's is still listed as not included.
CoverageAddedAndListed(c, percent, rules, params, cfg) ==
  LET how == WhichCoverageIncludedType(c, rules, params, cfg)
      price == CoveragePrice(c, params)
      mandatory == c.includedInRate \/ c.required \/ c.coverageRequired
  IN  [item |-> Item("VCT", c.type,
                     IF IsTaxed(c, params, cfg) THEN Taxed(price, percent) ELSE price,
                     how = "included", how = "notIncluded", mandatory),
       added |-> mandatory /\ cfg.includeCoveragesInRate]

\* One turn of the loop of PricedCoverages.VehicleCoverages over a coverage that
\* has a price: the item, and whether its price is added to the vehicle's.
VehicleCoverage(c, percent, rules, params, cfg) ==
  LET how == WhichCoverageIncludedType(c, rules, params, cfg)
      price == CoveragePrice(c, params)
      mandatory == c.includedInRate \/ c.required \/ c.coverageRequired
      added == mandatory /\ cfg.includeCoveragesInRate
  IN  [item |-> Item("VCT", c.type,
                     IF IsTaxed(c, params, cfg) THEN Taxed(price, percent) ELSE price,
                     how = "included" \/ added, how = "notIncluded", mandatory),
       added |-> added]

VehicleCoverages(coverages, percent, rules, params, cfg) ==
  LET priced == Only(coverages, {i \in DOMAIN coverages :
                                   CoveragePrice(coverages[i], params) # None})
      done == [i \in DOMAIN priced |->
                 VehicleCoverage(priced[i], percent, rules, params, cfg)]
  IN  [items |-> [i \in DOMAIN done |-> done[i].item],
       added |-> Sum([i \in DOMAIN done |-> IF done[i].added THEN done[i].item.amount ELSE 0])]

-----------------------------------------------------------------------------
\* RateDistance.Mileage: whatever unit the supplier names, it comes out as Km,
\* and a period alone makes it Km as well.
MileageOf(distance) ==
  LET unit == OneOf(distance.unit, {"Mile", "Km"})
      period == OneOf(distance.period, {"Day", "Hour", "RentalPeriod"})
  IN  [unlimited |-> distance.unlimited,
       distanceUnit |-> IF unit # None \/ period # None THEN "Km" ELSE None,
       periodUnit |-> period]

\* Transmission, FuelType and DriveType of the mapping packages.
FeaturesOf(vehicle) ==
  Features(OneOf(vehicle.transmission, {"Automatic", "Manual"}),
           OneOf(vehicle.fuel, {"Diesel", "Electric", "Ethanol", "Gas", "Hybrid",
                                "Hydrogen", "MultiFuel", "Petrol"}),
           OneOf(vehicle.drive, {"AWD", "4WD"}))

\* parseExtra
ParseExtra(equip, percent) ==
  Item("EQP", equip.type, Taxed(equip.amount, percent), equip.includedInRate,
       ~equip.includedInRate, FALSE)

\* A supplier's vehicle as an item list and a price, the order of the calls in
\* parseVehicle.  None when it has no price.
ParseVehicle(va, equips, params, cfg) ==
  LET rules == va.paymentRules
      base == Price(va.total, params, rules)
      tax == TaxCharge(va.charges, params, cfg, rules)
      withTax == IF tax.inPrice THEN Taxed(base, tax.percent) ELSE base
      coverages == VehicleCoverages(va.coverages, tax.percent, rules, params, cfg)
      extras == [i \in DOMAIN equips |-> ParseExtra(equips[i], tax.percent)]
  IN  IF base = None THEN None
      ELSE VehicleOf(
             va.class, withTax + coverages.added,
             tax.items \o extras \o Charges(va.charges)
               \o Fees(va.fees, params, cfg, rules) \o coverages.items,
             [fromRates |-> va.reference, fromQuote |-> None,
              estimatedTotalAmount |-> va.estimatedTotal],
             MileageOf(va.distance), FeaturesOf(va.vehicle))

\* parseQuote as it would be had the change for taxes in the price been made in
\* parseVehicle only.
ParseQuoteWithoutTax(va, equips, params, cfg) ==
  LET base == Price(va.total, params, va.paymentRules)
      tax == TaxCharge(va.charges, params, cfg, va.paymentRules)
      coverages == VehicleCoverages(va.coverages, tax.percent, va.paymentRules, params, cfg)
      extras == [i \in DOMAIN equips |-> ParseExtra(equips[i], tax.percent)]
  IN  IF base = None THEN None
      ELSE VehicleOf(
             va.class, base + coverages.added,
             tax.items \o extras \o Charges(va.charges)
               \o Fees(va.fees, params, cfg, va.paymentRules) \o coverages.items,
             [fromRates |-> va.echoToken, fromQuote |-> va.echoToken,
              estimatedTotalAmount |-> va.estimatedTotal],
             MileageOf(va.distance), FeaturesOf(va.vehicle))

\* parseQuote: the same steps written a second time, for the segment of a
\* reservation, with the echo token for both references.
ParseQuote(va, equips, params, cfg) ==
  LET rules == va.paymentRules
      base == Price(va.total, params, rules)
      tax == TaxCharge(va.charges, params, cfg, rules)
      withTax == IF tax.inPrice THEN Taxed(base, tax.percent) ELSE base
      coverages == VehicleCoverages(va.coverages, tax.percent, rules, params, cfg)
      extras == [i \in DOMAIN equips |-> ParseExtra(equips[i], tax.percent)]
  IN  IF base = None THEN None
      ELSE VehicleOf(
             va.class, withTax + coverages.added,
             tax.items \o extras \o Charges(va.charges)
               \o Fees(va.fees, params, cfg, rules) \o coverages.items,
             [fromRates |-> va.echoToken, fromQuote |-> va.echoToken,
              estimatedTotalAmount |-> va.estimatedTotal],
             MileageOf(va.distance), FeaturesOf(va.vehicle))

\* The loop of ratesRequest.Execute over the answer: a vehicle that is not
\* available is passed over, one without a price is an error.
MapVehicles(answer, equips, params, cfg) ==
  LET available == Only(answer, {i \in DOMAIN answer : answer[i].status = "Available"})
      parsed == [i \in DOMAIN available |->
                   ParseVehicle(available[i], equips, params, cfg)]
  IN  [vehicles |-> Only(parsed, {i \in DOMAIN parsed : parsed[i] # None}),
       errors |-> Len(Only(parsed, {i \in DOMAIN parsed : parsed[i] = None}))]
=============================================================================
