------------------------------- MODULE Rently -------------------------------
(***************************************************************************)
(* The Rently platform: what it makes of the vehicles of an answer and the *)
(* documents it sends.                                                     *)
(***************************************************************************)
EXTENDS Requests

\* Types of an answer: a vehicle's model and the prices beside its own.
Model == [id : Int, sipp : STRING, franchises : SUBSET STRING, transmission : STRING]

RentlyVehicle ==
  [model : Model, price : Int, limitedKm : BOOLEAN,
   additionalPrices :
     Seq([type : STRING, id : STRING, price : Int, isRequired : BOOLEAN])]

\* Type of SupplierRateReference, by rate_reference.go.
RateReference == [model : Int]

\* GetCoverages: an excess for each franchise the model has.
Coverages(model) ==
  LET codes == <<"TheftExcess", "DamageExcess", "RolloverExcess">>
      named == Only(codes, {i \in DOMAIN codes : codes[i] \in model.franchises})
  IN  [i \in DOMAIN named |-> Item("VCT", named[i], 0, TRUE, FALSE, TRUE)]

\* GetFeesAndExtras: what is required is included.
FeesAndExtras(prices) ==
  [i \in DOMAIN prices |->
     Item(IF prices[i].type = "Additional" THEN "EQP" ELSE "VCP",
          prices[i].id, prices[i].price, prices[i].isRequired, TRUE,
          prices[i].isRequired)]

\* GetTransmission
Transmission(model) == IF model.transmission = "manual" THEN "Manual" ELSE "Automatic"

\* parseVehicle
ParseVehicle(v) ==
  VehicleOf(v.model.sipp, v.price, Coverages(v.model) \o FeesAndExtras(v.additionalPrices),
            [model |-> v.model.id], MileageWithoutUnits(~v.limitedKm),
            Features(Transmission(v.model), None, None))

\* The loop of Execute: every vehicle of the answer.
MapVehicles(answer) ==
  [vehicles |-> [i \in DOMAIN answer |-> ParseVehicle(answer[i])], errors |-> 0]

-----------------------------------------------------------------------------
\* Type RentlyConfiguration, as far as it is used.
RentlyConfiguration == [commercialAgreementCode : STRING]

\* The types of the documents.
PricesAndAvailabilityRQ ==
  [required |-> {"kind", "deliveryLocation", "dropOffLocation", "from", "until",
                 "commercialAgreementCode"},
   optional |-> {}]

BookingRQ ==
  [required |-> {"kind", "model", "deliveryPlace", "dropOffPlace", "from", "until",
                 "commercialAgreementCode", "customer", "country"},
   optional |-> {"additionals"}]

DocumentType(kind) ==
  CASE kind = "rates" -> PricesAndAvailabilityRQ
    [] kind = "book" -> BookingRQ
    [] kind = "cancel" -> [required |-> {"kind", "id"}, optional |-> {}]

\* The query of makeRequest in rates.go.
RatesDocument(params, cfg) ==
  [kind |-> "rates", deliveryLocation |-> params.pickUp, dropOffLocation |-> params.dropOff,
   from |-> params.from, until |-> params.until,
   commercialAgreementCode |-> cfg.commercialAgreementCode]

\* requestBody of booking.go.  The extras are collected in a variable that the
\* if statement declares anew, the one that goes into the document stays nil.
BookingDocument(params, cfg) ==
  [kind |-> "book", model |-> params.supplierRateReference.model,
   deliveryPlace |-> params.pickUp, dropOffPlace |-> params.dropOff,
   from |-> params.from, until |-> params.until,
   additionals |-> None,
   commercialAgreementCode |-> cfg.commercialAgreementCode,
   customer |-> LatinCharacters(params.customer.lastName),
   country |-> params.customer.country]

\* makeRequest of cancel.go: the reference in the path of a DELETE.
CancelDocument(params) == [kind |-> "cancel", id |-> params.supplierBookingReference]
=============================================================================
