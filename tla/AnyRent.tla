------------------------------ MODULE AnyRent ------------------------------
(***************************************************************************)
(* The AnyRent platform: what it makes of the groups of a fleet and the    *)
(* documents it sends.                                                     *)
(***************************************************************************)
EXTENDS Requests, FiniteSets

\* Types of an answer: a group of a fleet, what its rate has in it and what is
\* optional beside it.
ListedExtra ==
  [code : STRING, total : Int, included : BOOLEAN, autoAssignable : BOOLEAN,
   required : BOOLEAN]

OptionalRate ==
  [insurances : Seq(ListedExtra), taxes : Seq(ListedExtra), extras : Seq(ListedExtra)]

FleetGroup ==
  [code : STRING, status : STRING, rateAfterTax : Int, includedMileage : Int,
   insurances : Seq(ListedExtra), taxes : Seq(ListedExtra), extras : Seq(ListedExtra),
   optionals : OptionalRate, transmission : OrNone(STRING), fuel : OrNone(STRING)]

\* Type of SupplierRateReference, by rate_reference.go.
RateReference ==
  [pickupStation : STRING, pickupDate : Int, dropOffStation : STRING, dropOffDate : Int,
   group : STRING]

\* GetCustomCoverages: collision damage, with the excess of the rate.
CustomCoverages == <<Item("VCT", "CollisionDamage", 0, TRUE, TRUE, TRUE)>>

\* GetRequiredCoverages, GetRequiredFees and GetRequiredExtras, by the type.
Required(list, type) ==
  [i \in DOMAIN list |->
     Item(type, list[i].code, list[i].total, list[i].included, TRUE, list[i].required)]

CodesOf(items) == {items[i].code : i \in DOMAIN items}

\* GetOptionalCoverages, GetOptionalFees and GetOptionalExtras: the code ranges
\* over a map, so the items come in any order; here they come as listed.
Optional(list, type, collected) ==
  LET others == Only(list, {i \in DOMAIN list : list[i].code \notin collected})
  IN  [i \in DOMAIN others |->
         Item(type, others[i].code, others[i].total,
              others[i].included \/ others[i].autoAssignable, TRUE, others[i].required)]

\* The supplier's word as it is.
TransmissionAsIs(group) == group.transmission

\* GetTransmission
Transmission(group) ==
  IF group.transmission = None THEN None
  ELSE IF group.transmission = "auto" THEN "Automatic" ELSE "Manual"

\* GetFuel
Fuel(group) == OneOf(group.fuel, {"Diesel", "Petrol"})

\* parseVehicle.  The reference carries the trip of the search.
ParseVehicle(group, params) ==
  LET required == CustomCoverages \o Required(group.insurances, "VCT")
                    \o Required(group.taxes, "VCP") \o Required(group.extras, "EQP")
      collected == CodesOf(required)
  IN  VehicleOf(group.code, group.rateAfterTax,
        required \o Optional(group.optionals.insurances, "VCT", collected)
                 \o Optional(group.optionals.taxes, "VCP", collected)
                 \o Optional(group.optionals.extras, "EQP", collected),
        [pickupStation |-> params.pickUp, pickupDate |-> params.from,
         dropOffStation |-> params.dropOff, dropOffDate |-> params.until,
         group |-> group.code],
        MileageWithoutUnits(group.includedMileage = 0),
        Features(Transmission(group), Fuel(group), None))

\* The loops of Execute over fleets and groups.
MapVehicles(answer, params) ==
  LET available == Only(answer, {i \in DOMAIN answer : answer[i].status = "AVAILABLE"})
  IN  [vehicles |-> [i \in DOMAIN available |-> ParseVehicle(available[i], params)],
       errors |-> 0]

-----------------------------------------------------------------------------
\* The types of the documents.
PricesAndAvailabilityRQ ==
  [required |-> {"kind", "pickUp", "dropOff", "from", "until"}, optional |-> {}]

BookingRQ ==
  [required |-> {"kind", "pickUp", "from", "dropOff", "until", "group", "driver", "country"},
   optional |-> {"extras", "taxes", "arrivalFlight"}]

DocumentType(kind) ==
  CASE kind = "rates" -> PricesAndAvailabilityRQ
    [] kind = "book" -> BookingRQ
    [] kind \in {"status", "cancel"} -> [required |-> {"kind", "id"}, optional |-> {}]

\* The query of makeRequest in rates.go.
RatesDocument(params) ==
  [kind |-> "rates", pickUp |-> params.pickUp, dropOff |-> params.dropOff,
   from |-> params.from, until |-> params.until]

\* The code of an extra once, whatever its quantity says.
Once(extra) == <<extra.code>>

\* A code as often as its quantity says, once if it says nothing.
Repeated(extra) == [n \in 1..Unwrap(extra.quantity, 1) |-> extra.code]

\* The codes of the extras proper, or of everything else.
CodesOfType(extras, proper) ==
  LET chosen == Only(extras, {i \in DOMAIN extras : (extras[i].type = "Extra") = proper})
  IN  FlattenSeq([i \in DOMAIN chosen |-> Repeated(chosen[i])])

\* requestBody of booking.go: the trip and the group of the reference; extras
\* and everything else in a list each.
BookingDocument(params) ==
  [kind |-> "book",
   pickUp |-> params.supplierRateReference.pickupStation,
   from |-> params.supplierRateReference.pickupDate,
   dropOff |-> params.supplierRateReference.dropOffStation,
   until |-> params.supplierRateReference.dropOffDate,
   group |-> params.supplierRateReference.group,
   extras |-> CodesOfType(params.extras, TRUE),
   taxes |-> CodesOfType(params.extras, FALSE),
   driver |-> LatinCharacters(params.customer.lastName),
   country |-> params.customer.country,
   arrivalFlight |-> params.customer.flightNo]

\* makeRequest of cancel.go: the reference in the path of a DELETE.
CancelDocument(params) == [kind |-> "cancel", id |-> params.supplierBookingReference]

\* makeRequest of bookingstatus.go: the reference in the path of a GET.
StatusDocument(params) == [kind |-> "status", id |-> params.supplierBookingReference]
=============================================================================
