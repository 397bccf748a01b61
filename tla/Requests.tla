------------------------------ MODULE Requests ------------------------------
(***************************************************************************)
(* What a client of the hub sends: the request types of                    *)
(* src/internal/schema/gen_schema.go as far as the documents for the       *)
(* suppliers are made from them, and the conversions of                    *)
(* src/internal/tools/converting.                                          *)
(*                                                                         *)
(* A station, a name and a date are members of small sets.  from and until *)
(* are the date and time of pick-up and drop-off, in hours.                *)
(***************************************************************************)
EXTENDS Offers

CONSTANT Latin   \* from a name with diacritics to the name without

\* LatinCharacters: every character of the table becomes its replacement, any
\* other stays.
LatinCharacters(name) == IF name \in DOMAIN Latin THEN Latin[name] ELSE name

\* Unwrap of pointers.go: what the pointer points to, or the zero value.
Unwrap(value, zero) == IF value = None THEN zero ELSE value

HoursPerDay == 24

Day(time) == time \div HoursPerDay

\* RentalDays comes with the request; the client counts days begun.
RentalDays(trip) == Day(trip.until - trip.from + HoursPerDay - 1)

\* Types of what a client knows of a rental and of a customer.
Rental ==
  [pickUp : STRING, dropOff : STRING, from : Int, until : Int, country : STRING,
   branchExtras : Seq(STRING)]

Customer ==
  [lastName : STRING, country : STRING, phone : OrNone(STRING), brokerReference : STRING,
   airlineCode : OrNone(STRING), flightNo : OrNone(STRING), flightNumber : OrNone(STRING),
   supplierSpecificInformation : OrNone([hertzBillingNumber : OrNone(STRING)])]

\* Type RatesRequestParams.  booking is the booking to be modified, or None.
RatesRequest(trip, country, paymentType, booking) ==
  [pickUp |-> trip.pickUp, dropOff |-> trip.dropOff, from |-> trip.from,
   until |-> trip.until, rentalDays |-> RentalDays(trip),
   pickUpCountry |-> trip.country, country |-> country, paymentType |-> paymentType,
   branchExtras |-> trip.branchExtras, booking |-> booking]

\* Type ExistingBooking, as the client fills it in for the booking it made.
ExistingBooking(reference, customer) ==
  [supplierBookingReference |-> reference, lastName |-> customer.lastName,
   phone |-> customer.phone, reservNumber |-> customer.brokerReference]

\* Type BookingRequestParams: the trip of the search, the vehicle chosen and the
\* extras ordered with it, sequences of a code, a type and a quantity.
BookingRequest(trip, customer, vehicle, extras) ==
  [pickUp |-> trip.pickUp, dropOff |-> trip.dropOff, from |-> trip.from,
   until |-> trip.until, customer |-> customer, extras |-> extras,
   rentalDays |-> RentalDays(trip), vehicleClass |-> vehicle.class,
   supplierRateReference |-> vehicle.supplierRateReference]

\* Type ModifyRequestParams: the same and the booking's reference.
ModifyRequest(trip, customer, vehicle, extras, reference) ==
  [pickUp |-> trip.pickUp, dropOff |-> trip.dropOff, from |-> trip.from,
   until |-> trip.until, customer |-> customer, extras |-> extras,
   rentalDays |-> RentalDays(trip), vehicleClass |-> vehicle.class,
   supplierRateReference |-> vehicle.supplierRateReference,
   supplierBookingReference |-> reference]

\* Type BookingExtraOrFee; a quantity is optional.  The schema lets it be negative,
\* an order does not.
BookingExtraOrFee == [code : STRING, type : STRING, quantity : OrNone(Nat)]

BookingExtra(code, type, quantity) ==
  [code |-> code, type |-> type, quantity |-> quantity]

\* Type CancelRequestParams and BookingStatusRequestParams: the SupplierData of
\* the booking's answer comes back as part of the configuration.
CancelRequest(reference, customer, supplierData) ==
  [supplierBookingReference |-> reference, reservNumber |-> customer.brokerReference,
   brokerReference |-> customer.brokerReference, supplierData |-> supplierData]
=============================================================================
