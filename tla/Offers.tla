------------------------------- MODULE Offers -------------------------------
(***************************************************************************)
(* What a rates answer says of a vehicle and its price, the same for every *)
(* platform: the types of src/internal/schema/gen_schema.go that           *)
(* parseVehicle of each platform fills in, and how a client reads them.    *)
(*                                                                         *)
(* Amounts are integers.  The code computes with floating point numbers    *)
(* and rounds only when an amount is written (RoundedFloat.MarshalJSON);   *)
(* the amounts chosen here are such that percentages of them are exact.    *)
(***************************************************************************)
EXTENDS Integers, Sequences, SequencesExt

CONSTANT None   \* a nil pointer, and the result of a parse that fails

\* A document has the elements of its type: all that cannot be left out, with a
\* value, and of the others those that matter here.
Conforms(record, type) ==
  /\ DOMAIN record \subseteq type.required \cup type.optional
  /\ \A element \in type.required : element \in DOMAIN record /\ record[element] # None

\* Type of a pointer to something of a type.
OrNone(type) == type \cup {None}

\* Type ExtraOrFeeType: equipment, charges and fees, coverages.
ExtraOrFeeType == {"EQP", "VCP", "VCT"}

\* Type ExtraOrFee without name, excess, unit and quantity.
ExtraOrFee ==
  [type : ExtraOrFeeType, code : STRING, amount : Int,
   includedInRate : BOOLEAN, payLocal : BOOLEAN, mandatory : BOOLEAN]

Item(type, code, amount, included, payLocal, mandatory) ==
  [type |-> type, code |-> code, amount |-> amount,
   includedInRate |-> included, payLocal |-> payLocal, mandatory |-> mandatory]

\* Type Mileage.
Mileage ==
  [unlimited : BOOLEAN,
   distanceUnit : OrNone({"Km", "Mile"}),
   periodUnit : OrNone({"Day", "Hour", "RentalPeriod"})]

MileageWithoutUnits(unlimited) ==
  [unlimited |-> unlimited, distanceUnit |-> None, periodUnit |-> None]

\* Types VehicleTransmissionType, VehicleFuelType and VehicleDriveType.
Features(transmission, fuel, drive) ==
  [transmission |-> transmission, fuel |-> fuel, drive |-> drive]

VehicleFeatures ==
  [transmission : OrNone({"Automatic", "Manual"}),
   fuel : OrNone({"Diesel", "Electric", "Ethanol", "Gas", "Hybrid", "Hydrogen",
                  "MultiFuel", "Petrol"}),
   drive : OrNone({"AWD", "4WD"})]

\* Type Vehicle: its price, what is listed beside it, the reference a booking
\* is made with, its mileage and features.  What a reference is, SupplierRateReference,
\* the schema leaves to the platform.
VehicleOf(class, price, items, reference, mileage, features) ==
  [class |-> class, price |-> price, extrasAndFees |-> items,
   supplierRateReference |-> reference, mileage |-> mileage,
   features |-> features]

VehicleType(references) ==
  [class : STRING, price : Int, extrasAndFees : Seq(ExtraOrFee),
   supplierRateReference : references, mileage : Mileage, features : VehicleFeatures]

\* What fmt, strconv and the switch statements of the mapping packages do with
\* a value they do not know: no value.
OneOf(value, known) == IF value \in known THEN value ELSE None

\* The elements of a sequence at the positions in a set: SelectSeq, which the
\* proofs could know nothing of, with a set for the test.
Only(s, positions) ==
  LET upTo[n \in 0 .. Len(s)] ==
        IF n = 0 THEN <<>>
        ELSE IF n \in positions THEN Append(upTo[n - 1], s[n]) ELSE upTo[n - 1]
  IN  upTo[Len(s)]

Sum(amounts) ==
  LET upTo[n \in 0 .. Len(amounts)] == IF n = 0 THEN 0 ELSE upTo[n - 1] + amounts[n]
  IN  upTo[Len(amounts)]

AmountsOf(items, Test(_)) ==
  Sum([i \in DOMAIN items |-> IF Test(items[i]) THEN items[i].amount ELSE 0])

-----------------------------------------------------------------------------
\* How the booking site reads a vehicle: the customer pays its price and every
\* mandatory item that the price does not include, some of it at the counter.
Extra(v) ==
  AmountsOf(v.extrasAndFees, LAMBDA e : e.mandatory /\ ~e.includedInRate)

Total(v) == v.price + Extra(v)
=============================================================================
