---------------------------- MODULE BookingDesk ----------------------------
(***************************************************************************)
(* What /booking, /cancel and /modify promise a client, whatever becomes   *)
(* of the calls between the hub and the supplier (SupplierBookings         *)
(* implements it, src/internal/platform): a call names a booking that the  *)
(* client has been told of; the supplier acts once on it, while the client *)
(* waits, or later if the client was told of an error; done is told only   *)
(* of what is done; and who is told of no error knows his booking, if      *)
(* there is one.                                                           *)
(***************************************************************************)
CONSTANTS Call, Booking, None

VARIABLES
  phase,    \* of each call
  op,       \* its operation
  target,   \* the booking it names
  told,     \* its answer
  held,     \* state of each booking
  madeBy,   \* the call that made it
  modified  \* the bookings that have been modified

asked == <<op, target>>
books == <<held, madeBy, modified>>
vars == <<phase, asked, told, books>>

Operation == {"booking", "cancel", "status", "modify"}

Notice == [done : BOOLEAN, ref : Booking \cup {None}, errors : BOOLEAN]

Init ==
  /\ phase = [c \in Call |-> "new"]
  /\ op = [c \in Call |-> "none"]
  /\ target = [c \in Call |-> None]
  /\ told = [c \in Call |-> None]
  /\ held = [b \in Booking |-> "unmade"]
  /\ madeBy = [b \in Booking |-> None]
  /\ modified = {}

\* The bookings a client can name: those some answer has named.
Known == {b \in Booking : \E c \in Call : phase[c] = "closed" /\ told[c].ref = b}

Ask(c, o, b) ==
  /\ phase[c] = "new"
  /\ IF o = "booking" THEN b = None ELSE b \in Known
  /\ phase' = [phase EXCEPT ![c] = "open"]
  /\ op' = [op EXCEPT ![c] = o]
  /\ target' = [target EXCEPT ![c] = b]
  /\ UNCHANGED <<told, books>>

\* The supplier may still act for a call: its client waits, or has been warned.
Pending(c) == phase[c] = "open" \/ (phase[c] = "closed" /\ told[c].errors)

Book(c, b) ==
  /\ Pending(c) /\ op[c] = "booking"
  /\ \A other \in Booking : madeBy[other] # c
  /\ held[b] = "unmade"
  /\ held' = [held EXCEPT ![b] = "live"]
  /\ madeBy' = [madeBy EXCEPT ![b] = c]
  /\ UNCHANGED <<phase, asked, told, modified>>

Cancel(c) ==
  /\ Pending(c) /\ op[c] = "cancel"
  /\ held[target[c]] = "live"
  /\ held' = [held EXCEPT ![target[c]] = "cancelled"]
  /\ UNCHANGED <<phase, asked, told, madeBy, modified>>

Modify(c) ==
  /\ Pending(c) /\ op[c] = "modify"
  /\ held[target[c]] = "live"
  /\ modified' = modified \cup {target[c]}
  /\ UNCHANGED <<phase, asked, told, held, madeBy>>

\* What a call asks for has come about, under this reference if it is a booking.
IsDone(c, ref) ==
  /\ op[c] = "booking" => ref \in Booking /\ madeBy[ref] = c
  /\ op[c] = "cancel" => held[target[c]] = "cancelled"
  /\ op[c] = "modify" => target[c] \in modified

Tell(c, t) ==
  /\ phase[c] = "open"
  /\ t.done => IsDone(c, t.ref)
  /\ t.errors \/ \A b \in Booking : madeBy[b] = c => t.ref = b
  /\ phase' = [phase EXCEPT ![c] = "closed"]
  /\ told' = [told EXCEPT ![c] = t]
  /\ UNCHANGED <<asked, books>>

Next ==
  \E c \in Call :
    \/ \E o \in Operation, b \in Booking \cup {None} : Ask(c, o, b)
    \/ \E b \in Booking : Book(c, b)
    \/ Cancel(c) \/ Modify(c)
    \/ \E t \in Notice : Tell(c, t)

Spec == Init /\ [][Next]_vars
=============================================================================
