---------------------------- MODULE MCHubProcess ----------------------------
\* Bounds for checking HubProcess: two requests of Hertz, which meet in the
\* extras' cache and the factory, or of two other platforms.  ProfitMax takes the
\* same steps as Booking.com, AnyRent the same as Rently.
EXTENDS HubProcess, TLC

CONSTANTS q1, q2

MCMixes == {q1 :> "hertz" @@ q2 :> "hertz",
            q1 :> "bookingcom" @@ q2 :> "rently"}
=============================================================================
