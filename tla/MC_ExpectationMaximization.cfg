\* Up to three similar flights with 1 or 2 bookings, censored or not, and
\* three E/M rounds.  The loop returns after its last round, so its final
\* state has no successor.
CONSTANTS
    MaxObservations = 3
    BookingValues = {1, 2}
    MaxValue = 3
    MaxIterations = 3
    Tolerance = 1
    Gcd <- MCGcd
    Total <- MCTotal
    MinUncensored = 0

SPECIFICATION Spec

CHECK_DEADLOCK FALSE

INVARIANT
    CensoredNumbersAboveBooking

