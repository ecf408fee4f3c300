\* The switching of every driver and the rate of the compass: a fast delay, and one
\* that does not fit a short.
CONSTANTS
    Singles <- MCSingles
    Delays = {20, 40000}
    ShortMax = 32767
SPECIFICATION Spec
INVARIANTS
    TypeOK
    AccelOnWhileUsed
    SuccessIsLasting
    EnabledIsReachable
    RateIsWanted
