------------------------------- MODULE MCWindows -------------------------------
\* Windows with two instances.  The first has two areas in opposite corners to
\* ask for, so that the rectangle around both is larger than either; the second
\* has two positions and two drawables.  Either may be confused with the other.
EXTENDS Windows, TLC

Corner(n) == [top |-> n, left |-> n, bottom |-> n + 1, right |-> n + 1]

CONSTANTS i1, i2, b1, b2, d1, d2

MCPosition == (i1 :> {b1}) @@ (i2 :> {b1, b2})
MCDrawable == (i1 :> {}) @@ (i2 :> {d1, d2})
MCArea     == (i1 :> {Corner(0), Corner(1)}) @@ (i2 :> {})
=============================================================================
