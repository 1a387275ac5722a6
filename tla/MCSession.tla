----------------------------- MODULE MCSession -----------------------------
EXTENDS Session

CONSTANTS a, b   \* the threads

\* A frame size below the usable, one below the service's, and a client of
\* another protocol, whose wish is above the service's.
MCOptions ==
  {[version |-> 1, max |-> 1], [version |-> 1, max |-> 2],
   [version |-> 2, max |-> 4]}

=============================================================================
