------------------------------- MODULE MCCore -------------------------------
(* Instance of Core for TLC: what the environment sends, and so every log,   *)
(* is bounded.                                                               *)
EXTENDS Core, FiniteSetsExt, TLC

CONSTANTS
  MaxLogged,    \* bound: SIP events and responses logged over all calls
  MaxRequests,  \* bound: requests of controllers
  MaxClosed     \* bound: connections controllers close

BoundedNext ==
  /\ Next
  /\ MapThenSumSet(LAMBDA c : Len(events'[c]) + Len(responses'[c]), CallIds) <= MaxLogged
  /\ Len(controlLog') <= MaxRequests
  /\ Cardinality(closed') <= MaxClosed

MCSpec == Init /\ [][BoundedNext]_vars

Symmetry == Permutations(CallIds) \cup Permutations(Streams)
=============================================================================
