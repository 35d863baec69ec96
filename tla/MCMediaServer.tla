---------------------------- MODULE MCMediaServer ----------------------------
(* Instance of MediaServer for TLC: the two logs are bounded.               *)
EXTENDS MediaServer, TLC

CONSTANTS
  MaxSessions,  \* bound: sessions returned
  MaxStreams    \* bound: streams answered

BoundedNext ==
  /\ Next
  /\ Len(sessionLog') <= MaxSessions
  /\ Len(portLog') <= MaxStreams

MCSpec == Init /\ [][BoundedNext]_vars

Symmetry == Permutations(CallIds)
=============================================================================
