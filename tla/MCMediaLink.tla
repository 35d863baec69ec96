---------------------------- MODULE MCMediaLink ----------------------------
(* Instance of MediaLink for TLC: the bounds are on requests and on what     *)
(* operators do.                                                             *)
EXTENDS MediaLink

CONSTANTS
  MaxAsked,   \* bound: requests, after which only REGISTER is posted
  MaxLives,   \* bound: lives of the core process
  MaxStops    \* bound: ends of the media process

SomeNumbers == 1 .. MaxAsked

VARIABLE stops  \* how often the media process has ended

BoundedNext ==
  /\ Next
  /\ stops' = IF media /\ ~media' THEN stops + 1 ELSE stops
  /\ PostRequest => Len(asked') <= MaxAsked
  /\ core'.life <= MaxLives
  /\ stops' <= MaxStops

mcVars == <<vars, stops>>

\* Both loops serve what is ready, and the timer fires while it runs.
Fairness ==
  /\ WF_mcVars(BoundedNext /\ TryConnect)
  /\ WF_mcVars(BoundedNext /\ (OnConnect \/ OnConnectFailed))
  /\ \A l \in 1 .. MaxLives + MaxStops :
       /\ WF_mcVars(BoundedNext /\ l \in DOMAIN links /\ MediaOnConnect(l))
       /\ WF_mcVars(BoundedNext /\ l \in DOMAIN links /\ (ReadByMedia(l) \/ MediaReadEnd(l)))
       /\ WF_mcVars(BoundedNext /\ l \in DOMAIN links /\ (ReadBy(l) \/ CoreReadEnd(l)))

MCInit == Init /\ stops = 0

MCFairSpec == MCInit /\ [][BoundedNext]_mcVars /\ Fairness
=============================================================================
