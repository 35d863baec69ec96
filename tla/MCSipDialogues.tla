--------------------------- MODULE MCSipDialogues ---------------------------
(* Instance of SipDialogues for TLC: the logs are bounded.                 *)
EXTENDS SipDialogues, FiniteSetsExt, TLC

CONSTANT MaxLogged   \* bound: events and responses logged over all calls

Logged == MapThenSumSet(LAMBDA c : Len(events[c]) + Len(responses[c]), CallIds)

BoundedNext == Next /\ Logged' <= MaxLogged

MCSpec == Init /\ [][BoundedNext]_vars

Symmetry == Permutations(CallIds) \cup Permutations(Offers)

=============================================================================
