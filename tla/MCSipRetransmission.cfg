CONSTANTS
  CallIds = {c1, c2, c3}
  Offers = {o1, o2}
  Answers = {a1}
  CSeqs = {1, 2}
  ChannelModulus = 2
  NoDialogue = NoDialogue
  MaxLogged = 6
SPECIFICATION MCSpec
CHECK_DEADLOCK FALSE
INVARIANT RetransmissionsIgnored
