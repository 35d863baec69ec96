CONSTANTS
  CallIds = {c1, c2, c3}
  Offers = {o1, o2}
  Answers = {a1}
  CSeqs = {1, 2}
  ChannelModulus = 2
  NoDialogue = NoDialogue
  MaxLogged = 9
SPECIFICATION MCSpec
SYMMETRY Symmetry
CHECK_DEADLOCK FALSE
INVARIANTS
  TypeOK
  EventsFollowProtocol
  ChannelsRouteToCalls
  AnswersNameFirstInvite
  UpcallsMatchResponses
PROPERTY DialoguesArePermanent
