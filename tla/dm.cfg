CONSTANTS
  c1 = c1
  c2 = c2
  Users = {1, 2, 3}
  Conns <- MCConns
  Owner <- MCOwner
  Rooms = {}
  heart = heart
  fire = fire
  Emojis <- MCEmojis
  Contacts <- MCContacts
  Strangers = {3}
  MaxId = 2
  MaxReqs = 3
SPECIFICATION Spec
SYMMETRY Symmetry
VIEW View
INVARIANTS
  TypeOK
  OneThreadPerPair
  MembersOnly
  AnsweredIsDelivered
  ReadForAReason
  PeerSeesReaction
CHECK_DEADLOCK FALSE
