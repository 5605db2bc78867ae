CONSTANTS
  Players = {p1, p2}
  Leaders = {p1}
  Groups = {g1}
  ChatChannels = {n1}
  ChannelIds = {c1, c2}
  NoGroup = NoGroup
  NoChannel = NoChannel
  MaxOutages = 1

SYMMETRY MCSymmetry
SPECIFICATION Spec
INVARIANTS
  TypeOK
  VoicedOnlyInCurrent
  MicStateMirrored
  CustomMembersOnChat
  MembershipComplete
