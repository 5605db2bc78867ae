CONSTANTS
  Groups = {g1}
  CustomChannels = {c1}
  RaidGroups = {g1}
  ChannelIds = {1}
  MaxSockets = 1
  MaxInFlight = 2
  MaxRequestId = 1
  MaxConnectAttempts = 1
  ConfigEnabled = TRUE
  ReconnectDelay = 2
  RetryDelay = 1
  PingInterval = 1
  PongTimeout = 2
  MaxOutages = 1
  MaxDisables = 1
  MaxBacklog = 2
  NoSocket <- MCNoSocket

SPECIFICATION Spec
INVARIANTS
  TypeOK
  NoDuplicateChannel
  RequestsAnswerable
