CONSTANTS
  Groups = {g1}
  CustomChannels = {}
  RaidGroups = {}
  ChannelIds = {1}
  MaxSockets = 1
  MaxInFlight = 2
  MaxRequestId = 1
  MaxConnectAttempts = 1
  ConfigEnabled = TRUE
  ReconnectDelay = 2
  RetryDelay = 1
  PingInterval = 1
  PongTimeout = 2
  MaxOutages = 1
  MaxDisables = 0
  MaxBacklog = 2
  NoSocket <- MCNoSocket

SPECIFICATION Spec
PROPERTIES
  KeepaliveDetectsDeadServer
  ImplementsConnection
