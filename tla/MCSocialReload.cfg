CONSTANTS
  Friends = {f1, f2, f3}
  FriendLimit = 1
  IgnoreLimit = 1
  Notes = {"short", "long"}
  utf8truncate <- MCutf8truncate
  EscapeString <- MCEscapeString
  MaxPendingWrites = 2

SPECIFICATION Spec
PROPERTIES
  ReloadPreservesList
