CONSTANTS
  Friends = {f1, f2}
  FriendLimit = 1
  IgnoreLimit = 1
  Notes = {"long", "it's"}
  utf8truncate <- MCutf8truncate
  EscapeString <- MCEscapeString
  MaxPendingWrites = 2

SPECIFICATION Spec
INVARIANTS
  TypeOK
  DbMirrorsMemory
