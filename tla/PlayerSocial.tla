----------------------------- MODULE PlayerSocial -----------------------------
(***************************************************************************)
(* One character's social list (PlayerSocial, SocialMgr.cpp): the friend, *)
(* ignore and mute flags per other character kept in m_playerSocialMap,   *)
(* the character_social table they are written to through asynchronous   *)
(* CharacterDatabase.PExecute statements, and the reload of the list by   *)
(* SocialMgr::LoadFromDB when the character logs in again.                *)
(***************************************************************************)
EXTENDS Integers, Sequences, FiniteSets, TLC

CONSTANTS
  Friends,          \* guids of the other characters the list may name
  FriendLimit,      \* SOCIALMGR_FRIEND_LIMIT (50)
  IgnoreLimit,      \* SOCIALMGR_IGNORE_LIMIT (25), also used for mutes
  Notes,            \* friend notes a client may send
  utf8truncate(_),  \* utf8truncate(note, 48)
  EscapeString(_),  \* CharacterDatabase.EscapeString: SQL quoting
  MaxPendingWrites  \* bound: statements queued and not yet executed

ASSUME /\ FriendLimit \in Nat \ {0} /\ IgnoreLimit \in Nat \ {0}
       /\ MaxPendingWrites \in Nat \ {0}

\* SocialFlag
SOCIAL_FLAG_FRIEND  == "FRIEND"
SOCIAL_FLAG_IGNORED == "IGNORED"
SOCIAL_FLAG_MUTED   == "MUTED"

\* notes as utf8truncate leaves them
StoredNotes == {""} \cup {utf8truncate(n) : n \in Notes}

\* the SQL server reads a quoted string literal back as the string quoted
SqlValue(s) == CHOOSE v \in StoredNotes : EscapeString(v) = s

VARIABLES
  loggedIn,  \* m_socialMap holds this character's PlayerSocial
  social,    \* m_playerSocialMap: guid -> [Flags, Note]
  db,        \* character_social rows of this character: friend -> [Flags, Note]
  dbQueue,   \* PExecute statements not yet run by the database worker
  saved      \* the list as it was when the character logged out

vars == <<loggedIn, social, db, dbQueue, saved>>

\* FriendInfo(flags, note)
FriendInfo(flags, note) == [Flags |-> flags, Note |-> note]

\* PlayerSocial::GetNumberOfSocialsWithFlag
GetNumberOfSocialsWithFlag(flag) ==
  Cardinality({f \in DOMAIN social : flag \in social[f].Flags})

\* the flag AddToSocialList / RemoveFromSocialList work on: mute wins
\* over ignore, ignore over friend
SocialFlagOf(ignore, mute) ==
  IF mute THEN SOCIAL_FLAG_MUTED
  ELSE IF ignore THEN SOCIAL_FLAG_IGNORED ELSE SOCIAL_FLAG_FRIEND

\* the client limit AddToSocialList checks: ignore is tested before mute
ListFull(ignore, mute) ==
  IF ignore THEN GetNumberOfSocialsWithFlag(SOCIAL_FLAG_IGNORED) >= IgnoreLimit
  ELSE IF mute THEN GetNumberOfSocialsWithFlag(SOCIAL_FLAG_MUTED) >= IgnoreLimit
  ELSE GetNumberOfSocialsWithFlag(SOCIAL_FLAG_FRIEND) >= FriendLimit

Stmt(kind, f, flag, note) == [kind |-> kind, f |-> f, flag |-> flag, note |-> note]

PExecute(st) == dbQueue' = Append(dbQueue, st)

\* PlayerSocial::HasIgnore
HasIgnore(f) == f \in DOMAIN social /\ SOCIAL_FLAG_IGNORED \in social[f].Flags

\* the three kinds of list change AddToSocialList and RemoveFromSocialList
\* take (friend, ignore, mute); the friend and ignore opcode handlers that
\* call them are not in the repository
Commands == {<<FALSE, FALSE>>, <<TRUE, FALSE>>, <<FALSE, TRUE>>}

-----------------------------------------------------------------------------
\* a new character: SocialMgr::GetDefault, an empty list
Init ==
  /\ loggedIn = TRUE
  /\ social = <<>>
  /\ db = <<>>
  /\ dbQueue = <<>>
  /\ saved = <<>>

\* Mutant: an INSERT whether or not the entry exists.
AddInsertsExisting(f, ignore, mute) ==
  LET flag == SocialFlagOf(ignore, mute) IN
  /\ loggedIn
  /\ Len(dbQueue) < MaxPendingWrites
  /\ ~ListFull(ignore, mute)
  /\ PExecute(Stmt("insert", f, flag, ""))
  /\ social' = IF f \in DOMAIN social
               THEN [social EXCEPT ![f].Flags = @ \cup {flag}]
               ELSE social @@ (f :> FriendInfo({flag}, ""))
  /\ UNCHANGED <<loggedIn, db, saved>>

\* PlayerSocial::AddToSocialList(friend_guid, ignore, mute): refused at the
\* client limit; else the flag is or-ed into an existing entry (UPDATE) or
\* a new entry is made (INSERT)
AddToSocialList(f, ignore, mute) ==
  LET flag == SocialFlagOf(ignore, mute) IN
  /\ loggedIn
  /\ Len(dbQueue) < MaxPendingWrites
  /\ ~ListFull(ignore, mute)
  /\ IF f \in DOMAIN social
     THEN /\ PExecute(Stmt("update_or", f, flag, ""))
          /\ social' = [social EXCEPT ![f].Flags = @ \cup {flag}]
     ELSE /\ PExecute(Stmt("insert", f, flag, ""))
          /\ social' = social @@ (f :> FriendInfo({flag}, ""))
  /\ UNCHANGED <<loggedIn, db, saved>>

\* Mutant: the entry is kept when its last flag is cleared.
RemoveWithoutErase(f, ignore, mute) ==
  LET flag == SocialFlagOf(ignore, mute) IN
  /\ loggedIn
  /\ Len(dbQueue) < MaxPendingWrites
  /\ f \in DOMAIN social
  /\ PExecute(Stmt("update_andnot", f, flag, ""))
  /\ social' = [social EXCEPT ![f].Flags = @ \ {flag}]
  /\ UNCHANGED <<loggedIn, db, saved>>

\* PlayerSocial::RemoveFromSocialList: the flag is cleared, and an entry
\* left without flags is erased (DELETE), else updated
RemoveFromSocialList(f, ignore, mute) ==
  LET flag == SocialFlagOf(ignore, mute)
      left == social[f].Flags \ {flag}
  IN
  /\ loggedIn
  /\ Len(dbQueue) < MaxPendingWrites
  /\ f \in DOMAIN social
  /\ IF left = {}
     THEN /\ PExecute(Stmt("delete", f, flag, ""))
          /\ social' = [g \in DOMAIN social \ {f} |-> social[g]]
     ELSE /\ PExecute(Stmt("update_andnot", f, flag, ""))
          /\ social' = [social EXCEPT ![f].Flags = left]
  /\ UNCHANGED <<loggedIn, db, saved>>

\* PlayerSocial::SetFriendNote: truncated to 48 characters, escaped in
\* place for the statement, and the escaped string kept in the map
SetFriendNote(f, n) ==
  LET note == EscapeString(utf8truncate(n)) IN
  /\ loggedIn
  /\ Len(dbQueue) < MaxPendingWrites
  /\ f \in DOMAIN social
  /\ PExecute(Stmt("note", f, "", note))
  /\ social' = [social EXCEPT ![f].Note = note]
  /\ UNCHANGED <<loggedIn, db, saved>>

\* WorldSession::HandleAddVoiceIgnoreOpcode for a name that resolves to
\* another character: FRIEND_MUTE_ALREADY if HasIgnore, else
\* AddToSocialList(guid, true), whose mute argument defaults to false
HandleAddVoiceIgnoreOpcode(f) ==
  /\ ~HasIgnore(f)
  /\ AddToSocialList(f, TRUE, FALSE)

\* WorldSession::HandleDelVoiceIgnoreOpcode: RemoveFromSocialList(guid, true)
HandleDelVoiceIgnoreOpcode(f) == RemoveFromSocialList(f, TRUE, FALSE)

\* the database worker runs the oldest statement on character_social
\* (primary key guid, friend: an INSERT of an existing row fails, an UPDATE
\* or DELETE of a missing row changes nothing)
ExecuteStatement ==
  /\ dbQueue # <<>>
  /\ LET st == Head(dbQueue)
         f  == st.f
     IN  db' = CASE st.kind = "insert" ->
                      IF f \in DOMAIN db THEN db
                      ELSE db @@ (f :> FriendInfo({st.flag}, ""))
                 [] st.kind = "delete" ->
                      [g \in DOMAIN db \ {f} |-> db[g]]
                 [] f \notin DOMAIN db -> db
                 [] st.kind = "update_or" ->
                      [db EXCEPT ![f].Flags = @ \cup {st.flag}]
                 [] st.kind = "update_andnot" ->
                      [db EXCEPT ![f].Flags = @ \ {st.flag}]
                 [] st.kind = "note" ->
                      [db EXCEPT ![f].Note = SqlValue(st.note)]
  /\ dbQueue' = Tail(dbQueue)
  /\ UNCHANGED <<loggedIn, social, saved>>

\* the character logs out: SocialMgr::RemovePlayerSocial drops its list
RemovePlayerSocial ==
  /\ loggedIn
  /\ loggedIn' = FALSE
  /\ saved' = social
  /\ social' = <<>>
  /\ UNCHANGED <<db, dbQueue>>

\* the character logs in: SocialMgr::LoadFromDB over the rows of
\* character_social (the login query runs after the statements queued
\* before it). Rows come in an order the query does not fix; the loop
\* stops once the map holds FriendLimit + IgnoreLimit entries.
LoadFromDB ==
  LET n == Cardinality(DOMAIN db)
      k == IF n < FriendLimit + IgnoreLimit THEN n ELSE FriendLimit + IgnoreLimit
  IN
  /\ ~loggedIn
  /\ dbQueue = <<>>
  /\ \E rows \in SUBSET DOMAIN db :
       /\ Cardinality(rows) = k
       /\ social' = [f \in rows |-> db[f]]
  /\ loggedIn' = TRUE
  /\ UNCHANGED <<db, dbQueue, saved>>

Next ==
  \/ \E f \in Friends, c \in Commands :
       AddToSocialList(f, c[1], c[2]) \/ RemoveFromSocialList(f, c[1], c[2])
  \/ \E f \in Friends, n \in Notes : SetFriendNote(f, n)
  \/ \E f \in Friends :
       HandleAddVoiceIgnoreOpcode(f) \/ HandleDelVoiceIgnoreOpcode(f)
  \/ ExecuteStatement
  \/ RemovePlayerSocial
  \/ LoadFromDB

Spec == Init /\ [][Next]_vars /\ WF_vars(ExecuteStatement)

-----------------------------------------------------------------------------
(* Properties.                                                             *)

SocialFlags == {SOCIAL_FLAG_FRIEND, SOCIAL_FLAG_IGNORED, SOCIAL_FLAG_MUTED}
Entries == [Flags : (SUBSET SocialFlags) \ {{}},
            Note  : StoredNotes \cup {EscapeString(v) : v \in StoredNotes}]

\* the type, and: no entry or row is left without a flag
TypeOK ==
  /\ loggedIn \in BOOLEAN
  /\ \A m \in {social, db, saved} :
       DOMAIN m \subseteq Friends /\ \A f \in DOMAIN m : m[f] \in Entries
  /\ Len(dbQueue) <= MaxPendingWrites

\* Once the database worker has run every queued statement, the
\* character_social rows are the entries of m_playerSocialMap with the
\* same flags: each branch of AddToSocialList and RemoveFromSocialList
\* (INSERT or UPDATE flags | x, DELETE at no flag or UPDATE flags & ~x)
\* writes the statement that mirrors its change of the map, over any
\* sequence of adds, removes and notes. The note is left out: SetFriendNote
\* keeps the escaped text in memory, so a note with a quote differs from
\* the row until the next LoadFromDB.
DbMirrorsMemory ==
  loggedIn /\ dbQueue = <<>> =>
    /\ DOMAIN db = DOMAIN social
    /\ \A f \in DOMAIN db : db[f].Flags = social[f].Flags

\* A character that logs out and in again gets back the list it had:
\* LoadFromDB restores every row the list was saved to.
ReloadPreservesList ==
  [][~loggedIn /\ loggedIn' => social' = saved]_vars
====
