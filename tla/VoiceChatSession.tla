-------------------------- MODULE VoiceChatSession --------------------------
(***************************************************************************)
(* The session side of voice chat: the WorldSession voice handlers         *)
(* (VoiceChatHandler.cpp), the members of group and raid voice channels    *)
(* with their VoiceChatMember flags, and the registry operations of        *)
(* VoiceChatMgr they call. The connection is reduced to whether m_socket   *)
(* is set (VoiceChatMgr models it in full): losing it runs                 *)
(* SocketDisconnected, getting one back runs RestoreVoiceChatChannels.     *)
(* The voice server hands out channel ids it does not have in use; a       *)
(* server that restarted has none in use.                                  *)
(*                                                                         *)
(* VoiceChatChannel.cpp is not in the repository: its member operations   *)
(* are modelled from the spec (4.4), on the VoiceChatMember flags of       *)
(* VoiceChatDefines.h.                                                     *)
(***************************************************************************)
EXTENDS Naturals, FiniteSets, TLC

CONSTANTS
  Players,     \* characters online, each with a WorldSession
  ChatChannels, \* names of chat channels that may get voice (one team)
  Groups,      \* group ids (a disbanded group's id is never reused)
  ChannelIds,  \* channel ids the voice server may hand out
  Leaders,     \* players who are leader or assistant of the group they are in
  NoGroup,     \* Player::GetGroup() is null
  NoChannel,   \* GetCurrentVoiceChannelId() == 0
  MaxOutages   \* bound: times m_socket may be lost

ASSUME /\ Leaders \subseteq Players
       /\ NoGroup \notin Groups /\ NoChannel \notin ChannelIds
       /\ Groups \cap ChatChannels = {}
       /\ MaxOutages \in Nat

\* VoiceChatMemberFlags
VOICECHAT_MEMBER_FLAG_ENABLED     == "enabled"
VOICECHAT_MEMBER_FLAG_FORCE_MUTED == "force_muted"
VOICECHAT_MEMBER_FLAG_MIC_MUTED   == "mic_muted"
VOICECHAT_MEMBER_FLAG_VOICED      == "voiced"
MemberFlags == {VOICECHAT_MEMBER_FLAG_ENABLED, VOICECHAT_MEMBER_FLAG_FORCE_MUTED,
                VOICECHAT_MEMBER_FLAG_MIC_MUTED, VOICECHAT_MEMBER_FLAG_VOICED}

VARIABLES
  socket,        \* m_socket is set (CanUseVoiceChat)
  requests,      \* m_requests, as the (type, groupid) each one is for
  channels,      \* m_VoiceChatChannels: id -> [type, groupid, members]
  srvIds,        \* channel ids the voice server has in use
  playerGroup,   \* Player::GetGroup()
  gone,          \* disbanded groups
  raids,         \* Group::isRaidGroup()
  voiceEnabled,  \* WorldSession::m_voiceEnabled
  micEnabled,    \* WorldSession::m_micEnabled
  curChannel,    \* WorldSession::GetCurrentVoiceChannelId()
  onChat,        \* the chat channels a player is on (Channel::IsOn)
  voiceOn,       \* per chat channel: Channel::IsVoiceEnabled
  outages

vars == <<socket, requests, channels, srvIds, playerGroup, gone, raids,
          voiceEnabled, micEnabled, curChannel, onChat, voiceOn, outages>>

-----------------------------------------------------------------------------
(* VoiceChatChannel member operations (spec 4.4): adding is idempotent and *)
(* only admits a session with voice enabled; a member starts ENABLED,     *)
(* mic-muted when its mic is off; the others set or clear one flag of a   *)
(* member and leave non-members alone. ch.members maps members to flags.  *)

\* the flags of a new VoiceChatMember for a session whose mic is on or off
NewMemberFlags(mic) ==
  {VOICECHAT_MEMBER_FLAG_ENABLED} \cup
    (IF mic THEN {} ELSE {VOICECHAT_MEMBER_FLAG_MIC_MUTED})

SetFlag(ch, p, f, on) ==
  IF p \in DOMAIN ch.members
  THEN [ch EXCEPT !.members[p] = IF on THEN @ \cup {f} ELSE @ \ {f}]
  ELSE ch

AddVoiceChatMember(ch, p, ve, mic) ==
  IF p \in DOMAIN ch.members \/ ~ve THEN ch
  ELSE [ch EXCEPT !.members = @ @@ (p :> NewMemberFlags(mic))]

\* Mutant: a member that leaves is disabled instead of erased.
RemoveDisablesMember(ch, p) ==
  IF p \in DOMAIN ch.members
  THEN [ch EXCEPT !.members[p] = @ \ {VOICECHAT_MEMBER_FLAG_ENABLED}]
  ELSE ch

RemoveVoiceChatMember(ch, p) ==
  [ch EXCEPT !.members = [q \in DOMAIN @ \ {p} |-> @[q]]]

VoiceMember(ch, p)      == SetFlag(ch, p, VOICECHAT_MEMBER_FLAG_VOICED, TRUE)
DevoiceMember(ch, p)    == SetFlag(ch, p, VOICECHAT_MEMBER_FLAG_VOICED, FALSE)
MuteMember(ch, p)       == SetFlag(ch, p, VOICECHAT_MEMBER_FLAG_MIC_MUTED, TRUE)
UnmuteMember(ch, p)     == SetFlag(ch, p, VOICECHAT_MEMBER_FLAG_MIC_MUTED, FALSE)
ForceMuteMember(ch, p)  == SetFlag(ch, p, VOICECHAT_MEMBER_FLAG_FORCE_MUTED, TRUE)
ForceUnmuteMember(ch, p) == SetFlag(ch, p, VOICECHAT_MEMBER_FLAG_FORCE_MUTED, FALSE)

\* VoiceChatChannel::AddMembersAfterCreate: the members of the group, or
\* of the chat channel, whose session has voice enabled
AddMembersAfterCreate(ch) ==
  LET onIt(q) == IF ch.type = "custom" THEN ch.groupid \in onChat[q]
                 ELSE playerGroup[q] = ch.groupid
  IN  [ch EXCEPT !.members =
         [p \in {q \in Players : onIt(q) /\ voiceEnabled[q]} |->
            NewMemberFlags(micEnabled[p])]]

-----------------------------------------------------------------------------
(* Registry operations of VoiceChatMgr, as functions of the registry and   *)
(* the requests they start from, so that a handler can chain them.        *)

\* Group::isRaidGroup: which of the two lookups the callers use
GroupKind(g) == IF g \in raids THEN "raid" ELSE "group"

\* GetGroupVoiceChatChannel / GetRaidVoiceChatChannel, and with t = "custom"
\* GetCustomVoiceChatChannel (a custom channel's groupid holds its name)
KindIds(chs, t, g) == {c \in DOMAIN chs : chs[c].type = t /\ chs[c].groupid = g}

\* the channel the map iteration finds first
First(ids) == CHOOSE c \in ids : TRUE

\* VoiceChatMgr::GetVoiceChatChannel(GetCurrentVoiceChannelId()), or none
Current(p) == IF curChannel[p] \in DOMAIN channels THEN curChannel[p] ELSE NoChannel

\* VoiceChatMgr::CreateVoiceChatChannel: nothing without m_socket or while a
\* request for the same channel is pending (m_requests is a set of keys)
CreateVoiceChatChannel(reqs, t, g) ==
  IF socket THEN reqs \cup {[type |-> t, groupid |-> g]} ELSE reqs

\* AddToGroupVoiceChatChannel / AddToRaidVoiceChatChannel(guid, g): the
\* member is added to g's channel of its kind; with no such channel,
\* CreateGroup/RaidVoiceChatChannel asks for one instead. Split into its
\* effect on the registry and on the requests.
AddToKindChannels(chs, p, g, ve, mic) ==
  LET ids == KindIds(chs, GroupKind(g), g)
  IN  IF g = NoGroup \/ ids = {} THEN chs
      ELSE [chs EXCEPT ![First(ids)] = AddVoiceChatMember(@, p, ve, mic)]

AddToKindRequests(chs, reqs, g) ==
  IF g # NoGroup /\ KindIds(chs, GroupKind(g), g) = {}
  THEN CreateVoiceChatChannel(reqs, GroupKind(g), g) ELSE reqs

\* VoiceChatMgr::GetPossibleVoiceChatChannels: the custom channels of the
\* chat channels p is on whose voice is switched on
PossibleIds(chs, p) ==
  {c \in DOMAIN chs : /\ chs[c].type = "custom"
                      /\ chs[c].groupid \in onChat[p]
                      /\ voiceOn[chs[c].groupid]}

\* Mutant: the possible channels are taken without the Channel::IsOn check.
JoinAvailableIgnoresChat(chs, p, ve, mic) ==
  LET chg == AddToKindChannels(chs, p, playerGroup[p], ve, mic)
  IN  [c \in DOMAIN chg |->
         IF chg[c].type = "custom" /\ voiceOn[chg[c].groupid]
         THEN AddVoiceChatMember(chg[c], p, ve, mic) ELSE chg[c]]

\* the registry part of VoiceChatMgr::JoinAvailableVoiceChatChannels: the
\* group's channel of its kind, then every possible custom channel
JoinAvailableChannels(chs, p, ve, mic) ==
  LET chg == AddToKindChannels(chs, p, playerGroup[p], ve, mic)
  IN  [c \in DOMAIN chg |->
         IF c \in PossibleIds(chg, p) THEN AddVoiceChatMember(chg[c], p, ve, mic)
         ELSE chg[c]]

\* VoiceChatMgr::CreateCustomVoiceChatChannel: unless the lookup finds one
CreateCustomVoiceChatChannel(chs, reqs, n) ==
  IF KindIds(chs, "custom", n) # {} THEN reqs
  ELSE CreateVoiceChatChannel(reqs, "custom", n)

\* VoiceChatMgr::AddToCustomVoiceChatChannel, its effect on the registry
\* (with no channel it is CreateCustomVoiceChatChannel)
AddToCustomVoiceChatChannel(chs, p, n, ve, mic) ==
  LET ids == KindIds(chs, "custom", n)
  IN  IF ids = {} THEN chs
      ELSE [chs EXCEPT ![First(ids)] = AddVoiceChatMember(@, p, ve, mic)]

\* VoiceChatMgr::RemoveFromCustomVoiceChatChannel
RemoveFromCustomVoiceChatChannel(chs, p, n) ==
  LET ids == KindIds(chs, "custom", n)
  IN  IF ids = {} THEN chs
      ELSE [chs EXCEPT ![First(ids)] = RemoveVoiceChatMember(@, p)]

\* RemoveFromGroupVoiceChatChannel / RemoveFromRaidVoiceChatChannel
RemoveFromKindChannels(chs, p, g) ==
  LET ids == KindIds(chs, GroupKind(g), g)
  IN  IF g = NoGroup \/ ids = {} THEN chs
      ELSE [chs EXCEPT ![First(ids)] = RemoveVoiceChatMember(@, p)]

\* VoiceChatMgr::RemoveFromVoiceChatChannels
RemoveFromVoiceChatChannels(chs, p) ==
  [c \in DOMAIN chs |-> RemoveVoiceChatMember(chs[c], p)]

\* VoiceChatMgr::DeleteVoiceChatChannel: a custom channel switches its chat
\* channel's voice off; unregistered; with m_socket set DELETE_CHANNEL
\* tells the server, which frees the id
DeleteVoiceChatChannel(cid) ==
  /\ voiceOn' = IF channels[cid].type = "custom"
                THEN [voiceOn EXCEPT ![channels[cid].groupid] = FALSE] ELSE voiceOn
  /\ channels' = [c \in DOMAIN channels \ {cid} |-> channels[c]]
  /\ srvIds' = IF socket THEN srvIds \ {cid} ELSE srvIds

\* DeleteGroupVoiceChatChannel / DeleteRaidVoiceChatChannel
DeleteKindVoiceChatChannel(t, g) ==
  IF KindIds(channels, t, g) = {} THEN UNCHANGED <<channels, srvIds, voiceOn>>
  ELSE DeleteVoiceChatChannel(First(KindIds(channels, t, g)))

\* VoiceChatMgr::ConvertToRaidChannel
ConvertToRaidChannel(g) ==
  [c \in DOMAIN channels |->
     IF c \in KindIds(channels, "group", g)
     THEN [channels[c] EXCEPT !.type = "raid"] ELSE channels[c]]

-----------------------------------------------------------------------------
Init ==
  /\ socket = TRUE
  /\ requests = {}
  /\ channels = [c \in {} |-> {}]
  /\ srvIds = {}
  /\ playerGroup = [p \in Players |-> NoGroup]
  /\ gone = {}
  /\ raids = {}
  /\ voiceEnabled = [p \in Players |-> FALSE]
  /\ micEnabled = [p \in Players |-> FALSE]
  /\ curChannel = [p \in Players |-> NoChannel]
  /\ onChat = [p \in Players |-> {}]
  /\ voiceOn = [n \in ChatChannels |-> FALSE]
  /\ outages = 0

-----------------------------------------------------------------------------
(* WorldSession handlers. The player is in the world and CanSeeVoiceChat   *)
(* holds (the manager is enabled and not DISCONNECTED).                    *)

\* Mutant: the mic part of the handler reads the session's old setting.
VoiceSessionEnableOldMic(p, v, m) ==
  LET join == v /\ ~voiceEnabled[p]
      ch1  == IF ~v THEN RemoveFromVoiceChatChannels(channels, p)
              ELSE IF join /\ socket
                   THEN JoinAvailableChannels(channels, p, v, m)
                   ELSE channels
      cur1 == IF ~v THEN NoChannel ELSE curChannel[p]
      c    == IF cur1 \in DOMAIN ch1 THEN cur1 ELSE NoChannel
  IN  /\ requests' = IF join /\ socket
                     THEN AddToKindRequests(channels, requests, playerGroup[p])
                     ELSE requests
      /\ channels' = IF c = NoChannel THEN ch1
                     ELSE [ch1 EXCEPT ![c] = IF micEnabled[p] THEN UnmuteMember(@, p)
                                                              ELSE MuteMember(@, p)]
      /\ curChannel' = [curChannel EXCEPT ![p] = cur1]
      /\ voiceEnabled' = [voiceEnabled EXCEPT ![p] = v]
      /\ micEnabled' = [micEnabled EXCEPT ![p] = m]
      /\ UNCHANGED <<socket, srvIds, playerGroup, gone, raids, onChat, voiceOn, outages>>

\* Mutant: voice switched off without leaving the channels.
VoiceSessionEnableStaysOn(p, v, m) ==
  LET join == v /\ ~voiceEnabled[p]
      ch1  == IF join /\ socket
              THEN JoinAvailableChannels(channels, p, v, m)
              ELSE channels
      cur1 == IF ~v THEN NoChannel ELSE curChannel[p]
      c    == IF cur1 \in DOMAIN ch1 THEN cur1 ELSE NoChannel
  IN  /\ requests' = IF join /\ socket
                     THEN AddToKindRequests(channels, requests, playerGroup[p])
                     ELSE requests
      /\ channels' = IF c = NoChannel THEN ch1
                     ELSE [ch1 EXCEPT ![c] = IF m THEN UnmuteMember(@, p)
                                                  ELSE MuteMember(@, p)]
      /\ curChannel' = [curChannel EXCEPT ![p] = cur1]
      /\ voiceEnabled' = [voiceEnabled EXCEPT ![p] = v]
      /\ micEnabled' = [micEnabled EXCEPT ![p] = m]
      /\ UNCHANGED <<socket, srvIds, playerGroup, gone, raids, onChat, voiceOn, outages>>

\* WorldSession::HandleVoiceSessionEnableOpcode(voiceEnabled v, micEnabled m).
\* Voice off: the player leaves every voice channel and has no current one.
\* Voice on for a session that had it off: the flags are set first, then
\* JoinAvailableVoiceChatChannels (nothing without m_socket) adds the
\* player to the group's channel or asks for one, and adds it to the
\* custom channels of its chat channels with voice on. Then the current channel,
\* if there still is one, mutes or unmutes the player, and the flags are
\* stored.
VoiceSessionEnable(p, v, m) ==
  LET join == v /\ ~voiceEnabled[p]
      ch1  == IF ~v THEN RemoveFromVoiceChatChannels(channels, p)
              ELSE IF join /\ socket
                   THEN JoinAvailableChannels(channels, p, v, m)
                   ELSE channels
      cur1 == IF ~v THEN NoChannel ELSE curChannel[p]
      c    == IF cur1 \in DOMAIN ch1 THEN cur1 ELSE NoChannel
  IN  /\ requests' = IF join /\ socket
                     THEN AddToKindRequests(channels, requests, playerGroup[p])
                     ELSE requests
      /\ channels' = IF c = NoChannel THEN ch1
                     ELSE [ch1 EXCEPT ![c] = IF m THEN UnmuteMember(@, p)
                                                  ELSE MuteMember(@, p)]
      /\ curChannel' = [curChannel EXCEPT ![p] = cur1]
      /\ voiceEnabled' = [voiceEnabled EXCEPT ![p] = v]
      /\ micEnabled' = [micEnabled EXCEPT ![p] = m]
      /\ UNCHANGED <<socket, srvIds, playerGroup, gone, raids, onChat, voiceOn, outages>>

\* The part of HandleSetActiveVoiceChannel shared by its channel types: the
\* player selects channel v. The same channel as the current one only
\* updates the roster; otherwise the current channel devoices the player,
\* v adds it and, if it is on v, voices it, mutes or unmutes it by its mic
\* setting and becomes the current channel.
SelectVoiceChannel(p, v) ==
  LET cur == Current(p)
      ch1 == IF cur = NoChannel THEN channels
             ELSE [channels EXCEPT ![cur] = DevoiceMember(@, p)]
      ch2 == [ch1 EXCEPT ![v] = AddVoiceChatMember(@, p, voiceEnabled[p], micEnabled[p])]
      on  == p \in DOMAIN ch2[v].members
  IN  /\ cur # v
      /\ channels' =
           IF on THEN [ch2 EXCEPT ![v] = LET vc == VoiceMember(@, p)
                                         IN  IF micEnabled[p] THEN UnmuteMember(vc, p)
                                                              ELSE MuteMember(vc, p)]
           ELSE ch2
      /\ curChannel' = IF on THEN [curChannel EXCEPT ![p] = v] ELSE curChannel

\* WorldSession::HandleSetActiveVoiceChannel with VOICECHAT_CHANNEL_CUSTOM
\* and chat channel n (p must be on n and n's voice on; then n's custom
\* channel is selected), with VOICECHAT_CHANNEL_GROUP or _RAID (both select
\* the channel of the player's group by its kind), and with
\* VOICECHAT_CHANNEL_NONE (the current channel devoices the player and the
\* current id is cleared). Needs CanUseVoiceChat.
SetActiveVoiceChannel(p, t, n) ==
  /\ socket
  /\ \/ /\ t = "custom"
        /\ n \in onChat[p]
        /\ voiceOn[n]
        /\ KindIds(channels, "custom", n) # {}
        /\ SelectVoiceChannel(p, First(KindIds(channels, "custom", n)))
     \/ /\ t = "group"
        /\ playerGroup[p] # NoGroup
        /\ LET ids == KindIds(channels, GroupKind(playerGroup[p]), playerGroup[p])
           IN  /\ ids # {}
               /\ SelectVoiceChannel(p, First(ids))
     \/ /\ t = "none"
        /\ channels' = IF Current(p) = NoChannel THEN channels
                       ELSE [channels EXCEPT ![Current(p)] = DevoiceMember(@, p)]
        /\ curChannel' = [curChannel EXCEPT ![p] = NoChannel]
  /\ UNCHANGED <<socket, requests, srvIds, playerGroup, gone, raids,
                 voiceEnabled, micEnabled, onChat, voiceOn, outages>>

\* WorldSession::HandleChannelVoiceOnOpcode for chat channel n (not LFG or
\* constant): nothing if its voice is already on; else voice is switched
\* on and CreateCustomVoiceChatChannel asks for its voice channel. Needs
\* CanUseVoiceChat; who sends it is not checked.
HandleChannelVoiceOnOpcode(n) ==
  /\ socket
  /\ ~voiceOn[n]
  /\ voiceOn' = [voiceOn EXCEPT ![n] = TRUE]
  /\ requests' = CreateCustomVoiceChatChannel(channels, requests, n)
  /\ UNCHANGED <<socket, channels, srvIds, playerGroup, gone, raids,
                 voiceEnabled, micEnabled, curChannel, onChat, outages>>

\* WorldSession::HandleSilenceInChannel (on TRUE) and
\* HandleUnsilenceInChannel (on FALSE): with n's voice on, player q, if on
\* n's custom channel, is force-muted or unmuted there. Needs
\* CanUseVoiceChat; the sender's rights are not checked.
SilenceInChannel(q, n, on) ==
  /\ socket
  /\ voiceOn[n]
  /\ LET ids == KindIds(channels, "custom", n)
     IN  /\ ids # {}
         /\ q \in DOMAIN channels[First(ids)].members
         /\ channels' = [channels EXCEPT ![First(ids)] =
                           IF on THEN ForceMuteMember(@, q) ELSE ForceUnmuteMember(@, q)]
  /\ UNCHANGED <<socket, requests, srvIds, playerGroup, gone, raids,
                 voiceEnabled, micEnabled, curChannel, onChat, voiceOn, outages>>

\* WorldSession::HandleSilenceInParty (on TRUE) and HandleUnsilenceInParty
\* (on FALSE): a leader or assistant of p's group force-mutes or unmutes
\* member q in the group's channel of its kind. Needs CanUseVoiceChat.
SilenceInParty(p, q, on) ==
  /\ socket
  /\ playerGroup[p] # NoGroup
  /\ playerGroup[q] = playerGroup[p]
  /\ p \in Leaders
  /\ LET ids == KindIds(channels, GroupKind(playerGroup[p]), playerGroup[p])
     IN  /\ ids # {}
         /\ channels' = [channels EXCEPT ![First(ids)] =
                           IF on THEN ForceMuteMember(@, q) ELSE ForceUnmuteMember(@, q)]
  /\ UNCHANGED <<socket, requests, srvIds, playerGroup, gone, raids,
                 voiceEnabled, micEnabled, curChannel, onChat, voiceOn, outages>>

-----------------------------------------------------------------------------
(* The game world, whose Group code is not in the repository: its calls   *)
(* into VoiceChatMgr are the membership events of spec 4.4, made for      *)
(* sessions with voice enabled as RestoreVoiceChatChannels makes them.    *)

\* a player joins (or forms) group g: AddToGroup/RaidVoiceChatChannel
JoinGroup(p, g) ==
  /\ playerGroup[p] = NoGroup
  /\ g \notin gone
  /\ playerGroup' = [playerGroup EXCEPT ![p] = g]
  /\ IF voiceEnabled[p]
     THEN /\ channels' = AddToKindChannels(channels, p, g, TRUE, micEnabled[p])
          /\ requests' = AddToKindRequests(channels, requests, g)
     ELSE UNCHANGED <<channels, requests>>
  /\ UNCHANGED <<socket, srvIds, gone, raids, voiceEnabled, micEnabled,
                 curChannel, onChat, voiceOn, outages>>

\* a player leaves its group: RemoveFromGroup/RaidVoiceChatChannel
LeaveGroup(p) ==
  /\ playerGroup[p] # NoGroup
  /\ playerGroup' = [playerGroup EXCEPT ![p] = NoGroup]
  /\ channels' = RemoveFromKindChannels(channels, p, playerGroup[p])
  /\ UNCHANGED <<socket, requests, srvIds, gone, raids, voiceEnabled,
                 micEnabled, curChannel, onChat, voiceOn, outages>>

\* a player joins chat channel n; with n's voice on,
\* AddToCustomVoiceChatChannel
JoinChat(p, n) ==
  /\ n \notin onChat[p]
  /\ onChat' = [onChat EXCEPT ![p] = @ \cup {n}]
  /\ IF voiceOn[n] /\ voiceEnabled[p]
     THEN /\ channels' = AddToCustomVoiceChatChannel(channels, p, n, TRUE, micEnabled[p])
          /\ requests' = CreateCustomVoiceChatChannel(channels, requests, n)
     ELSE UNCHANGED <<channels, requests>>
  /\ UNCHANGED <<socket, srvIds, playerGroup, gone, raids, voiceEnabled,
                 micEnabled, curChannel, voiceOn, outages>>

\* a player leaves chat channel n: RemoveFromCustomVoiceChatChannel
LeaveChat(p, n) ==
  /\ n \in onChat[p]
  /\ onChat' = [onChat EXCEPT ![p] = @ \ {n}]
  /\ channels' = RemoveFromCustomVoiceChatChannel(channels, p, n)
  /\ UNCHANGED <<socket, requests, srvIds, playerGroup, gone, raids,
                 voiceEnabled, micEnabled, curChannel, voiceOn, outages>>

\* group g disbands; the channel of its kind is deleted
DisbandGroup(g) ==
  /\ g \notin gone
  /\ \E p \in Players : playerGroup[p] = g
  /\ gone' = gone \cup {g}
  /\ playerGroup' = [p \in Players |-> IF playerGroup[p] = g THEN NoGroup ELSE playerGroup[p]]
  /\ DeleteKindVoiceChatChannel(GroupKind(g), g)
  /\ UNCHANGED <<socket, requests, raids, voiceEnabled, micEnabled,
                 curChannel, onChat, voiceOn, outages>>

\* a party becomes a raid and its channel follows in place
ConvertToRaid(g) ==
  /\ g \notin gone \cup raids
  /\ \E p \in Players : playerGroup[p] = g
  /\ raids' = raids \cup {g}
  /\ channels' = ConvertToRaidChannel(g)
  /\ UNCHANGED <<socket, requests, srvIds, playerGroup, gone, voiceEnabled,
                 micEnabled, curChannel, onChat, voiceOn, outages>>

-----------------------------------------------------------------------------
(* The connection and the voice server.                                    *)

\* VoiceChatMgr::SocketDisconnected: m_socket null, m_requests cleared,
\* DeleteAllChannels (m_socket already null: no DELETE_CHANNEL; a custom
\* channel switches its chat channel's voice off). Sessions are not touched.
SocketDisconnected ==
  /\ socket
  /\ outages < MaxOutages
  /\ socket' = FALSE
  /\ requests' = {}
  /\ channels' = [c \in {} |-> {}]
  /\ voiceOn' = [n \in ChatChannels |-> voiceOn[n] /\ KindIds(channels, "custom", n) = {}]
  /\ outages' = outages + 1
  /\ UNCHANGED <<srvIds, playerGroup, gone, raids, voiceEnabled, micEnabled,
                 curChannel, onChat>>

\* a new socket is promoted (state CONNECTED) and RestoreVoiceChatChannels
\* runs: with the registry empty, every session with voice enabled in a
\* group asks for its group's channel. The server either kept the ids it
\* had in use or restarted with none.
Reconnect ==
  /\ ~socket
  /\ socket' = TRUE
  /\ srvIds' \in {srvIds, {}}
  /\ requests' = {[type |-> GroupKind(playerGroup[p]), groupid |-> playerGroup[p]] :
                    p \in {q \in Players : voiceEnabled[q] /\ playerGroup[q] # NoGroup}}
  /\ UNCHANGED <<channels, playerGroup, gone, raids, voiceEnabled, micEnabled,
                 curChannel, onChat, voiceOn, outages>>

\* Mutant: the new channel is registered without AddMembersAfterCreate.
HandleChannelCreatedEmpty(r, cid) ==
  /\ socket
  /\ r \in requests
  /\ cid \notin srvIds
  /\ srvIds' = srvIds \cup {cid}
  /\ requests' = requests \ {r}
  /\ channels' =
       IF (r.type = "custom" \/ r.groupid \notin gone) /\ cid \notin DOMAIN channels
       THEN channels @@ (cid :> [type |-> r.type, groupid |-> r.groupid,
                                 members |-> [q \in {} |-> {}]])
       ELSE channels
  /\ UNCHANGED <<socket, playerGroup, gone, raids, voiceEnabled, micEnabled,
                 curChannel, onChat, voiceOn, outages>>

\* VoiceChatMgr::HandleVoiceChatServerPacket, VOICECHAT_SMSG_CHANNEL_CREATED
\* with error 0 and a channel id cid the server had free: the request is
\* erased; if its group (or chat channel, which is never removed here)
\* still exists a channel of the request's type is inserted (map::insert keeps an entry already under cid) and
\* AddMembersAfterCreate fills it.
HandleChannelCreated(r, cid) ==
  /\ socket
  /\ r \in requests
  /\ cid \notin srvIds
  /\ srvIds' = srvIds \cup {cid}
  /\ requests' = requests \ {r}
  /\ channels' =
       IF (r.type = "custom" \/ r.groupid \notin gone) /\ cid \notin DOMAIN channels
       THEN channels @@ (cid :> AddMembersAfterCreate(
                                  [type |-> r.type, groupid |-> r.groupid,
                                   members |-> [q \in {} |-> {}]]))
       ELSE channels
  /\ UNCHANGED <<socket, playerGroup, gone, raids, voiceEnabled, micEnabled,
                 curChannel, onChat, voiceOn, outages>>

\* CHANNEL_CREATED with an error: the request is erased
HandleChannelCreateError(r) ==
  /\ socket
  /\ r \in requests
  /\ requests' = requests \ {r}
  /\ UNCHANGED <<socket, channels, srvIds, playerGroup, gone, raids,
                 voiceEnabled, micEnabled, curChannel, onChat, voiceOn, outages>>

-----------------------------------------------------------------------------
Next ==
  \/ \E p \in Players, v, m \in BOOLEAN : VoiceSessionEnable(p, v, m)
  \/ \E p \in Players, t \in {"custom", "group", "none"}, n \in ChatChannels :
       SetActiveVoiceChannel(p, t, n)
  \/ \E n \in ChatChannels : HandleChannelVoiceOnOpcode(n)
  \/ \E q \in Players, n \in ChatChannels, on \in BOOLEAN : SilenceInChannel(q, n, on)
  \/ \E p, q \in Players, on \in BOOLEAN : SilenceInParty(p, q, on)
  \/ \E p \in Players, n \in ChatChannels : JoinChat(p, n) \/ LeaveChat(p, n)
  \/ \E p \in Players, g \in Groups : JoinGroup(p, g)
  \/ \E p \in Players : LeaveGroup(p)
  \/ \E g \in Groups : DisbandGroup(g) \/ ConvertToRaid(g)
  \/ SocketDisconnected \/ Reconnect
  \/ \E r \in requests : \/ HandleChannelCreateError(r)
                         \/ \E cid \in ChannelIds : HandleChannelCreated(r, cid)

Spec == Init /\ [][Next]_vars

-----------------------------------------------------------------------------
(* Properties                                                              *)

Members(c) == DOMAIN channels[c].members
Voiced(c, p) == VOICECHAT_MEMBER_FLAG_VOICED \in channels[c].members[p]

\* Every member of a registered channel is ENABLED (VoiceChatMember's
\* default; a member is erased, never disabled), and the rest has its type.
TypeOK ==
  /\ socket \in BOOLEAN
  /\ requests \subseteq [type : {"group", "raid"}, groupid : Groups] \cup
                 [type : {"custom"}, groupid : ChatChannels]
  /\ DOMAIN channels \subseteq ChannelIds
  /\ \A c \in DOMAIN channels :
       /\ channels[c].type \in {"group", "raid", "custom"}
       /\ channels[c].groupid \in IF channels[c].type = "custom" THEN ChatChannels ELSE Groups
       /\ Members(c) \subseteq Players
       /\ \A p \in Members(c) :
            /\ channels[c].members[p] \subseteq MemberFlags
            /\ VOICECHAT_MEMBER_FLAG_ENABLED \in channels[c].members[p]
  /\ srvIds \subseteq ChannelIds
  /\ playerGroup \in [Players -> Groups \cup {NoGroup}]
  /\ gone \subseteq Groups /\ raids \subseteq Groups
  /\ voiceEnabled \in [Players -> BOOLEAN] /\ micEnabled \in [Players -> BOOLEAN]
  /\ curChannel \in [Players -> ChannelIds \cup {NoChannel}]
  /\ onChat \in [Players -> SUBSET ChatChannels] /\ voiceOn \in [ChatChannels -> BOOLEAN]
  /\ outages \in 0..MaxOutages

\* A player is voiced only in the channel its session has as the current
\* one: HandleSetActiveVoiceChannel devoices the old channel before voicing
\* the new one, and voice off leaves every channel along with the id.
VoicedOnlyInCurrent ==
  \A c \in DOMAIN channels : \A p \in Members(c) :
    Voiced(c, p) => curChannel[p] = c

\* A player voiced in a channel is mic-muted there exactly when its
\* session's mic is off: CMSG_VOICE_SESSION_ENABLE and
\* CMSG_SET_ACTIVE_VOICE_CHANNEL both follow the mic setting.
MicStateMirrored ==
  \A c \in DOMAIN channels : \A p \in Members(c) :
    Voiced(c, p) =>
      (VOICECHAT_MEMBER_FLAG_MIC_MUTED \in channels[c].members[p] <=> ~micEnabled[p])

\* A member of a custom voice channel is on the chat channel it belongs
\* to: AddMembersAfterCreate, JoinAvailableVoiceChatChannels (through
\* GetPossibleVoiceChatChannels) and joining the chat channel only admit
\* players on it, and leaving the chat channel leaves its voice channel.
CustomMembersOnChat ==
  \A c \in DOMAIN channels : \A p \in Members(c) :
    channels[c].type = "custom" => channels[c].groupid \in onChat[p]

\* a session that the channel c is for: voice on and in c's group with the
\* group of c's kind, or on c's chat channel with that channel's voice on
EligibleFor(c, p) ==
  /\ voiceEnabled[p]
  /\ IF channels[c].type = "custom"
     THEN channels[c].groupid \in onChat[p] /\ voiceOn[channels[c].groupid]
     ELSE playerGroup[p] = channels[c].groupid /\ GroupKind(playerGroup[p]) = channels[c].type

\* Every session a registered channel is for is a member of it, however
\* the voice switch, the group and chat events, lost connections and the
\* creation replies interleave: a session that enabled voice or joined
\* while the channel was being created, or while the connection was down,
\* is added by AddMembersAfterCreate or by RestoreVoiceChatChannels.
MembershipComplete ==
  \A c \in DOMAIN channels : \A p \in Players : EligibleFor(c, p) => p \in Members(c)

\* A player on the channel its session names as the current one is voiced
\* in it: otherwise selecting that channel takes the "same channel, just
\* update roster" return of HandleSetActiveVoiceChannel and the player is
\* never voiced there.
CurrentChannelVoiced ==
  \A p \in Players :
    curChannel[p] \in DOMAIN channels /\ p \in Members(curChannel[p]) =>
      Voiced(curChannel[p], p)

====
