# TLA+ models of the voice-chat client engine and the social lists

This directory holds a TLA+ model of the voice-chat engine under
`src/src/server/game/VoiceChat/` (with `src/src/server/shared/Networking/AsyncConnector.h`):
the game server's client side of a TCP connection to an external voice server.
The model is checked with TLC. It covers the connection manager, the socket
hand-off between the network thread and the world thread, and the registry of
group, raid and custom voice channels. `VoiceChatSession` models the session side:
the voice handlers of `VoiceChatHandler.cpp` and the members of group, raid and custom
channels. A further module, `PlayerSocial`, models a
character's friend/ignore/mute list (`src/src/server/game/Entities/Player/SocialMgr.cpp`),
which the voice code extends with the mute flag. `VoiceChatFrame` models the
byte-level read path of `VoiceChatServerSocket`.

## The system

| Part | Code | State | Operations |
|---|---|---|---|
| Connection Manager | `VoiceChatMgr.cpp` `Update`, `SocketDisconnected`, `Enable/DisableVoiceChat` | `state`, `enabled`, `curReconnectAttempts`, `next_connect`, `next_ping`, `last_pong`, `lastUpdate`, `m_socket`, `m_requestSocket` | one `Update` per world tick: flush writes, swap and drain `m_recvQueue`, then once per second the state logic (adopt, connect, give up, promote, ping, timeout) |
| Async Connector | `AsyncConnector.h`, `VoiceSocketThread` | the io_context, outstanding `async_connect`s | a detached thread stops/restarts the io_context and starts one more connect; on success the socket calls `RequestNewSocket` and starts reading |
| Frame Codec / Socket | `VoiceChatServerSocket.cpp` | open flag, read/write buffers, `_headerBuffer`, `_packetBuffer` | `ReadHandler` decodes frames from the bytes of each read, `ReadDataHandler` queues a packet if `CanUseVoiceChat` else closes, `SendPacket` drops on a closed socket |
| Channel Registry | `VoiceChatMgr.cpp` | `m_requests`, `new_request_id`, `m_VoiceChatChannels` | `CreateVoiceChatChannel` (dedup), `CHANNEL_CREATED` handling, `DeleteVoiceChatChannel`, `Delete{Group,Raid}VoiceChatChannel`, `ConvertToRaidChannel`, `RestoreVoiceChatChannels`, `DeleteAllChannels` |
| Session handlers | `VoiceChatHandler.cpp` | per-session voice and mic flags and current voice channel id, chat channels' voice flag, channel members and their `VoiceChatMember` flags | `CMSG_VOICE_SESSION_ENABLE` joins or leaves the channels and mutes or unmutes; `CMSG_SET_ACTIVE_VOICE_CHANNEL` devoices the old channel and voices the new one; `CMSG_PARTY_SILENCE` force-mutes; `CMSG_CHANNEL_VOICE_ON` switches a chat channel's voice on and creates its custom voice channel; the voice ignore opcodes change the social list |

Two threads share the manager: the world thread (Update, session handlers,
console commands) and the io_context thread(s) (connect completions and socket
reads). They meet in `m_recvQueue` (under a mutex) and `m_requestSocket` (no
lock). The voice server answers requests in order on each connection and may
go away.

## Module `VoiceChatMgr`

State (VARIABLES) follows the code's members. Time is whole seconds
(`time(nullptr)`); the timestamps are kept relative to now and clipped where
no comparison of the code tells values apart: `nextConnectIn` is
`next_connect - now` (clipped at -1, "passed"), `nextPingIn` is `next_ping - now`,
`sincePong` is `now - last_pong` (clipped one past the timeout), and
`ranThisSecond` is `now - lastUpdate < 1`. Ghost state the code does not keep:
each request and channel carries the socket (server session) it belongs to;
`sendQueue` is the socket's `_bufferQueue` (filled by `SendPacket`, moved to
the wire by `VoiceChatServerSocket::Update`, `FlushSocket`);
`toServer`/`fromServer`/`srvAlloc` are the per-connection wire and the server's
allocated channel ids; `groups`, `gone`, `raids`, `voiceGroups` are the game side.

`Update` is split where the network thread can run in between:

* `UpdateBegin`: the early `!enabled` return, the flush of an open `m_socket`, the queue swap;
* `HandlePong`, `HandleChannelCreated`, `HandleMalformed` (ByteBufferException
  then `ProcessByteBufferException`): one packet of the drain loop, which only
  runs while `m_socket` is open; `DrainEnd` drops the rest;
* the state logic, one action per branch of lines 116-252: `LogicSkipped`,
  `AdoptSocket`, `SocketLost`, `GiveUp`, `TryConnect`, `SocketClosed`,
  `RetryClosedSocket`, `Promote` (status broadcast and
  `RestoreVoiceChatChannels`), `KeepAlive` (ping, then timeout), `LogicIdle`.

Network thread: `ConnectFails`, `ConnectSucceeds` (with `RequestNewSocket`),
`ReadPacket` (with `ReadDataHandler`), `ConnectionDrops` (peer close or a header
`ReadHeaderHandler` rejects). They run only while the io_context runs
(`SocketDisconnected` stops it; a stopped context keeps completions pending
until the next `VoiceSocketThread` restarts it, and outstanding connects are not
cancelled). Server: `ServerHandles` answers one packet (a new channel id, an
error, or a malformed reply to a create; a pong to a ping; a delete frees the
id), `ServerDown` (the server's connections are lost for good) and `ServerUp`.
Game: `HandleChannelVoiceOnOpcode` (the chat channel's `voiceOn` flag, then
`CreateCustomVoiceChatChannel`), `FormGroup`, `DisbandGroup` (calls `DeleteRaidVoiceChatChannel` for a raid,
`DeleteGroupVoiceChatChannel` otherwise), `ConvertToRaid` (calls
`ConvertToRaidChannel`), `VoiceSessionEnable`. Channel creation is
`AddToVoiceChatChannels` (the `AddTo{Group,Raid}VoiceChatChannel` choice by the
group's kind) over `CreateVoiceChatChannels`; `DeleteAllChannels`,
`SendVoiceChatStatus` and `QueuePacket` are used by the actions that call them. Console: `DisableVoiceChat`, `EnableVoiceChat`. Clock:
`Tick`.

Abstractions: packets are whole records (framing and byte buffers are in
`VoiceChatFrame`; here they are left
out); group, raid and custom channels exist (a custom channel's `groupid` field
holds its chat channel's name; one team; chat channels are never removed);
battleground channels are the same code paths with another lookup and are left out; member slots are left out; `voiceGroups`
keeps a group once any member enabled voice (voice-off is not modelled), which
over-approximates what `RestoreVoiceChatChannels` restores. The data race on
`m_requestSocket` is taken as atomic accesses in either order.

## Module `VoiceChatConnection` and the refinement

`VoiceChatConnection` is what the manager promises about its connection,
without threads, timers, packets or channels: the reported `status`
(VoiceChatState), `enabled`, and `link`, whether the socket it works with is an
open connection. Its steps: `LinkUp`, `LinkDown`, `Connect` (only over a live
link), `Drop` (a lost link noticed in CONNECTED), `Timeout` (CONNECTED over a
live link that is closed), `GiveUp` (from RECONNECTING, no link), `Disable`
and `Enable`. Its fairness promises that a live link is eventually announced
(`WF Connect`) and a lost one eventually noticed (`WF Drop`).

`VoiceChatMgr` instantiates it as `Conn` with `status <- state` and
`link <- SocketOpen(mSocket)` (every other variable is hidden).
`ImplementsConnection == Conn!Spec` is checked, progress included, in the
liveness run. `ImplementsConnectionSteps == Conn!SafetySpec` is checked, steps
only, in the two-socket run, where a late socket replaces `m_socket`; the
liveness part of that run costs ten minutes. The mutant that promotes a
non-null but closed `m_socket` breaks both.

## Runs

The runs in this table use `MCVoiceChatMgr` (which gives `NoSocket` a value) with
`MaxConnectAttempts = 1`, and delays scaled down from the code's (reconnect 10,
retry 5, ping 5, timeout 10) to 2, 1, 1, 2, which keeps their order: the ping
interval is shorter than the timeout and the retry shorter than the reconnect.

| Run | cfg | Expect | Shows |
|---|---|---|---|
| safety_one_socket | MCVoiceChatMgr.cfg | pass | one connection, one outage, one disable, one group and one chat channel: `NoDuplicateChannel` (one channel or request per (type, group)) and `RequestsAnswerable` (while `m_socket` is open and its server alive, every request made on it has its CREATE_CHANNEL or its reply on the way: in `_bufferQueue`, on the wire, in the server's answers, in `m_recvQueue` or in the copy being drained, or behind a malformed answer that ends the session; the drain loop and the error path of the reply handler must not consume a reply while its request stays) |
| safety_two_sockets | MCVoiceChatMgrSockets.cfg | pass | the same with two connections and two connects in flight, so late sockets and orphan sockets happen; and `ImplementsConnectionSteps`. Requests carried over from an earlier session by adoption are outside `RequestsAnswerable`: they are what `stale_session_channel` and `PendingRequestResolves` are about |
| keepalive_liveness | MCVoiceChatMgrLive.cfg | pass | `KeepaliveDetectsDeadServer`: a server gone for good ends CONNECTED for good; `ImplementsConnection`: VoiceChatMgr implements VoiceChatConnection |
| stale_session_channel | MCStaleSession.cfg | violation | a channel created on a socket that died before promotion stays after the next socket is adopted |
| raid_conversion_leaks_channel | MCRaidLeak.cfg | violation | a party converted to a raid while its channel request is pending gets a group-type channel that outlives the raid |
| voice_flag_without_channel | MCVoiceFlag.cfg | violation | `VoiceFlagBacked`: `CMSG_CHANNEL_VOICE_ON` sets the chat channel's voice flag, the creation request is lost (malformed or error reply, socket lost), and the flag stays with no voice channel; the handler then returns early for good |
| channel_leak_on_disband | MCChannelLeak.cfg | violation | `ServerChannelsAccounted`: a group disbands while its CHANNEL_CREATED reply is in flight; the reply creates nothing and no DELETE_CHANNEL is sent, so the server keeps a channel the manager has forgotten |

Three more properties of `VoiceChatMgr` state what the spec says and fail on
the code, but no run checks them at present (the project keeps its run list to
the questions it can afford to check each time):
`GivesUpAfterMaxAttempts` (NOT_CONNECTED never checks the attempt limit, so a
server unreachable from start-up is retried forever, while the spec says
NotConnected also gives up at the maximum; VoiceChatMgr.cpp:146) and
`PendingRequestResolves` (`CreateVoiceChatChannel` only checks that `m_socket`
is non-null, so on a closed adopted socket the request is recorded while
`SendPacket` drops the packet, and after the next promotion
`RestoreVoiceChatChannels` skips the group because the request is still
pending; VoiceChatMgr.cpp:474). Both fail under the bounds of `MCVoiceChatMgrLive.cfg`
(the second with `MaxSockets = 2`). The third is `DisableTearsDown`. The spec says
disabling tears down the socket and the execution context unconditionally.
`DisableVoiceChat` calls `SocketDisconnected` only while the io_context is
not stopped or `m_socket` is open (VoiceChatMgr.cpp:1087). Once the socket
has closed and `run()` has returned for lack of work, `m_socket`,
`m_requests` and the channels stay behind. This was checked as a run in an
earlier version of the project; its slot now goes to `frame_decoding`.

Bounds (all named CONSTANTS): `MaxSockets` connections succeed per behaviour
(1 or 2; two are needed for a second socket to meet the first);
`MaxInFlight` connects outstanding (2, so a connect of an earlier attempt can
complete late; more are merged); `MaxRequestId` bounds session-issued requests;
`MaxOutages` and `MaxDisables` bound server outages and console disables (1
each); `MaxBacklog` (2) is the most a served connection may have unanswered when
a second ends, an assumption that the server keeps up (the code would queue
without limit). One group and one channel id per server session suffice for
the per-group properties. `RaidGroups` names the groups the game may convert to
a raid: the one-socket run and the raid-leak run allow it, the others do not. `MCVoiceChatMgrSockets.cfg` allows no console disable
(`MaxDisables = 0`) and no raid conversion (`RaidGroups = {}`) to stay within a
few minutes; the disable path is covered by
the one-socket run.

## Module `VoiceChatSession`

The session side, with the connection reduced to whether `m_socket` is set.
State: `socket`; `requests` (`m_requests`, as the (type, group) keys they are
for: the request ids and the wire are `VoiceChatMgr`'s business);
`channels` (`m_VoiceChatChannels`, id to type, group and members, a member
mapped to its `VoiceChatMember` flags ENABLED, FORCE_MUTED, MIC_MUTED,
VOICED); `srvIds` (the ids the voice server has in use); the game's
`playerGroup`, `gone` and `raids`; the chat channels each player is on
(`onChat`) and whether a chat channel's voice is on (`voiceOn`,
`Channel::IsVoiceEnabled`); and per session `voiceEnabled`,
`micEnabled` and `curChannel` (`m_voiceEnabled`, `m_micEnabled`,
`GetCurrentVoiceChannelId()`).

Actions: `VoiceSessionEnable(p, v, m)` is the whole of
`HandleVoiceSessionEnableOpcode` (voice off leaves every channel and clears
the current id; voice on for a session that had it off stores the flags and
runs `JoinAvailableVoiceChatChannels`, which adds the player to its group's
channel and to the custom channels `GetPossibleVoiceChatChannels` finds; then the current channel, if it still
exists, mutes or unmutes; then the flags are stored);
`SetActiveVoiceChannel(p, t, n)` is `HandleSetActiveVoiceChannel` for the
custom type (chat channel `n`, which the player must be on with its voice
on), the group and raid types (one branch in the code) and NONE, with the "same channel,
just update roster" return as a step that changes nothing;
`SilenceInParty(p, q, on)` is `HandleSilenceInParty`/`HandleUnsilenceInParty`;
`SilenceInChannel(q, n, on)` is `HandleSilenceInChannel`/`HandleUnsilenceInChannel`
(no sender: the code checks none); `HandleChannelVoiceOnOpcode(n)` switches
a chat channel's voice on and asks for its custom channel.
Game events (the Group code is not in the repository) call the manager the
way the spec's membership events do: `JoinGroup` (`AddToGroup/RaidVoiceChatChannel`,
for a session with voice on), `LeaveGroup` (`RemoveFromGroup/RaidVoiceChatChannel`),
`DisbandGroup` (`DeleteGroup/RaidVoiceChatChannel`) and `ConvertToRaid`;
the chat channel code is not in the repository either, and `JoinChat`
(`AddToCustomVoiceChatChannel` when the channel's voice is on) and
`LeaveChat` (`RemoveFromCustomVoiceChatChannel`) stand for it. Deleting a
custom channel, on its own or in `DeleteAllChannels` on a lost connection,
switches its chat channel's voice off.
`SocketDisconnected` clears the requests and the registry and leaves the
sessions alone; `Reconnect` is a promotion with `RestoreVoiceChatChannels`,
to a server that kept its ids or restarted; `HandleChannelCreated` and
`HandleChannelCreateError` are the two outcomes of a CHANNEL_CREATED reply.

`VoiceChatChannel.cpp` is not in the repository, so the member operations
(`AddVoiceChatMember`, `RemoveVoiceChatMember`, `Voice/Devoice/Mute/Unmute/
ForceMute/ForceUnmuteMember`, `AddMembersAfterCreate`) follow spec 4.4 and the
`VoiceChatMember` flags: adding is idempotent and admits only a session with
voice on (the handler sets `m_voiceEnabled` first "to allow joining
channels"), a new member is ENABLED and MIC_MUTED if its mic is off, and the
others change one flag of a member. Removing a member does not touch the
session's current channel id: `HandleVoiceSessionEnableOpcode` clears it
itself right after `RemoveFromVoiceChatChannels`.

Runs (`MCVoiceChatSession`, two players of whom `p1` is a leader, one group,
one chat channel, two channel ids, one lost connection; symmetry over channel
ids, which the model only compares): `session_handlers` checks `TypeOK`,
`VoicedOnlyInCurrent` (a player is voiced only in its current channel),
`MicStateMirrored` (a voiced member is mic-muted exactly when its mic is off)
`CustomMembersOnChat` (a member of a custom channel is on its chat
channel) and `MembershipComplete` (every session that a registered channel
is for is a member of it: one that enabled voice or joined while the channel
was being created or the connection was down is added by
`AddMembersAfterCreate` or the restore), 722k states in about 1.5 minutes. One group and one chat channel
give each player two channels to switch between (which is where the devoice
of the old channel matters), and the group can still be converted to a raid
and disbanded; a second group mostly doubled the state space. `stale_current_channel` checks `CurrentChannelVoiced` and fails:
a player voiced in its group's channel leaves the group and rejoins it; the
session still names the channel as current, the player is back on it
unvoiced, and `HandleSetActiveVoiceChannel` takes the "same channel" return,
so the player can never speak there until it selects NONE first. A reconnect
to a restarted server that hands the same id to the new channel does the same.
The custom branch of the handler has the same return (VoiceChatHandler.cpp:129).

Not in this module: the battleground case of `HandleSetActiveVoiceChannel`
(it needs the battleground registry), teams (one team, as if cross-faction
channels were on), LFG and constant chat channels (refused by
`HandleChannelVoiceOnOpcode`), bans, and `Channel::SetMicMute`. `HandleSilenceInChannel` checks no right
of the caller at all, unlike the party version; that is a single call for a
unit test. A party silence is a flag of the member entry, so leaving and
rejoining, or voice off and on, lifts it. Nothing in the spec says whether it
should outlast the membership, so it is not listed as a hazard.

`JoinGroup` lets a group of one exist and survive a leave. Real groups (code
outside `src/`) have at least two members and disband at two. The trace of
`stale_current_channel` (a player leaves a group and rejoins it) takes a
group of three in the game.

## Module `VoiceChatFrame`

The read side of `VoiceChatServerSocket.cpp`, byte by byte.

- **State.** The bytes read so far (`pos`), `_headerBuffer` (`hdr`, 0 to 4
  bytes), `_packetBuffer` (`pay`) with its size after `Resize` (`need`), and
  the packets given to `VoiceChatMgr::QueuePacket` (`recvQueue`). It also
  holds `IsOpen`, `CanUseVoiceChat` as the socket sees it (`canUse`), and
  whether `ReadDataHandler` closed the socket (`refused`).
- **Server stream.** The frames the server sends (`sent`) are fixed in
  `Init`. Their bytes (`Stream`) use the layout of the code's own outbound
  `VoiceChatServerPktHeader` (cmd low, cmd high, size low, size high). Spec
  4.2 says the inbound header mirrors this layout.
- **`ReadHandler(k)`.** An `AsyncRead` completes with the next `k` bytes, for
  every `k`. The recursive operator `ReadLoop` is the handler's `while` loop.
  It fills the header. It then applies `ReadHeaderHandler`, which either
  closes the socket on an invalid size or opcode or resizes `_packetBuffer`.
  It fills the payload. It then applies `ReadDataHandler`, which either
  queues the packet or closes the socket when voice chat cannot be used. The
  header buffer is reset after each whole frame.
- **`Promote`.** The world thread's `m_socket = m_requestSocket` makes
  `CanUseVoiceChat` true. `Start` requests promotion and starts reading at
  once, so frames can complete on either side of this step.

`MCVoiceChatFrame.cfg` uses five frames:

- a valid one at the largest opcode (11) and the smallest size (2);
- a valid one of size 3;
- one with opcode 12, which is invalid;
- one of size 1, which is too small;
- one of size 10240, which is too large.

A stream has up to three frames, and reads come in every length. That
covers two valid frames in a row with every split point, and each boundary
on both sides. `frame_decoding` checks four properties:

- `FramesInOrder`: the queue is a prefix of the valid frames, with their
  opcodes and payloads.
- `ClosesOnlyOnFault`: the socket closes only at the first malformed frame
  or at a frame completed before promotion.
- `StreamFullyDecoded`: once the whole stream has been read over an open
  socket, every frame is queued.
- `TypeOK`: the buffers stay within 4 bytes and a valid size.

Deadlock is not checked: the socket stops reading at the end of the stream or
once closed. The run reaches 5.8k states in seconds.

Spec 4.2 also says that encoding and decoding round-trip for payload lengths
0 to 10239. `IsValidSize` rejects sizes 0 and 1, so an empty or one-byte
payload framed by the outbound header would close the receiving socket. The
model has no run for this; the two facts are stated here.

Not in this module: the write side's packing of frames into 4096-byte
`MessageBuffer`s (`Update`), and `Socket.h`, which is not in the repository.

## Module `PlayerSocial`

One character's `PlayerSocial`. State: `loggedIn` (the character's entry in
`SocialMgr::m_socialMap`), `social` (`m_playerSocialMap`, friend guid to
`[Flags, Note]`), `db` (this character's `character_social` rows), `dbQueue`
(the `CharacterDatabase.PExecute` statements not yet run, in issue order) and
the ghost `saved` (the list at logout). Flags are sets of `SocialFlag` names.

Actions: `AddToSocialList(f, ignore, mute)` (the client-limit early returns,
mute over ignore over friend, UPDATE `flags | flag` of an existing entry or an
INSERT of a new one), `RemoveFromSocialList` (missing entry returns; DELETE and
erase when no flag is left, else UPDATE `flags & ~flag`), `SetFriendNote`
(truncate, escape in place, UPDATE, store), `ExecuteStatement` (the database
worker runs the oldest statement with the table's semantics: an INSERT of an
existing primary key fails, an UPDATE or DELETE of a missing row changes
nothing), `RemovePlayerSocial` (logout) and `LoadFromDB` (login, once the
queued statements have run; rows arrive in an order the query does not fix and
the loop breaks at `SOCIALMGR_FRIEND_LIMIT + SOCIALMGR_IGNORE_LIMIT` entries).
`Init` is `GetDefault`, an empty list. The list changes are the three
`AddToSocialList`/`RemoveFromSocialList` take (friend, ignore, mute); the
voice ignore opcodes of `VoiceChatHandler.cpp` are `HandleAddVoiceIgnoreOpcode`
(`HasIgnore` check, then an ignore add) and `HandleDelVoiceIgnoreOpcode`. These
handlers reply with `FRIEND_MUTE_*` results but set the `IGNORED` flag, since
`AddToSocialList(guid, true)` leaves `mute` at its default `false`. In this
repository nothing adds a mute, so the reload loss below needs a caller
outside it that uses the mute argument. Conversions are constant operators
given in `MCPlayerSocial`: `utf8truncate` shortens a long note, `EscapeString`
quotes `'`, and `SqlValue` is what the SQL server reads back from a quoted
literal (the inverse of `EscapeString`).

Bounds: `Friends` (2, or 3 for the reload run), limits 1 and 1 (the code's 50
and 25, scaled down; each limit is reached), `MaxPendingWrites` = 2 statements
queued, which lets an add and a remove of the same friend be outstanding
together. The database worker is weakly fair: a queued statement runs.

| Run | cfg | Expect | Shows |
|---|---|---|---|
| social_list_persistence | MCPlayerSocial.cfg | pass | `DbMirrorsMemory`: once the queue has drained, the rows are the in-memory entries with the same flags, over adds, removes, notes (a long one and one with a quote), logouts and reloads |
| reload_drops_mutes | MCSocialReload.cfg | violation | `ReloadPreservesList`: a friend, an ignore and a mute (three entries, each within its limit) are saved, and `LoadFromDB` loads two of them back |

Not modelled here: `GetFriendInfo`, `SendFriendStatus`,
`BroadcastToFriendListers` and `SendSocialList` only build and send packets from
other players' state; the lists of different characters are independent (no
operation of one touches another's map or rows), so one character is modelled.
`SetFriendNote` stores the escaped note in memory while the table gets the
note itself (SocialMgr.cpp:133-135; `MCPlayerSocial` maps `it's` to `it\'s`).
The memory and the row disagree for a quoted note until the next
`LoadFromDB`. The client is then sent the escaped text, by `GetFriendInfo`
and `SendSocialList`. `DbMirrorsMemory` therefore compares rows and flags
only. The note disagreement is stated here and not checked by any run. The
database statements run in order on one worker; the worker pool is not in
`src/`. So whether two statements for one row can be reordered, or a reload
can overtake the logout's writes, is not modelled.

## Fairness (VoiceChatMgr)

The world thread runs Update continually (`WF` of its steps), time always
passes (`SF` of `Tick`, which is enabled only between two calls of Update), a
pending connect completes one way or the other, a socket with data is read,
and a serving connection is answered. Drops, outages, console commands and game
events are not fair: nothing in the code makes them happen.

## Not modelled

The write buffering of `VoiceChatServerSocket::Update` (the bytes it writes are
those of `Encode`; how they are packed into buffers does not change them);
battleground channels, and the slot packets the member operations send
(`EnableChannelSlot` and the rest: their callers in `VoiceChatChannel` are not
in `src/`, so the model keeps the members' flags, not the server's slots); the
battleground part of the session handlers (see above); `DeleteCustomVoiceChatChannel`, whose callers
(the chat channel code) are not in the repository;
the packet-sending parts of `SocialMgr` (see above); and the map/grid code
(`ObjectGridLoader.cpp`, `MapManager.h`), which the spec puts out of scope: it
is sequential grid visitors over `Map`, `Grid` and `ObjectMgr`, none of them in
the repository, and inline clamps and a counter, with no concurrency to
check. (One of those clamps, `SetMapUpdateInterval`, lowers any larger interval to
`MIN_MAP_UPDATE_DELAY`, a constant named as a minimum; that is a single-call
case for a unit test.) Open hazards without
a property yet are listed in `PROJECT.json`.
