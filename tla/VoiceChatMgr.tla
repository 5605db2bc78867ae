---------------------------- MODULE VoiceChatMgr ----------------------------
(***************************************************************************)
(* The voice-chat connection manager (VoiceChatMgr.cpp) together with the  *)
(* threads and peers it talks to:                                          *)
(*   - the world thread, which runs VoiceChatMgr::Update once per world    *)
(*     tick; Update is split at the points where the network thread can   *)
(*     run in between (queue swap, each drained packet, state logic);      *)
(*   - the network thread: AsyncConnector completions and the socket read  *)
(*     handler of VoiceChatServerSocket, which push into m_recvQueue;      *)
(*   - the external voice server, which answers requests in order over     *)
(*     each TCP connection and may go away;                                *)
(*   - the game world, which asks for group voice channels, and chat     *)
(*     channels whose voice is switched on (custom voice channels).       *)
(* Time is a whole number of seconds (time(nullptr)); timestamps are kept  *)
(* relative to now and clipped where no comparison tells values apart.     *)
(***************************************************************************)
EXTENDS Integers, Sequences, FiniteSets, TLC

LOCAL INSTANCE Functions

CONSTANTS
  Groups,             \* ids of game groups that may want a voice channel
  CustomChannels,     \* names of chat channels that may get voice (one team)
  RaidGroups,         \* the groups that may be converted to a raid
  ChannelIds,         \* channel ids the voice server may hand out
  MaxSockets,         \* bound: connections that may succeed in a behaviour
  MaxInFlight,        \* bound: connection attempts outstanding at once
  MaxRequestId,       \* bound: sessions enable voice only while new_request_id <= it
  MaxOutages,         \* bound: times the voice server may go down
  MaxBacklog,         \* bound: packets a live server leaves unanswered per second
  MaxDisables,        \* bound: times the console may disable voice chat
  MaxConnectAttempts, \* VoiceChat.MaxConnectAttempts (<0 unlimited, 0 off)
  ConfigEnabled,      \* VoiceChat.Enabled as read by LoadConfigs
  ReconnectDelay,     \* next_connect = now + 10 after a loss or an attempt
  RetryDelay,         \* next_connect = now + 5 when the adopted socket died
  PingInterval,       \* next_ping = now + 5
  PongTimeout,        \* ping timeout when now - last_pong > 10
  NoSocket            \* the null socket pointer

ASSUME /\ MaxSockets \in Nat \ {0}
       /\ RaidGroups \subseteq Groups
       /\ MaxInFlight \in Nat \ {0}
       /\ MaxRequestId \in Nat
       /\ {MaxOutages, MaxDisables, MaxBacklog} \subseteq Nat
       /\ MaxConnectAttempts \in Int
       /\ ConfigEnabled \in BOOLEAN
       /\ {ReconnectDelay, RetryDelay, PingInterval, PongTimeout} \subseteq Nat \ {0}

Sockets == 1..MaxSockets

\* each promotion restores at most one request per group
RequestIds == 1..(MaxRequestId + MaxSockets * Cardinality(Groups))

\* VoiceChatState
DISCONNECTED  == "DISCONNECTED"
NOT_CONNECTED == "NOT_CONNECTED"
CONNECTED     == "CONNECTED"
RECONNECTING  == "RECONNECTING"

VARIABLES
  enabled,        \* VoiceChatMgr::enabled
  state,          \* VoiceChatMgr::state
  curReconnectAttempts,
  nextConnectIn,  \* next_connect - now, clipped at -1 (already passed)
  nextPingIn,     \* next_ping - now, clipped at 0
  sincePong,      \* now - last_pong, clipped at PongTimeout + 1
  ranThisSecond,  \* now - lastUpdate < 1: the state logic already ran
  announced,      \* last value broadcast by SendVoiceChatStatus
  mSocket,        \* m_socket
  mRequestSocket, \* m_requestSocket, set by the network thread
  sockOpen,       \* sockets whose Socket::IsOpen() holds
  nextSock,       \* next socket id the connector will create
  connecting,     \* async_connect calls still outstanding
  ioState,        \* m_ioContext: "fresh", "running" or "stopped" by stop()
  recvQueue,      \* m_recvQueue, shared between the two threads
  recvCopy,       \* recvQueueCopy, local to Update on the world thread
  tickPc,         \* where the world thread is inside Update
  requests,       \* m_requests: pending channel creations
  newRequestId,   \* new_request_id
  channels,       \* m_VoiceChatChannels: channel id -> channel
  voiceOn,        \* per chat channel: Channel::IsVoiceEnabled
  sendQueue,      \* per socket: _bufferQueue, sent and not yet flushed
  toServer,       \* per socket: packets written and not yet read by the server
  fromServer,     \* per socket: server packets not yet read by ReadHandler
  srvAlloc,       \* per socket: channel ids the server has handed out on it
  groups,         \* groups that exist in the game (GroupMgr)
  gone,           \* disbanded groups (a group id is never reused)
  raids,          \* groups converted to a raid (Group::isRaidGroup)
  voiceGroups,    \* groups with a member whose session has voice enabled
  serverUp,       \* the voice server accepts and answers connections
  srvDead,        \* connections the server lost in an outage: never read again
  outages,        \* times the server went down so far
  disables        \* times DisableVoiceChat ran so far

mgrVars   == <<enabled, state, curReconnectAttempts, nextConnectIn, nextPingIn,
               sincePong, ranThisSecond, announced>>
sockVars  == <<mSocket, mRequestSocket, sockOpen, nextSock, connecting, ioState>>
tickVars  == <<recvQueue, recvCopy, tickPc>>
regVars   == <<requests, newRequestId, channels, voiceOn>>
wireVars  == <<sendQueue, toServer, fromServer, srvAlloc>>
gameVars  == <<groups, gone, raids, voiceGroups, serverUp, srvDead, outages, disables>>
vars == <<mgrVars, sockVars, tickVars, regVars, wireVars, gameVars>>

-----------------------------------------------------------------------------
(* Packets. Requests carry the socket they were issued on and channels the *)
(* socket whose reply created them; the code keeps neither.                *)

CreatePkt(rid) == [op |-> "create", rid |-> rid]
PingPkt        == [op |-> "ping"]
DeletePkt(cid) == [op |-> "delete", cid |-> cid]
PongPkt        == [op |-> "pong"]
CreatedPkt(rid, err, cid) == [op |-> "created", rid |-> rid, err |-> err, cid |-> cid]
\* A CHANNEL_CREATED payload too short for its fields: ByteBufferException.
ShortPkt       == [op |-> "short"]

\* VoiceChatChannelTypes modelled: VOICECHAT_CHANNEL_GROUP, _RAID and
\* _CUSTOM (a custom channel's groupid field holds its chat channel's name)
ChannelTypes == {"group", "raid", "custom"}

Channel(t, g, s) == [type |-> t, groupid |-> g, sock |-> s]

SocketOpen(s) == s # NoSocket /\ s \in sockOpen

\* io_context::stopped(): after stop(), or once run() has no work left (no
\* connect outstanding and no open socket reading)
IoContextStopped ==
  \/ ioState = "stopped"
  \/ ioState = "running" /\ connecting = 0 /\ sockOpen = {}

-----------------------------------------------------------------------------
(* Helpers of VoiceChatMgr; each is part of the actions that call it.      *)

\* VoiceChatMgr::CanUseVoiceChat
CanUseVoiceChat == enabled /\ mSocket # NoSocket

\* VoiceChatMgr::CanSeeVoiceChat
CanSeeVoiceChat == enabled /\ state # DISCONNECTED

\* Group::isRaidGroup, as the callers choose between the group ("group")
\* and the raid ("raid") channel of a group
GroupKind(g) == IF g \in raids THEN "raid" ELSE "group"

\* VoiceChatMgr::GetGroupVoiceChatChannel (t = "group") and
\* GetRaidVoiceChatChannel (t = "raid"): the ids of g's channels of type t
KindChannelIds(t, g) ==
  {cid \in DOMAIN channels : channels[cid].type = t /\ channels[cid].groupid = g}

\* VoiceChatMgr::IsVoiceChatChannelBeingCreated for a channel of type t
IsVoiceChatChannelBeingCreated(t, g) ==
  \E r \in requests : r.type = t /\ r.groupid = g

\* VoiceChatServerSocket::SendPacket: dropped unless the socket is open,
\* else put on _bufferQueue
SendPacket(s, p) ==
  sendQueue' = IF SocketOpen(s) THEN [sendQueue EXCEPT ![s] = Append(@, p)]
                                ELSE sendQueue

\* VoiceChatServerSocket::Update: _bufferQueue is framed into message buffers
\* for the socket's write queue (framing left out). What is written to a
\* connection the server lost is never read, and is not kept.
FlushSocket(s) ==
  /\ toServer' = IF s \in srvDead THEN toServer
                 ELSE [toServer EXCEPT ![s] = @ \o sendQueue[s]]
  /\ sendQueue' = [sendQueue EXCEPT ![s] = <<>>]

\* Socket::CloseSocket: buffers of a closed socket are never read again
\* (VoiceChatServerSocket::Update only runs on an open socket)
CloseSocket(s) ==
  /\ sockOpen' = sockOpen \ {s}
  /\ sendQueue' = [sendQueue EXCEPT ![s] = <<>>]
  /\ toServer' = [toServer EXCEPT ![s] = <<>>]
  /\ fromServer' = [fromServer EXCEPT ![s] = <<>>]

\* VoiceChatMgr::DeleteAllChannels: DeleteVoiceChatChannel for each channel
\* (a custom channel switches its chat channel's voice off), then clear().
\* Both callers run it with m_socket null, so no DELETE_CHANNEL packet is
\* written.
DeleteAllChannels ==
  /\ channels' = <<>>
  /\ voiceOn' = [n \in CustomChannels |->
                  IF KindChannelIds("custom", n) # {} THEN FALSE ELSE voiceOn[n]]

\* VoiceChatMgr::SendVoiceChatStatus: SMSG_VOICE_CHAT_STATUS to every session
SendVoiceChatStatus(b) == announced' = b

\* VoiceChatMgr::SocketDisconnected (DeleteAllChannels runs with m_socket
\* already null, so no DELETE_CHANNEL packet is written)
SocketDisconnected ==
  /\ IF SocketOpen(mSocket) THEN CloseSocket(mSocket)
                           ELSE UNCHANGED <<sockOpen, sendQueue, toServer, fromServer>>
  /\ ioState' = "stopped"
  /\ mSocket' = NoSocket
  /\ requests' = {}
  /\ DeleteAllChannels
  /\ curReconnectAttempts' = 0

\* ActivateVoiceSocketThread + VoiceChatMgr::VoiceSocketThread: a new thread
\* stops and restarts m_ioContext and starts one more async_connect. The
\* connects already outstanding are not cancelled by stop().
\* Past MaxInFlight outstanding connects the new one is merged with them.
ActivateVoiceSocketThread ==
  /\ connecting' = IF connecting < MaxInFlight THEN connecting + 1 ELSE connecting
  /\ ioState' = "running"

\* Mutant: creation without the IsVoiceChatChannelBeingCreated check.
CreateWithoutPendingCheck(T) ==
  LET n == Cardinality(T)
  IN  IF mSocket = NoSocket \/ T = {}
      THEN UNCHANGED <<requests, newRequestId, sendQueue>>
      ELSE \E order \in Bijection(1..n, T) :
             /\ requests' = requests \cup
                  {[id |-> newRequestId + i - 1, type |-> GroupKind(order[i]),
                    groupid |-> order[i], sock |-> mSocket] : i \in 1..n}
             /\ newRequestId' = newRequestId + n
             /\ sendQueue' = IF SocketOpen(mSocket)
                             THEN [sendQueue EXCEPT ![mSocket] = @ \o
                                     [i \in 1..n |-> CreatePkt(newRequestId + i - 1)]]
                             ELSE sendQueue

\* VoiceChatMgr::CreateVoiceChatChannel(GroupKind(g), g) for every group g
\* of T, in the order the session map gives: unless m_socket is null or a
\* request for it is pending, g gets a request with the next id and a
\* CREATE_CHANNEL packet.
CreateVoiceChatChannels(T) ==
  LET todo == {g \in T : ~IsVoiceChatChannelBeingCreated(GroupKind(g), g)}
      n    == Cardinality(todo)
  IN  IF mSocket = NoSocket \/ todo = {}
      THEN UNCHANGED <<requests, newRequestId, sendQueue>>
      ELSE \E order \in Bijection(1..n, todo) :
             /\ requests' = requests \cup
                  {[id |-> newRequestId + i - 1, type |-> GroupKind(order[i]),
                    groupid |-> order[i], sock |-> mSocket] : i \in 1..n}
             /\ newRequestId' = newRequestId + n
             /\ sendQueue' = IF SocketOpen(mSocket)
                             THEN [sendQueue EXCEPT ![mSocket] = @ \o
                                     [i \in 1..n |-> CreatePkt(newRequestId + i - 1)]]
                             ELSE sendQueue

\* CreateGroupVoiceChatChannel / CreateRaidVoiceChatChannel for every group
\* of G: CreateVoiceChatChannel unless the lookup finds a channel of its kind
CreateKindVoiceChatChannels(G) ==
  CreateVoiceChatChannels({g \in G : KindChannelIds(GroupKind(g), g) = {}})

\* AddToGroupVoiceChatChannel / AddToRaidVoiceChatChannel for every group of
\* G: a group with no channel of its kind goes on to creation. (Adding the
\* member to an existing channel is membership, not modelled here.)
AddToVoiceChatChannels(G) ==
  CreateKindVoiceChatChannels({g \in G : KindChannelIds(GroupKind(g), g) = {}})

\* VoiceChatMgr::RestoreVoiceChatChannels: every group with a member whose
\* session has voice enabled
RestoreVoiceChatChannels == AddToVoiceChatChannels(voiceGroups)

\* the counter of VoiceChatMgr::Update; once past the maximum no branch
\* tells larger values apart, so it stops there
CountAttempt(n) == IF n > MaxConnectAttempts THEN n ELSE n + 1

-----------------------------------------------------------------------------
Init ==
  \* constructor, then Init() and LoadConfigs()
  /\ enabled = ConfigEnabled
  /\ state = IF ConfigEnabled THEN NOT_CONNECTED ELSE DISCONNECTED
  /\ curReconnectAttempts = 0
  /\ nextConnectIn = 0
  /\ nextPingIn = PingInterval
  /\ sincePong = 0
  /\ ranThisSecond = TRUE
  /\ announced = FALSE
  /\ mSocket = NoSocket
  /\ mRequestSocket = NoSocket
  /\ sockOpen = {}
  /\ nextSock = 1
  /\ connecting = 0
  /\ ioState = "fresh"
  /\ recvQueue = <<>>
  /\ recvCopy = <<>>
  /\ tickPc = "begin"
  /\ requests = {}
  /\ newRequestId = 1
  /\ channels = <<>>
  /\ voiceOn = [n \in CustomChannels |-> FALSE]
  /\ sendQueue = [s \in Sockets |-> <<>>]
  /\ toServer = [s \in Sockets |-> <<>>]
  /\ fromServer = [s \in Sockets |-> <<>>]
  /\ srvAlloc = [s \in Sockets |-> {}]
  /\ groups = {}
  /\ gone = {}
  /\ raids = {}
  /\ voiceGroups = {}
  /\ serverUp = TRUE
  /\ srvDead = {}
  /\ outages = 0
  /\ disables = 0

-----------------------------------------------------------------------------
(* World thread: VoiceChatMgr::Update.                                     *)

\* Update while enabled: m_socket, if open, is updated (its send queue
\* flushed) and m_recvQueue is swapped out under m_recvQueueLock.
UpdateBegin ==
  /\ tickPc = "begin"
  /\ enabled
  /\ IF SocketOpen(mSocket) THEN FlushSocket(mSocket)
                            ELSE UNCHANGED <<sendQueue, toServer>>
  /\ recvCopy' = recvQueue
  /\ recvQueue' = <<>>
  /\ tickPc' = "drain"
  /\ UNCHANGED <<mgrVars, sockVars, regVars, fromServer, srvAlloc, gameVars>>

\* the drain loop runs while m_socket is open and the copy is not empty
Draining(op) ==
  /\ tickPc = "drain"
  /\ SocketOpen(mSocket)
  /\ recvCopy # <<>>
  /\ Head(recvCopy).pkt.op = op
  /\ recvCopy' = Tail(recvCopy)

\* HandleVoiceChatServerPacket, VOICECHAT_SMSG_PONG
HandlePong ==
  /\ Draining("pong")
  /\ sincePong' = 0
  /\ UNCHANGED <<enabled, state, curReconnectAttempts, nextConnectIn, nextPingIn,
                 ranThisSecond, announced, sockVars, recvQueue, tickPc, regVars,
                 wireVars, gameVars>>

\* Mutant: CHANNEL_CREATED handled without looking at the error code.
HandleCreatedIgnoringError ==
  /\ Draining("created")
  /\ LET p     == Head(recvCopy).pkt
         match == {r \in requests : r.id = p.rid}
         r     == CHOOSE r \in match : TRUE
     IN  /\ requests' = requests \ match
         /\ channels' =
              IF /\ match # {}
                 /\ r.type = "custom" \/ r.groupid \in groups
                 /\ p.cid \notin DOMAIN channels
              THEN channels @@ (p.cid :> Channel(r.type, r.groupid, Head(recvCopy).sock))
              ELSE channels
  /\ UNCHANGED <<mgrVars, sockVars, recvQueue, tickPc, newRequestId, voiceOn,
                 wireVars, gameVars>>

\* HandleVoiceChatServerPacket, VOICECHAT_SMSG_CHANNEL_CREATED: the request
\* with that id is erased; on success a channel is created if the group
\* still exists, by an insert that keeps an entry already under that id.
HandleChannelCreated ==
  /\ Draining("created")
  /\ LET p     == Head(recvCopy).pkt
         match == {r \in requests : r.id = p.rid}
         r     == CHOOSE r \in match : TRUE
     IN  /\ requests' = requests \ match
         /\ channels' =
              IF /\ match # {}
                 /\ p.err = 0
                 /\ r.type = "custom" \/ r.groupid \in groups
                 /\ p.cid \notin DOMAIN channels
              THEN channels @@ (p.cid :> Channel(r.type, r.groupid, Head(recvCopy).sock))
              ELSE channels
  /\ UNCHANGED <<mgrVars, sockVars, recvQueue, tickPc, newRequestId, voiceOn,
                 wireVars, gameVars>>

\* a ByteBufferException while parsing: ProcessByteBufferException
HandleMalformed ==
  /\ Draining("short")
  /\ SocketDisconnected
  /\ UNCHANGED <<enabled, state, nextConnectIn, nextPingIn, sincePong,
                 ranThisSecond, announced, mRequestSocket, nextSock, connecting,
                 recvQueue, tickPc, newRequestId, srvAlloc, gameVars>>

\* Mutant: the loop stops after any packet, though m_socket is still open.
DrainEndEarly ==
  /\ tickPc = "drain"
  /\ recvCopy' = <<>>
  /\ tickPc' = "logic"
  /\ UNCHANGED <<mgrVars, sockVars, recvQueue, regVars, wireVars, gameVars>>

\* the loop stops; what is left of the copy is dropped
DrainEnd ==
  /\ tickPc = "drain"
  /\ recvCopy = <<>> \/ ~SocketOpen(mSocket)
  /\ recvCopy' = <<>>
  /\ tickPc' = "logic"
  /\ UNCHANGED <<mgrVars, sockVars, recvQueue, regVars, wireVars, gameVars>>

\* Update returns before the state logic when DISCONNECTED or when it ran
\* less than a second ago
LogicSkipped ==
  /\ tickPc = "logic"
  /\ state = DISCONNECTED \/ ranThisSecond
  /\ tickPc' = "begin"
  /\ UNCHANGED <<mgrVars, sockVars, recvQueue, recvCopy, regVars, wireVars, gameVars>>

\* the state logic runs: lastUpdate = now
Logic ==
  /\ tickPc = "logic"
  /\ state # DISCONNECTED
  /\ ~ranThisSecond
  /\ tickPc' = "begin"
  /\ ranThisSecond' = TRUE
  /\ UNCHANGED <<recvQueue, recvCopy>>

NeedConnect ==
  enabled /\ mSocket = NoSocket /\ mRequestSocket = NoSocket
  /\ state = NOT_CONNECTED /\ nextConnectIn < 0

NeedReconnect ==
  enabled /\ mSocket = NoSocket /\ mRequestSocket = NoSocket
  /\ state = RECONNECTING /\ nextConnectIn < 0

MaxAttemptsReached ==
  MaxConnectAttempts >= 0 /\ curReconnectAttempts >= MaxConnectAttempts

\* m_requestSocket is set: adopt it as m_socket and return
AdoptSocket ==
  /\ Logic
  /\ mRequestSocket # NoSocket
  /\ mSocket' = mRequestSocket
  /\ mRequestSocket' = NoSocket
  /\ UNCHANGED <<enabled, state, curReconnectAttempts, nextConnectIn, nextPingIn,
                 sincePong, announced, sockOpen, nextSock, connecting, ioState,
                 regVars, wireVars, gameVars>>

\* no m_socket while CONNECTED: the socket was dropped by SocketDisconnected
SocketLost ==
  /\ Logic
  /\ mRequestSocket = NoSocket
  /\ mSocket = NoSocket
  /\ state = CONNECTED
  /\ SocketDisconnected
  /\ state' = RECONNECTING
  /\ nextConnectIn' = ReconnectDelay
  /\ UNCHANGED <<enabled, nextPingIn, sincePong, announced, mRequestSocket,
                 nextSock, connecting, newRequestId, srvAlloc, gameVars>>

\* RECONNECTING with the attempts used up (or reconnecting disabled)
GiveUp ==
  /\ Logic
  /\ mRequestSocket = NoSocket
  /\ mSocket = NoSocket
  /\ state = RECONNECTING
  /\ MaxAttemptsReached
  /\ DeleteAllChannels
  /\ SendVoiceChatStatus(FALSE)
  /\ curReconnectAttempts' = 0
  /\ state' = DISCONNECTED
  /\ UNCHANGED <<enabled, nextConnectIn, nextPingIn, sincePong, sockVars,
                 requests, newRequestId, wireVars, gameVars>>

\* no socket and next_connect passed: start a connect, count the attempt
TryConnect ==
  /\ Logic
  /\ mRequestSocket = NoSocket
  /\ mSocket = NoSocket
  /\ state \in {NOT_CONNECTED, RECONNECTING}
  /\ ~(state = RECONNECTING /\ MaxAttemptsReached)
  /\ nextConnectIn < 0
  /\ IF NeedConnect \/ NeedReconnect
     THEN ActivateVoiceSocketThread
     ELSE UNCHANGED <<connecting, ioState>>
  /\ curReconnectAttempts' = IF MaxConnectAttempts >= 0
                             THEN CountAttempt(curReconnectAttempts)
                             ELSE curReconnectAttempts
  /\ nextConnectIn' = ReconnectDelay
  /\ UNCHANGED <<enabled, state, nextPingIn, sincePong, announced, mSocket,
                 mRequestSocket, sockOpen, nextSock, regVars, wireVars, gameVars>>

\* m_socket is set but closed while CONNECTED
SocketClosed ==
  /\ Logic
  /\ mRequestSocket = NoSocket
  /\ mSocket # NoSocket
  /\ mSocket \notin sockOpen
  /\ state = CONNECTED
  /\ SocketDisconnected
  /\ state' = RECONNECTING
  /\ UNCHANGED <<enabled, nextConnectIn, nextPingIn, sincePong, announced,
                 mRequestSocket, nextSock, connecting, newRequestId, srvAlloc,
                 gameVars>>

\* m_socket is set but closed before it was promoted: try another connect
RetryClosedSocket ==
  /\ Logic
  /\ mRequestSocket = NoSocket
  /\ mSocket # NoSocket
  /\ mSocket \notin sockOpen
  /\ state \in {NOT_CONNECTED, RECONNECTING}
  /\ nextConnectIn < 0
  /\ ActivateVoiceSocketThread
  /\ nextConnectIn' = RetryDelay
  /\ UNCHANGED <<enabled, state, curReconnectAttempts, nextPingIn, sincePong,
                 announced, mSocket, mRequestSocket, sockOpen, nextSock,
                 regVars, wireVars, gameVars>>

\* Mutant: promotion without the IsOpen check on m_socket.
PromoteClosedSocket ==
  /\ Logic
  /\ mRequestSocket = NoSocket
  /\ mSocket # NoSocket
  /\ state \in {NOT_CONNECTED, RECONNECTING}
  /\ SendVoiceChatStatus(TRUE)
  /\ RestoreVoiceChatChannels
  /\ state' = CONNECTED
  /\ curReconnectAttempts' = 0
  /\ sincePong' = 0
  /\ UNCHANGED <<enabled, nextConnectIn, nextPingIn, sockVars, channels, voiceOn,
                 toServer, fromServer, srvAlloc, gameVars>>

\* m_socket is open in NOT_CONNECTED or RECONNECTING: SendVoiceChatStatus(true),
\* RestoreVoiceChatChannels, CONNECTED, attempts reset, last_pong = now
Promote ==
  /\ Logic
  /\ mRequestSocket = NoSocket
  /\ SocketOpen(mSocket)
  /\ state \in {NOT_CONNECTED, RECONNECTING}
  /\ SendVoiceChatStatus(TRUE)
  /\ RestoreVoiceChatChannels
  /\ state' = CONNECTED
  /\ curReconnectAttempts' = 0
  /\ sincePong' = 0
  /\ UNCHANGED <<enabled, nextConnectIn, nextPingIn, sockVars, channels, voiceOn,
                 toServer, fromServer, srvAlloc, gameVars>>

\* Mutant: sending a ping also refreshes last_pong.
KeepAlivePingRefreshesPong ==
  /\ Logic
  /\ mRequestSocket = NoSocket
  /\ SocketOpen(mSocket)
  /\ state = CONNECTED
  /\ nextPingIn <= 0 \/ sincePong > PongTimeout
  /\ nextPingIn' = IF nextPingIn <= 0 THEN PingInterval ELSE nextPingIn
  /\ IF sincePong > PongTimeout
     THEN /\ SocketDisconnected
          /\ state' = RECONNECTING
          /\ nextConnectIn' = ReconnectDelay
          /\ UNCHANGED sincePong
     ELSE /\ SendPacket(mSocket, PingPkt)
          /\ sincePong' = 0
          /\ UNCHANGED <<state, nextConnectIn, sockOpen, toServer, fromServer, ioState,
                         mSocket, requests, channels, voiceOn, curReconnectAttempts>>
  /\ UNCHANGED <<enabled, announced, mRequestSocket, nextSock,
                 connecting, newRequestId, srvAlloc, gameVars>>

\* CONNECTED with m_socket open: ping when due, then the ping timeout
KeepAlive ==
  /\ Logic
  /\ mRequestSocket = NoSocket
  /\ SocketOpen(mSocket)
  /\ state = CONNECTED
  /\ nextPingIn <= 0 \/ sincePong > PongTimeout
  /\ nextPingIn' = IF nextPingIn <= 0 THEN PingInterval ELSE nextPingIn
  /\ IF sincePong > PongTimeout
     THEN /\ SocketDisconnected
          /\ state' = RECONNECTING
          /\ nextConnectIn' = ReconnectDelay
     ELSE /\ SendPacket(mSocket, PingPkt)
          /\ UNCHANGED <<state, nextConnectIn, sockOpen, toServer, fromServer, ioState,
                         mSocket, requests, channels, voiceOn, curReconnectAttempts>>
  /\ UNCHANGED <<enabled, sincePong, announced, mRequestSocket, nextSock,
                 connecting, newRequestId, srvAlloc, gameVars>>

\* the state logic ran and none of its branches had anything to do
LogicIdle ==
  /\ Logic
  /\ mRequestSocket = NoSocket
  /\ \/ mSocket = NoSocket /\ state # CONNECTED
        /\ ~(state = RECONNECTING /\ MaxAttemptsReached) /\ nextConnectIn >= 0
     \/ mSocket # NoSocket /\ mSocket \notin sockOpen /\ state # CONNECTED
        /\ nextConnectIn >= 0
     \/ SocketOpen(mSocket) /\ state = CONNECTED
        /\ nextPingIn > 0 /\ sincePong <= PongTimeout
  /\ UNCHANGED <<enabled, state, curReconnectAttempts, nextConnectIn, nextPingIn,
                 sincePong, announced, sockVars, regVars, wireVars, gameVars>>

UpdateLogic ==
  \/ LogicSkipped \/ AdoptSocket \/ SocketLost \/ GiveUp \/ TryConnect
  \/ SocketClosed \/ RetryClosedSocket \/ Promote \/ KeepAlive \/ LogicIdle

WorldThread ==
  \/ UpdateBegin \/ HandlePong \/ HandleChannelCreated \/ HandleMalformed
  \/ DrainEnd \/ UpdateLogic

-----------------------------------------------------------------------------
(* Network thread: completions run only while m_ioContext is running; a   *)
(* stopped context keeps them pending until the next VoiceSocketThread.    *)

IoRunning == ioState = "running"

\* AsyncConnector::Connect handler with an error: nothing happens
ConnectFails ==
  /\ IoRunning
  /\ connecting > 0
  /\ connecting' = connecting - 1
  /\ UNCHANGED <<mgrVars, mSocket, mRequestSocket, sockOpen, nextSock, ioState,
                 tickVars, regVars, wireVars, gameVars>>

\* VoiceChatMgr::RequestNewSocket: refused while m_requestSocket is taken
RequestNewSocket(s) ==
  mRequestSocket' = IF mRequestSocket = NoSocket THEN s ELSE mRequestSocket

\* AsyncConnector::Connect handler on success: VoiceChatServerSocket::Start
\* offers the socket through RequestNewSocket (refused if m_requestSocket is
\* taken) and starts reading either way
ConnectSucceeds ==
  /\ IoRunning
  /\ connecting > 0
  /\ serverUp
  /\ nextSock <= MaxSockets
  /\ connecting' = connecting - 1
  /\ sockOpen' = sockOpen \cup {nextSock}
  /\ nextSock' = nextSock + 1
  /\ RequestNewSocket(nextSock)
  /\ UNCHANGED <<mgrVars, mSocket, ioState, tickVars, regVars, wireVars, gameVars>>

\* VoiceChatMgr::QueuePacket: appended to m_recvQueue under m_recvQueueLock
QueuePacket(s, p) == recvQueue' = Append(recvQueue, [sock |-> s, pkt |-> p])

\* VoiceChatServerSocket::ReadDataHandler for packet p of socket s: queued
\* with QueuePacket if CanUseVoiceChat, else the socket is closed
ReadDataHandler(s, p) ==
  IF CanUseVoiceChat
  THEN /\ QueuePacket(s, p)
       /\ fromServer' = [fromServer EXCEPT ![s] = Tail(@)]
       /\ UNCHANGED <<sockOpen, sendQueue, toServer>>
  ELSE /\ CloseSocket(s)
       /\ UNCHANGED recvQueue

\* VoiceChatServerSocket::ReadHandler with a whole packet of socket s read
ReadPacket(s) ==
  /\ IoRunning
  /\ SocketOpen(s)
  /\ fromServer[s] # <<>>
  /\ ReadDataHandler(s, Head(fromServer[s]))
  /\ UNCHANGED <<mgrVars, mSocket, mRequestSocket, nextSock, connecting, ioState,
                 recvCopy, tickPc, regVars, srvAlloc, gameVars>>

\* the read or write handler sees the connection closed, reset, or a header
\* ReadHeaderHandler rejects: Socket::CloseSocket
ConnectionDrops(s) ==
  /\ IoRunning
  /\ SocketOpen(s)
  /\ CloseSocket(s)
  /\ UNCHANGED <<mgrVars, mSocket, mRequestSocket, nextSock, connecting, ioState,
                 tickVars, regVars, srvAlloc, gameVars>>

-----------------------------------------------------------------------------
(* The voice server: one session per connection, answering in order.      *)

ServerReplies(p, s) ==
  CASE p.op = "create" ->
         {CreatedPkt(p.rid, 0, cid) : cid \in ChannelIds \ srvAlloc[s]}
           \cup {CreatedPkt(p.rid, 1, 0), ShortPkt}
    [] p.op = "ping"   -> {PongPkt}
    [] p.op = "delete" -> {}

ServerHandles(s) ==
  /\ IoRunning
  /\ SocketOpen(s)
  /\ s \notin srvDead
  /\ toServer[s] # <<>>
  /\ LET p == Head(toServer[s]) IN
     /\ toServer' = [toServer EXCEPT ![s] = Tail(@)]
     /\ \/ ServerReplies(p, s) = {}
           /\ fromServer' = fromServer
           /\ srvAlloc' = [srvAlloc EXCEPT ![s] = @ \ {p.cid}]
        \/ \E r \in ServerReplies(p, s) :
             /\ fromServer' = [fromServer EXCEPT ![s] = Append(@, r)]
             /\ srvAlloc' = IF r.op = "created" /\ r.err = 0
                            THEN [srvAlloc EXCEPT ![s] = @ \cup {r.cid}]
                            ELSE srvAlloc
  /\ UNCHANGED <<mgrVars, sockVars, tickVars, regVars, sendQueue, gameVars>>

\* the server goes away: it accepts no connection until it is back, and
\* the connections it had are never read or answered again
ServerDown ==
  /\ serverUp
  /\ outages < MaxOutages
  /\ serverUp' = FALSE
  /\ outages' = outages + 1
  /\ srvDead' = srvDead \cup sockOpen
  /\ toServer' = [s \in Sockets |-> IF s \in sockOpen THEN <<>> ELSE toServer[s]]
  /\ UNCHANGED <<mgrVars, sockVars, tickVars, regVars, sendQueue, fromServer, srvAlloc,
                 groups, gone, raids, voiceGroups, disables>>

ServerUp ==
  /\ ~serverUp
  /\ serverUp' = TRUE
  /\ UNCHANGED <<mgrVars, sockVars, tickVars, regVars, wireVars, groups, gone, raids,
                 voiceGroups, srvDead, outages, disables>>

-----------------------------------------------------------------------------
(* The game world, on the world thread between two Updates.                *)

FormGroup(g) ==
  /\ tickPc = "begin"
  /\ g \notin groups \cup gone
  /\ groups' = groups \cup {g}
  /\ UNCHANGED <<mgrVars, sockVars, tickVars, regVars, wireVars, gone, raids,
                 voiceGroups, serverUp, srvDead, outages, disables>>

\* VoiceChatMgr::DeleteVoiceChatChannel: unregistered, and the server told
\* if m_socket is set
DeleteVoiceChatChannel(cid) ==
  /\ channels' = [c \in DOMAIN channels \ {cid} |-> channels[c]]
  /\ voiceOn' = IF channels[cid].type = "custom"
                THEN [voiceOn EXCEPT ![channels[cid].groupid] = FALSE]
                ELSE voiceOn
  /\ IF mSocket # NoSocket THEN SendPacket(mSocket, DeletePkt(cid))
                           ELSE UNCHANGED sendQueue

\* VoiceChatMgr::DeleteGroupVoiceChatChannel (t = "group") and
\* DeleteRaidVoiceChatChannel (t = "raid"): the first channel the lookup
\* finds is deleted
DeleteKindVoiceChatChannel(t, g) ==
  IF KindChannelIds(t, g) = {}
  THEN UNCHANGED <<channels, voiceOn, sendQueue>>
  ELSE DeleteVoiceChatChannel(CHOOSE c \in KindChannelIds(t, g) : TRUE)

\* the group disbands and the channel of its kind is deleted (Group code,
\* not in the repository; spec: a channel is destroyed when its group or
\* raid disbands)
DisbandGroup(g) ==
  /\ tickPc = "begin"
  /\ g \in groups
  /\ groups' = groups \ {g}
  /\ gone' = gone \cup {g}
  /\ voiceGroups' = voiceGroups \ {g}
  /\ DeleteKindVoiceChatChannel(GroupKind(g), g)
  /\ UNCHANGED <<mgrVars, sockVars, tickVars, requests, newRequestId, toServer,
                 fromServer, srvAlloc, raids, serverUp, srvDead, outages, disables>>

\* VoiceChatMgr::ConvertToRaidChannel: the group's channel, if the lookup
\* finds one, becomes a raid channel in place (VoiceChatChannel::ConvertToRaid)
ConvertToRaidChannel(g) ==
  channels' = [c \in DOMAIN channels |->
                 IF c \in KindChannelIds("group", g)
                 THEN [channels[c] EXCEPT !.type = "raid"] ELSE channels[c]]

\* a party becomes a raid (Group::ConvertToRaid, not in the repository)
\* and its voice channel follows
ConvertToRaid(g) ==
  /\ tickPc = "begin"
  /\ g \in (groups \cap RaidGroups) \ raids
  /\ raids' = raids \cup {g}
  /\ ConvertToRaidChannel(g)
  /\ UNCHANGED <<mgrVars, sockVars, tickVars, requests, newRequestId, voiceOn, wireVars,
                 groups, gone, voiceGroups, serverUp, srvDead, outages, disables>>

\* VoiceChatMgr::JoinAvailableVoiceChatChannels for a member of group g
JoinAvailableVoiceChatChannels(g) ==
  IF CanUseVoiceChat THEN AddToVoiceChatChannels({g})
                     ELSE UNCHANGED <<requests, newRequestId, sendQueue>>

\* HandleVoiceSessionEnableOpcode with voice on, from a member of group g
\* whose session had voice off
VoiceSessionEnable(g) ==
  /\ tickPc = "begin"
  /\ CanSeeVoiceChat
  /\ g \in groups
  /\ newRequestId <= MaxRequestId
  /\ voiceGroups' = voiceGroups \cup {g}
  /\ JoinAvailableVoiceChatChannels(g)
  /\ UNCHANGED <<mgrVars, sockVars, tickVars, channels, voiceOn, toServer, fromServer, srvAlloc,
                 groups, gone, raids, serverUp, srvDead, outages, disables>>

\* VoiceChatMgr::GetCustomVoiceChatChannel(name, team): the ids of the
\* custom channels of chat channel n (one team)
CustomChannelIds(n) == KindChannelIds("custom", n)

\* VoiceChatMgr::CreateCustomVoiceChatChannel: unless the lookup finds a
\* channel, CreateVoiceChatChannel(VOICECHAT_CHANNEL_CUSTOM, 0, name, team):
\* nothing without m_socket or with a request pending, else a request with
\* the next id and a CREATE_CHANNEL packet
CreateCustomVoiceChatChannel(n) ==
  IF \/ CustomChannelIds(n) # {}
     \/ mSocket = NoSocket
     \/ IsVoiceChatChannelBeingCreated("custom", n)
  THEN UNCHANGED <<requests, newRequestId, sendQueue>>
  ELSE /\ requests' = requests \cup
            {[id |-> newRequestId, type |-> "custom", groupid |-> n, sock |-> mSocket]}
       /\ newRequestId' = newRequestId + 1
       /\ SendPacket(mSocket, CreatePkt(newRequestId))

\* WorldSession::HandleChannelVoiceOnOpcode for a chat channel n the player
\* is in (not LFG, not constant): returns unless CanUseVoiceChat, or if its
\* voice is already on; else Channel::ToggleVoice turns it on and the
\* custom voice channel is created
HandleChannelVoiceOnOpcode(n) ==
  /\ tickPc = "begin"
  /\ CanUseVoiceChat
  /\ newRequestId <= MaxRequestId
  /\ ~voiceOn[n]
  /\ voiceOn' = [voiceOn EXCEPT ![n] = TRUE]
  /\ CreateCustomVoiceChatChannel(n)
  /\ UNCHANGED <<mgrVars, sockVars, tickVars, channels, toServer, fromServer, srvAlloc,
                 gameVars>>

-----------------------------------------------------------------------------
(* Console commands, on the world thread.                                  *)

DisableVoiceChat ==
  /\ tickPc = "begin"
  /\ disables < MaxDisables
  /\ disables' = disables + 1
  /\ IF ~IoContextStopped \/ SocketOpen(mSocket)
     THEN SocketDisconnected
     ELSE UNCHANGED <<sockOpen, sendQueue, toServer, fromServer, ioState, mSocket, requests,
                      channels, voiceOn, curReconnectAttempts>>
  /\ enabled' = FALSE
  /\ state' = DISCONNECTED
  /\ SendVoiceChatStatus(FALSE)
  /\ UNCHANGED <<nextConnectIn, nextPingIn, sincePong, ranThisSecond,
                 mRequestSocket, nextSock, connecting, tickVars, newRequestId,
                 srvAlloc, groups, gone, raids, voiceGroups, serverUp, srvDead, outages>>

\* EnableVoiceChat: enabled = true, then Init (LoadConfigs reads
\* VoiceChat.Enabled again) and SendVoiceChatStatus(true)
EnableVoiceChat ==
  /\ tickPc = "begin"
  /\ ~enabled
  /\ enabled' = ConfigEnabled
  /\ nextPingIn' = PingInterval
  /\ sincePong' = 0
  /\ ranThisSecond' = TRUE
  /\ curReconnectAttempts' = 0
  /\ state' = IF ConfigEnabled THEN NOT_CONNECTED ELSE DISCONNECTED
  /\ SendVoiceChatStatus(TRUE)
  /\ UNCHANGED <<nextConnectIn, sockVars, tickVars, regVars, wireVars, gameVars>>

-----------------------------------------------------------------------------
\* The server keeps up with the client on the connections it serves: a
\* second does not end with more than MaxBacklog packets in flight on one
\* (the code itself would queue without limit).
ServerKeepsUp ==
  IoRunning =>
    \A s \in sockOpen \ srvDead : Len(toServer[s]) + Len(fromServer[s]) <= MaxBacklog

\* one second of time(nullptr) passes, between two calls of Update (one call
\* takes far less than a second); the world thread runs Update many times a
\* second, so the state logic has run in the second that ends
Tick ==
  /\ tickPc = "begin"
  /\ ranThisSecond \/ state = DISCONNECTED
  /\ ServerKeepsUp
  /\ nextConnectIn' = IF nextConnectIn > -1 THEN nextConnectIn - 1 ELSE -1
  /\ nextPingIn' = IF nextPingIn > 0 THEN nextPingIn - 1 ELSE 0
  /\ sincePong' = IF sincePong <= PongTimeout THEN sincePong + 1 ELSE sincePong
  /\ ranThisSecond' = FALSE
  /\ UNCHANGED <<enabled, state, curReconnectAttempts, announced, sockVars,
                 tickVars, regVars, wireVars, gameVars>>

NetworkThread ==
  \/ ConnectFails \/ ConnectSucceeds
  \/ \E s \in Sockets : ReadPacket(s) \/ ConnectionDrops(s)

Server == ServerDown \/ ServerUp \/ \E s \in Sockets : ServerHandles(s)

Game ==
  \/ \E g \in Groups : \/ FormGroup(g) \/ DisbandGroup(g) \/ ConvertToRaid(g)
                      \/ VoiceSessionEnable(g)
  \/ \E n \in CustomChannels : HandleChannelVoiceOnOpcode(n)

Next ==
  \/ WorldThread \/ NetworkThread \/ Server \/ Game
  \/ DisableVoiceChat \/ EnableVoiceChat \/ Tick

\* The world thread and the clock always progress (Tick is strongly fair:
\* it is enabled only between two calls of Update, and the world thread
\* keeps returning there); a pending connect always completes one way or
\* the other; a socket with data is read; the server answers while up.
\* Drops, outages and console commands are not assumed.
Fairness ==
  /\ WF_vars(WorldThread)
  /\ SF_vars(Tick)
  /\ WF_vars(ConnectFails \/ ConnectSucceeds)
  /\ \A s \in Sockets : WF_vars(ReadPacket(s)) /\ WF_vars(ServerHandles(s))

Spec == Init /\ [][Next]_vars /\ Fairness

-----------------------------------------------------------------------------
(* Properties.                                                             *)

Packets ==
  {CreatePkt(i) : i \in Nat} \cup {PingPkt, PongPkt, ShortPkt}
    \cup {DeletePkt(c) : c \in ChannelIds}
    \cup {CreatedPkt(i, e, c) : i \in Nat, e \in {0, 1}, c \in ChannelIds \cup {0}}

TypeOK ==
  /\ enabled \in BOOLEAN
  /\ state \in {DISCONNECTED, NOT_CONNECTED, CONNECTED, RECONNECTING}
  /\ curReconnectAttempts \in 0..(MaxConnectAttempts + 1)
  /\ nextConnectIn \in -1..ReconnectDelay
  /\ nextPingIn \in 0..PingInterval
  /\ sincePong \in 0..(PongTimeout + 1)
  /\ mSocket \in Sockets \cup {NoSocket}
  /\ mRequestSocket \in Sockets \cup {NoSocket}
  /\ sockOpen \subseteq 1..(nextSock - 1)
  /\ connecting \in 0..MaxInFlight
  /\ ioState \in {"fresh", "running", "stopped"}
  /\ tickPc \in {"begin", "drain", "logic"}
  /\ \A i \in 1..Len(recvQueue) : recvQueue[i].sock \in Sockets
  /\ \A r \in requests : r.id \in 1..(newRequestId - 1) /\ r.groupid \in Groups \cup CustomChannels
                         /\ r.type \in ChannelTypes
  /\ voiceOn \in [CustomChannels -> BOOLEAN]
  /\ DOMAIN channels \subseteq ChannelIds
  /\ \A c \in DOMAIN channels : channels[c].type \in ChannelTypes
  /\ \A s \in Sockets : srvAlloc[s] \subseteq ChannelIds
  /\ srvDead \subseteq Sockets
  /\ groups \cup gone \subseteq Groups /\ voiceGroups \subseteq groups
  /\ raids \subseteq groups \cup gone

\* The creation dedup (Get{Group,Raid}VoiceChatChannel, then
\* IsVoiceChatChannelBeingCreated in CreateVoiceChatChannel) keeps one
\* channel or one pending request per (type, group), across sessions
\* enabling voice, raid conversions, reconnect restores and replies drained
\* on the world thread (spec: a channel exists at most once per unique
\* (type, groupOrInstanceId)).
NoDuplicateChannel ==
  \A t \in ChannelTypes, g \in Groups \cup CustomChannels :
    Cardinality(KindChannelIds(t, g))
      + Cardinality({r \in requests : r.type = t /\ r.groupid = g}) <= 1

\* While a session is live, every channel request made on it is still on
\* its way: its CREATE_CHANNEL in _bufferQueue or on the wire, its
\* CHANNEL_CREATED in the server's answers, in m_recvQueue or in the copy
\* Update drains, or a malformed answer ahead of it (which ends the session).
\* A request whose answer was consumed or dropped (the drain loop, the
\* error path of HandleVoiceChatServerPacket) while it stays in m_requests
\* would block its group's channel for the whole session.
AnswersRequest(p, i) == \/ p.op = "short"
                        \/ p.op = "created" /\ p.rid = i

ReplyOnTheWay(s, i) ==
  \/ \E q \in {sendQueue[s], toServer[s]} : \E j \in DOMAIN q : q[j] = CreatePkt(i)
  \/ \E j \in DOMAIN fromServer[s] : AnswersRequest(fromServer[s][j], i)
  \/ \E q \in {recvQueue, recvCopy} : \E j \in DOMAIN q :
       q[j].sock = s /\ AnswersRequest(q[j].pkt, i)

RequestsAnswerable ==
  \A s \in Sockets :
    SocketOpen(s) /\ s = mSocket /\ s \notin srvDead =>
      \A r \in requests : r.sock = s => ReplyOnTheWay(s, r.id)

\* DisableVoiceChat tears down the socket and the registry whatever the
\* state of the I/O context (spec: explicit disable unconditionally tears
\* down the socket and execution context).
DisableTearsDown ==
  [][enabled /\ ~enabled' =>
       mSocket' = NoSocket /\ channels' = <<>> /\ requests' = {}]_vars

\* If the voice server goes away for good, the ping timeout in Update takes
\* the manager out of CONNECTED for good.
KeepaliveDetectsDeadServer ==
  <>[](~serverUp) => <>[](state # CONNECTED)

\* While the manager stays CONNECTED, every channel-creation request is
\* answered: a request never stays in m_requests for good (where it would
\* keep IsVoiceChatChannelBeingCreated true and block its group's channel).
Pending(i) == \E r \in requests : r.id = i

PendingRequestResolves ==
  \A i \in RequestIds :
    (Pending(i) /\ state = CONNECTED) ~> (~Pending(i) \/ state # CONNECTED)

\* VoiceChat.MaxConnectAttempts >= 0: when the server is gone for good the
\* manager ends in DISCONNECTED (spec: NotConnected/Reconnecting ->
\* Disconnected when the counter reaches the maximum).
GivesUpAfterMaxAttempts ==
  MaxConnectAttempts >= 0 /\ <>[](~serverUp) => <>(state = DISCONNECTED)

\* Channel ids are only meaningful on the server session that created them
\* (spec: the registry is cleared when the connection is lost, and the
\* connector is torn down for every attempt to avoid stale callbacks):
\* every registered channel was created on the session of m_socket.
ChannelsOnCurrentSession ==
  \A c \in DOMAIN channels : channels[c].sock = mSocket

\* A voice channel does not outlive its group (spec: destroyed immediately
\* when the group or raid disbands): a group channel created for a party
\* that became a raid meanwhile is not found by DeleteRaidVoiceChatChannel.
NoChannelOfDisbandedGroup ==
  \A c \in DOMAIN channels : channels[c].groupid \notin gone

\* VoiceChatMgr implements the abstract connection of VoiceChatConnection:
\* the state is the reported status and the link is m_socket being open.
\* Every step of Update, the network thread and the console is a step of
\* the abstraction or leaves it unchanged (CONNECTED is entered only over
\* an open m_socket, lost only through SocketDisconnected), and a live
\* m_socket is promoted and a lost one noticed by the state logic.
Conn == INSTANCE VoiceChatConnection WITH status <- state, link <- SocketOpen(mSocket)

ImplementsConnection == Conn!Spec

\* the same, for the steps only: no step of VoiceChatMgr leaves the
\* abstract connection's state machine
ImplementsConnectionSteps == Conn!SafetySpec

\* Every channel the voice server has allocated on the live session is
\* known to the manager: registered in m_VoiceChatChannels, still on its
\* way back as a CHANNEL_CREATED reply, or on its way out as a
\* DELETE_CHANNEL. (HandleVoiceChatServerPacket creates no channel and
\* sends no delete when the reply's group has disbanded meanwhile.)
Live(s) == SocketOpen(s) /\ s = mSocket /\ s \notin srvDead /\ state = CONNECTED

CreatedOnTheWay(s, cid) ==
  \/ \E i \in DOMAIN fromServer[s] : fromServer[s][i] = CreatedPkt(fromServer[s][i].rid, 0, cid)
  \/ \E q \in {recvQueue, recvCopy} : \E i \in DOMAIN q :
       q[i].sock = s /\ q[i].pkt.op = "created" /\ q[i].pkt.err = 0 /\ q[i].pkt.cid = cid

DeleteOnTheWay(s, cid) ==
  \E q \in {sendQueue[s], toServer[s]} : \E i \in DOMAIN q : q[i] = DeletePkt(cid)

ServerChannelsAccounted ==
  \A s \in Sockets : Live(s) =>
    \A cid \in srvAlloc[s] :
      \/ cid \in DOMAIN channels /\ channels[cid].sock = s
      \/ CreatedOnTheWay(s, cid)
      \/ DeleteOnTheWay(s, cid)

\* A chat channel whose voice is on has a custom voice channel or a
\* request for one pending: HandleChannelVoiceOnOpcode turns the chat
\* channel's voice on before the creation is answered, and returns early
\* for a channel whose voice is on, so a creation that never completes
\* (an error reply, a socket lost with m_requests cleared) must switch the
\* voice off again or the chat channel can never get a voice channel.
VoiceFlagBacked ==
  \A n \in CustomChannels :
    voiceOn[n] => CustomChannelIds(n) # {} \/ IsVoiceChatChannelBeingCreated("custom", n)
====
