--------------------------- MODULE VoiceChatFrame ---------------------------
(***************************************************************************)
(* The read side of the voice server connection at the byte level         *)
(* (VoiceChatServerSocket.cpp): the server's frames arrive as one byte    *)
(* stream cut into reads of any length; ReadHandler accumulates each      *)
(* 4-byte header in _headerBuffer, validates it (ReadHeaderHandler), then *)
(* accumulates exactly `size` payload bytes in _packetBuffer and hands    *)
(* the message to the manager's queue (ReadDataHandler), which refuses it *)
(* and closes the socket while the manager cannot use voice chat.         *)
(*                                                                         *)
(* The server's frames use the layout of the code's own outbound header   *)
(* (VoiceChatServerPktHeader), which spec 4.2 says the inbound header     *)
(* mirrors. Which frames the server sends is fixed in Init; an invalid    *)
(* header ends the stream the model sends (the socket closes at it).      *)
(***************************************************************************)
EXTENDS Naturals, Sequences, SequencesExt

CONSTANTS
  Frames,     \* frames the server may send: [cmd, size, body]
  MaxFrames   \* bound: frames in one stream

ASSUME MaxFrames \in Nat

\* VoiceChatServerOpcodes: VOICECHAT_NUM_OPCODES
VOICECHAT_NUM_OPCODES == 12

VARIABLES
  sent,        \* the frames the server sends on this connection
  pos,         \* bytes of the stream the socket has read so far
  hdr,         \* _headerBuffer: the header bytes received (0 to 4)
  pay,         \* _packetBuffer: the payload bytes received
  need,        \* _packetBuffer's size after Resize(header->size)
  recvQueue,   \* messages handed to VoiceChatMgr::QueuePacket
  open,        \* Socket::IsOpen
  canUse,      \* VoiceChatMgr::CanUseVoiceChat as the socket sees it
  refused      \* ReadDataHandler closed the socket for !CanUseVoiceChat

vars == <<sent, pos, hdr, pay, need, recvQueue, open, canUse, refused>>

-----------------------------------------------------------------------------
\* VoiceChatServerPktHeader(size, cmd): cmd low, cmd high, size low, size
\* high byte
VoiceChatServerPktHeader(size, cmd) ==
  << cmd % 256, (cmd \div 256) % 256, size % 256, (size \div 256) % 256 >>

\* the bytes of a frame as the server sends them
Encode(f) == VoiceChatServerPktHeader(f.size, f.cmd) \o f.body

\* the whole stream of this connection
Stream == FlattenSeq([i \in 1..Len(sent) |-> Encode(sent[i])])

\* VoiceChatFromServerPktHeader read in place from _headerBuffer: two
\* little-endian uint16 fields, cmd then size
HeaderCmd(h)  == h[1] + 256 * h[2]

\* Mutant: size read in network byte order.
HeaderSizeBigEndian(h) == h[4] + 256 * h[3]

HeaderSize(h) == h[3] + 256 * h[4]

\* Mutant: a two-byte payload is already too small.
IsValidSizeFromThree(h) == HeaderSize(h) > 2 /\ HeaderSize(h) < 10240

\* VoiceChatFromServerPktHeader::IsValidSize
IsValidSize(h) == HeaderSize(h) >= 2 /\ HeaderSize(h) < 10240

\* Mutant: the opcode count itself is accepted.
IsValidOpcodeInclusive(h) == HeaderCmd(h) <= VOICECHAT_NUM_OPCODES

\* VoiceChatFromServerPktHeader::IsValidOpcode
IsValidOpcode(h) == HeaderCmd(h) < VOICECHAT_NUM_OPCODES

\* the message ReadDataHandler builds from the two buffers
Message(h, p) == [opcode |-> HeaderCmd(h), body |-> p]

Min2(a, b) == IF a < b THEN a ELSE b

\* Mutant: _packetBuffer is resized before the header is validated.
RECURSIVE ReadLoopResizeFirst(_, _)
ReadLoopResizeFirst(st, buf) ==
  IF buf = <<>> THEN st
  ELSE IF Len(st.hdr) < 4
  THEN LET k    == Min2(Len(buf), 4 - Len(st.hdr))
           h    == st.hdr \o SubSeq(buf, 1, k)
           rest == SubSeq(buf, k + 1, Len(buf))
       IN  IF Len(h) < 4 THEN [st EXCEPT !.hdr = h]
           ELSE IF ~IsValidSize(h) \/ ~IsValidOpcode(h)
           THEN [st EXCEPT !.hdr = h, !.need = HeaderSize(h), !.open = FALSE]
           ELSE ReadLoopResizeFirst([st EXCEPT !.hdr = h, !.pay = <<>>,
                                               !.need = HeaderSize(h)], rest)
  ELSE LET k    == Min2(Len(buf), st.need - Len(st.pay))
           p    == st.pay \o SubSeq(buf, 1, k)
           rest == SubSeq(buf, k + 1, Len(buf))
       IN  IF Len(p) < st.need THEN [st EXCEPT !.pay = p]
           ELSE IF ~st.canUse
           THEN [st EXCEPT !.hdr = <<>>, !.pay = <<>>, !.need = 0,
                           !.open = FALSE, !.refused = TRUE]
           ELSE ReadLoopResizeFirst([st EXCEPT !.hdr = <<>>, !.pay = <<>>, !.need = 0,
                                               !.queue = Append(@, Message(st.hdr, p))],
                                    rest)

\* The while loop of VoiceChatServerSocket::ReadHandler over the bytes buf
\* of one read, from parser state st: fill the header; once complete,
\* ReadHeaderHandler closes the socket on an invalid one or resizes
\* _packetBuffer; fill the payload; once complete, ReadDataHandler queues
\* the message (or closes the socket without CanUseVoiceChat) and the
\* header buffer is reset. A read that leaves a buffer short ends the loop.
RECURSIVE ReadLoop(_, _)
ReadLoop(st, buf) ==
  IF buf = <<>> THEN st
  ELSE IF Len(st.hdr) < 4
  THEN LET k    == Min2(Len(buf), 4 - Len(st.hdr))
           h    == st.hdr \o SubSeq(buf, 1, k)
           rest == SubSeq(buf, k + 1, Len(buf))
       IN  IF Len(h) < 4 THEN [st EXCEPT !.hdr = h]
           ELSE IF ~IsValidSize(h) \/ ~IsValidOpcode(h)
           THEN [st EXCEPT !.hdr = h, !.open = FALSE]
           ELSE ReadLoop([st EXCEPT !.hdr = h, !.pay = <<>>, !.need = HeaderSize(h)],
                         rest)
  ELSE LET k    == Min2(Len(buf), st.need - Len(st.pay))
           p    == st.pay \o SubSeq(buf, 1, k)
           rest == SubSeq(buf, k + 1, Len(buf))
       IN  IF Len(p) < st.need THEN [st EXCEPT !.pay = p]
           ELSE IF ~st.canUse
           THEN [st EXCEPT !.hdr = <<>>, !.pay = <<>>, !.need = 0,
                           !.open = FALSE, !.refused = TRUE]
           ELSE ReadLoop([st EXCEPT !.hdr = <<>>, !.pay = <<>>, !.need = 0,
                                    !.queue = Append(@, Message(st.hdr, p))],
                         rest)

-----------------------------------------------------------------------------
Init ==
  /\ sent \in SeqOf(Frames, MaxFrames)
  /\ pos = 0
  /\ hdr = <<>> /\ pay = <<>> /\ need = 0
  /\ recvQueue = <<>>
  /\ open = TRUE
  /\ canUse \in BOOLEAN
  /\ refused = FALSE

\* An AsyncRead completes with the next k bytes of the stream and
\* ReadHandler runs over them (nothing once the socket is closed).
ReadHandler(k) ==
  /\ open
  /\ LET st == ReadLoop([hdr |-> hdr, pay |-> pay, need |-> need,
                         queue |-> recvQueue, open |-> open,
                         canUse |-> canUse, refused |-> refused],
                        SubSeq(Stream, pos + 1, pos + k))
     IN  /\ pos' = pos + k
         /\ hdr' = st.hdr /\ pay' = st.pay /\ need' = st.need
         /\ recvQueue' = st.queue /\ open' = st.open /\ refused' = st.refused
  /\ UNCHANGED <<sent, canUse>>

\* The world thread promotes this socket to m_socket (VoiceChatMgr::Update).
Promote ==
  /\ ~canUse
  /\ canUse' = TRUE
  /\ UNCHANGED <<sent, pos, hdr, pay, need, recvQueue, open, refused>>

Next ==
  \/ \E k \in 1..(Len(Stream) - pos) : ReadHandler(k)
  \/ Promote

\* reading stops with the stream or with the socket: no step is left then
Spec == Init /\ [][Next]_vars

-----------------------------------------------------------------------------
(* Properties                                                              *)

\* spec 4.2: a received header is valid when size is in [2, 10240) and the
\* opcode is below the opcode count
SpecValid(f) == f.size \in 2..10239 /\ f.cmd \in 0..(VOICECHAT_NUM_OPCODES - 1)

\* the messages the frames stand for, up to the first invalid one
RECURSIVE ValidPrefix(_)
ValidPrefix(fs) ==
  IF fs = <<>> \/ ~SpecValid(Head(fs)) THEN <<>>
  ELSE <<[opcode |-> Head(fs).cmd, body |-> Head(fs).body]>> \o ValidPrefix(Tail(fs))

\* The buffers stay within the header and a valid payload size.
TypeOK ==
  /\ sent \in SeqOf(Frames, MaxFrames)
  /\ pos \in 0..Len(Stream)
  /\ Len(hdr) <= 4 /\ need \in 0..10239 /\ Len(pay) <= need
  /\ open \in BOOLEAN /\ canUse \in BOOLEAN /\ refused \in BOOLEAN

\* Whatever the reads cut the stream into, the messages queued for the
\* manager are the server's valid frames in order, each with its opcode and
\* exactly its payload (ReadHandler's header and payload accumulation).
FramesInOrder == IsPrefix(recvQueue, ValidPrefix(sent))

\* The socket is closed only at a frame the spec calls malformed (the next
\* one not queued) or because a frame completed while the manager could not
\* use voice chat (ReadHeaderHandler and ReadDataHandler).
ClosesOnlyOnFault ==
  ~open =>
    \/ refused
    \/ Len(recvQueue) < Len(sent) /\ ~SpecValid(sent[Len(recvQueue) + 1])

\* Once the whole stream has been read over an open socket, every frame has
\* been queued: no read boundary leaves a frame behind in a buffer.
StreamFullyDecoded ==
  pos = Len(Stream) /\ open => Len(recvQueue) = Len(sent)

====
