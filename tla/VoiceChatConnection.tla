------------------------ MODULE VoiceChatConnection ------------------------
(***************************************************************************)
(* What the voice-chat manager promises about its connection, without the *)
(* threads, timers, packets and channel registry: the VoiceChatState it   *)
(* reports, whether voice chat is enabled, and whether the socket it       *)
(* works with (m_socket) is an open connection to the voice server.        *)
(*                                                                         *)
(* The manager reports CONNECTED only over a live link; a link that is     *)
(* lost while CONNECTED takes it to RECONNECTING; it gives up only from    *)
(* RECONNECTING and with no link; DISCONNECTED holds no link. VoiceChatMgr *)
(* is shown to implement this specification (ImplementsConnection).      *)
(***************************************************************************)
CONSTANT ConfigEnabled  \* VoiceChat.Enabled

VARIABLES
  status,   \* the VoiceChatState reported
  enabled,  \* voice chat is enabled
  link      \* the manager holds an open connection to the voice server

avars == <<status, enabled, link>>

DISCONNECTED  == "DISCONNECTED"
NOT_CONNECTED == "NOT_CONNECTED"
CONNECTED     == "CONNECTED"
RECONNECTING  == "RECONNECTING"

Init ==
  /\ enabled = ConfigEnabled
  /\ status = IF ConfigEnabled THEN NOT_CONNECTED ELSE DISCONNECTED
  /\ link = FALSE

\* a connection to the server becomes the manager's link
LinkUp ==
  /\ status # DISCONNECTED
  /\ ~link
  /\ link' = TRUE
  /\ UNCHANGED <<status, enabled>>

\* the link is closed (by the peer, a bad header, a bad packet)
LinkDown ==
  /\ link
  /\ link' = FALSE
  /\ UNCHANGED <<status, enabled>>

\* a live link is announced as the connection
Connect ==
  /\ status \in {NOT_CONNECTED, RECONNECTING}
  /\ link
  /\ status' = CONNECTED
  /\ UNCHANGED <<enabled, link>>

\* the link was lost while CONNECTED and this is noticed
Drop ==
  /\ status = CONNECTED
  /\ ~link
  /\ status' = RECONNECTING
  /\ UNCHANGED <<enabled, link>>

\* the server stopped answering a live link: it is closed
Timeout ==
  /\ status = CONNECTED
  /\ link
  /\ status' = RECONNECTING
  /\ link' = FALSE
  /\ UNCHANGED enabled

\* reconnecting is abandoned
GiveUp ==
  /\ status = RECONNECTING
  /\ ~link
  /\ status' = DISCONNECTED
  /\ UNCHANGED <<enabled, link>>

Disable ==
  /\ enabled' = FALSE
  /\ status' = DISCONNECTED
  /\ link' = FALSE

Enable ==
  /\ ~enabled
  /\ enabled' = ConfigEnabled
  /\ status' = IF ConfigEnabled THEN NOT_CONNECTED ELSE DISCONNECTED
  /\ UNCHANGED link

Next ==
  \/ LinkUp \/ LinkDown \/ Connect \/ Drop \/ Timeout \/ GiveUp
  \/ Disable \/ Enable

\* the steps alone, without the progress promised
SafetySpec == Init /\ [][Next]_avars

\* a live link is eventually announced, a lost one eventually noticed
Spec == Init /\ [][Next]_avars /\ WF_avars(Connect) /\ WF_avars(Drop)

====
