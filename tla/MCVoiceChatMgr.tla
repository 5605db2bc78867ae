--------------------------- MODULE MCVoiceChatMgr ---------------------------
(* Model-checking instance of VoiceChatMgr: two groups, two channel ids,   *)
(* a few connections, and the code's delays scaled down keeping their      *)
(* order (ping interval < pong timeout, retry delay < reconnect delay).     *)
EXTENDS VoiceChatMgr

MCNoSocket == 0

\* the second of time(nullptr) need not be told apart once the
\* interesting events have happened; sockets and request ids bound the rest
MCSymmetry == Permutations(Groups)

====
