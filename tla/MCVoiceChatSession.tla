------------------------- MODULE MCVoiceChatSession -------------------------
(* Model-checking instance of VoiceChatSession: two players, one of them   *)
(* a leader, two groups, two channel ids and one lost connection.          *)
EXTENDS VoiceChatSession

\* groups and channel ids are only compared with each other
MCSymmetry == Permutations(Groups) \cup Permutations(ChannelIds)

====
