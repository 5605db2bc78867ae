-------------------------- MODULE MCVoiceChatFrame --------------------------
(* Model-checking instance of VoiceChatFrame: streams of up to three       *)
(* frames drawn from two valid ones (the smallest payload, size 2, and a   *)
(* PONG-sized one) and three malformed ones (opcode 12, size 1, and size   *)
(* 10240, whose high byte is non-zero), cut into reads of every length.    *)
EXTENDS VoiceChatFrame

MCFrames ==
  { [cmd |-> 11, size |-> 2, body |-> <<1, 0>>],
    [cmd |-> 2,  size |-> 3, body |-> <<0, 5, 0>>],
    [cmd |-> 12, size |-> 2, body |-> <<0, 0>>],
    [cmd |-> 2,  size |-> 1, body |-> <<0>>],
    [cmd |-> 2,  size |-> 10240, body |-> <<>>] }

====
