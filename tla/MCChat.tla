------------------------------- MODULE MCChat -------------------------------
(***************************************************************************)
(* Streams of up to four lines, and requests whose Extra says the opposite *)
(* of the method, for model checking Chat.                                 *)
(***************************************************************************)
EXTENDS Chat

EmptyOrToken == {<<>>, <<"token">>}

MCRequests ==
    {[stream |-> TRUE, fields |-> Optional, extra |-> [k \in {"stream"} |-> "false"]],
     [stream |-> FALSE, fields |-> {},
      extra |-> [k \in Keys \ Always |-> IF k = "stream" THEN "true" ELSE "extra"]]}
=============================================================================
