------------------------------ MODULE MCAudit ------------------------------
(***************************************************************************)
(* Endpoints of up to four segments over the words of a few paths of the   *)
(* SDK, with parameters in every place, for model checking Audit.          *)
(***************************************************************************)
EXTENDS Audit

Words == {"api", "accounts", "export", ":file", ":id"}
MCForeign ==
    UNION {[1..n -> Words] : n \in 1..4}
    \cup {<<"v2", "chat", "completions">>, <<"responses">>, <<"api", "login">>}

MCDropped == AccountPoolCalls \cup BulkCalls \cup RedPacketCalls
=============================================================================
