----------------------------- MODULE MCTransport -----------------------------
(***************************************************************************)
(* Requests for model checking Transport: one of each kind of path, and    *)
(* one method that send repeats and one that it does not.                  *)
(***************************************************************************)
EXTENDS Transport, TLC

CONSTANTS c1, c2

Request(method, rooted, segments, upload) ==
    [method |-> method, upload |-> upload,
     path |-> [rooted |-> rooted, segments |-> segments]]

ReadAdmin  == Request("GET", TRUE, <<"api", "accounts">>, FALSE)
WriteAdmin == Request("POST", TRUE, <<"api", "accounts">>, FALSE)
Upload     == Request("POST", TRUE, <<"api", "system">>, TRUE)
BareAdmin  == Request("GET", FALSE, <<"api", "accounts">>, FALSE)
BareWrite  == Request("POST", FALSE, <<"api", "accounts">>, FALSE)
Claim      == Request("POST", TRUE, <<"api", "claim", "x">>, FALSE)
Gateway    == Request("POST", TRUE, <<"v1", "chat">>, FALSE)
Elsewhere  == Request("GET", TRUE, <<"apifoo">>, FALSE)

(* Paths next to a border between the planes.                              *)
AtBorders ==
    {Request("POST", TRUE, path, FALSE) :
        path \in {<<"api">>, <<"api", "claim">>, <<"api", "claims">>, <<"api", "healthz">>,
                  <<"api", "healthz", "">>, <<"healthz">>, <<"healthz", "">>,
                  <<"responses">>, <<"v2", "api">>, <<"v1x">>}}

AllKinds == {ReadAdmin, WriteAdmin, Upload, BareAdmin, Claim, Gateway, Elsewhere}
               \cup AtBorders
OnlyReads == {ReadAdmin}
MixedWrites == {WriteAdmin, BareWrite}

LoginOnly == {[admin |-> "password", token |-> FALSE, key |-> "nil"]}
TokenAndLogin == {[admin |-> "password", token |-> TRUE, key |-> "nil"]}
AllConfigs == ClientConfigs

DefaultStatuses == {"busy"}

=============================================================================
