------------------------------- MODULE Errors -------------------------------
(***************************************************************************)
(* What a caller learns of a call that failed (src/errors.go): newAPIError *)
(* reads one of two shapes out of the body, wrapStatus picks the type that *)
(* errors.Is and errors.As look at.  A body is what the code tells apart,  *)
(* a text is the place in the body that it comes from.                     *)
(***************************************************************************)
EXTENDS Naturals

(* form: no byte at all; white space; text that is not a JSON object; more *)
(* than 500 bytes, the first of which is no UTF-8; or a JSON object, with  *)
(* its members:                                                            *)
(*   error   absent, a string, an object, or an object with a code that is *)
(*           not a string ("odd");                                         *)
(*   message is error.message a string with something in it?               *)
(*   detail  absent, a string, the empty string, or a list (FastAPI);      *)
(*   code    is the top-level code a string?                               *)
NotObject(f) ==
    [form |-> f, error |-> "absent", message |-> FALSE,
     detail |-> "absent", code |-> FALSE]
Objects ==
    {b \in [form : {"object"}, error : {"absent", "string", "object", "odd"},
            message : BOOLEAN, detail : {"absent", "string", "empty", "list"},
            code : BOOLEAN] :
        b.message => b.error \in {"object", "odd"}}
Bodies == Objects \cup {NotObject(f) : f \in {"empty", "blank", "text", "garbled"}}

(* json.Unmarshal into the shape of the gateway succeeds, and has a        *)
(* message.                                                                *)
GatewayShape(b) == b.form = "object" /\ b.error = "object" /\ b.message

(* truncate(strings.TrimSpace(raw), 500): nothing is left of white space,  *)
(* nor of a long text whose first byte is no UTF-8.                        *)
Truncated(b) == IF b.form \in {"empty", "blank", "garbled"} THEN "none" ELSE "raw"

Message(b) ==
    CASE GatewayShape(b)         -> "error.message"
      [] ~GatewayShape(b) /\ b.detail = "string"                        -> "detail"
      [] ~GatewayShape(b) /\ b.detail # "string" /\ b.error = "string"  -> "error"
      [] OTHER                   -> Truncated(b)

Code(b) ==
    IF GatewayShape(b) THEN "error.code" ELSE IF b.code THEN "code" ELSE "none"

(* Variant: 403 is taken for 401.                                          *)
wrapStatusLoose(status) ==
    CASE status \in {401, 403} -> "AuthError"
      [] status = 404          -> "NotFoundError"
      [] status = 429          -> "QuotaError"
      [] OTHER                 -> "APIError"

wrapStatus(status) ==
    CASE status = 401 -> "AuthError"
      [] status = 403 -> "PermissionError"
      [] status = 404 -> "NotFoundError"
      [] status = 429 -> "QuotaError"
      [] OTHER        -> "APIError"

(* errors.Is(err, e).                                                      *)
Is(type, e) ==
    \/ type = "AuthError" /\ e = "ErrUnauthorized"
    \/ type = "PermissionError" /\ e = "ErrForbidden"
    \/ type = "NotFoundError" /\ e = "ErrNotFound"
    \/ type = "QuotaError" /\ e = "ErrRateLimited"
Sentinels == {"ErrUnauthorized", "ErrForbidden", "ErrNotFound", "ErrRateLimited"}

(* The error a call returns; nil, or one that is no APIError ("plain").    *)
Nil == [type |-> "nil", status |-> 0, message |-> "none", code |-> "none"]
Plain == [Nil EXCEPT !.type = "plain"]
Refused == [Nil EXCEPT !.type = "callback"]
newAPIError(status, b) ==
    [type |-> wrapStatus(status), status |-> status,
     message |-> Message(b), code |-> Code(b)]
=============================================================================
