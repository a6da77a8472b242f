---------------------------- MODULE ChatRequest ----------------------------
(***************************************************************************)
(* The bodies of the gateway's conversations (src/chat.go:12-79).  A       *)
(* request has modelled fields, some of which are left out of the JSON     *)
(* when they are zero (omitempty), and Extra, a map of further keys; a     *)
(* body is a function from its keys to where their values come from, the   *)
(* value of "stream" being what matters.                                   *)
(***************************************************************************)
EXTENDS Naturals

(* One key of each sort: always there, modelled and optional, unknown to   *)
(* the SDK.                                                                *)
Always == {"model"}
Optional == {"temperature"}
Unmodelled == {"tools"}
Keys == Always \cup Optional \cup Unmodelled \cup {"stream"}

Maps(K) == UNION {[S -> {"extra", "true", "false"}] : S \in SUBSET K}
StreamIsBoolean(m) ==
    \A k \in DOMAIN m : (k = "stream") <=> (m[k] \in {"true", "false"})

Extras == {m \in Maps(Keys) : StreamIsBoolean(m)}
Requests == [stream : BOOLEAN, fields : SUBSET Optional, extra : Extras]

(* A payload the caller has written itself.                                *)
Payloads == {[k \in {"stream"} |-> b] : b \in {"true", "false"}} \cup {<<>>}

dropKey(m, key) == [k \in DOMAIN m \ {key} |-> m[k]]

(* json.Marshal(alias(r)): stream is omitted when it is false.             *)
Base(r) ==
    [k \in Always \cup r.fields \cup (IF r.stream THEN {"stream"} ELSE {}) |->
        IF k = "stream" THEN "true" ELSE "field"]

(* Extra fills in the keys that the modelled fields leave out.             *)
MarshalJSON(r) ==
    [k \in DOMAIN Base(r) \cup DOMAIN r.extra |->
        IF k \in DOMAIN Base(r) THEN Base(r)[k] ELSE r.extra[k]]

(* Variant: Extra goes out as it is.                                       *)
ChatBodyKept(r, streaming) == MarshalJSON([r EXCEPT !.stream = streaming])

(* Chat and ChatStream work on a copy of the request: the method decides   *)
(* whether the answer is a stream.                                         *)
ChatBody(r, streaming) ==
    MarshalJSON([r EXCEPT !.stream = streaming, !.extra = dropKey(@, "stream")])

WantsStream(body) == "stream" \in DOMAIN body /\ body["stream"] = "true"
=============================================================================
