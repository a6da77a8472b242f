------------------------------ MODULE Delivery ------------------------------
(***************************************************************************)
(* What a streaming call promises its callback (src/transport.go:62-66):   *)
(* the payloads of the stream, one by one, in order, none twice, none left *)
(* out; a callback that returns an error ends the call with that error;    *)
(* nil is returned only after the last payload of a stream that ended, and *)
(* another error only for a stream that was cut off.                       *)
(***************************************************************************)
EXTENDS Naturals, Sequences

VARIABLES promised,     \* the payloads the stream amounts to
          ended,        \* the stream has an end, it was not cut off
          out,          \* the payloads the callback was given
          outcome       \* "open" while the call runs, then how it ended
deliveryVars == <<promised, ended, out, outcome>>

(* No stream yet: between two calls, and in a call that was turned away.   *)
Closed == outcome # "open"

DeliveryInit == out = <<>> /\ Closed

(* A new call, which may get as far as a stream.                           *)
Open ==
    /\ Closed
    /\ out' = <<>>
    /\ outcome' \in {"none", "open"}

Deliver ==
    /\ outcome = "open"
    /\ Len(out) < Len(promised)
    /\ out' = Append(out, promised[Len(out) + 1])
    /\ outcome' \in {"open", "refused", "ok"}
    /\ outcome' = "ok" => ended /\ Len(out') = Len(promised)
    /\ UNCHANGED <<promised, ended>>

Finish ==
    /\ outcome = "open"
    /\ \/ ended /\ out = promised /\ outcome' = "ok"
       \/ ~ended /\ outcome' = "broken"
    /\ UNCHANGED <<promised, ended, out>>

DeliverySpec == DeliveryInit /\ [][Open \/ Deliver \/ Finish]_deliveryVars
=============================================================================
