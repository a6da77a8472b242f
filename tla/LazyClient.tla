----------------------------- MODULE LazyClient -----------------------------
(***************************************************************************)
(* The http.Client that a Client builds with its first request             *)
(* (src/client.go:76-97), under sync.Once, while other goroutines make     *)
(* their first request or close the idle connections.  Nothing orders the  *)
(* read of c.hc in CloseIdleConnections after the write, except the        *)
(* reader's own way through once.Do: without it the read may find nil.     *)
(***************************************************************************)
EXTENDS Naturals

CONSTANTS Callers       \* the goroutines

VARIABLES hc,           \* http.Clients stored in c.hc so far; 0: c.hc is nil
          building,     \* the goroutines in the function given to hcOnce
          passed,       \* those that have come back from hcOnce.Do
          found         \* did its last CloseIdleConnections find a client?

LazyTypeOK ==
    /\ hc \in Nat
    /\ building \subseteq Callers
    /\ passed \subseteq Callers
    /\ found \in [Callers -> BOOLEAN]

LazyInit ==
    /\ hc = 0
    /\ building = {}
    /\ passed = {}
    /\ found = [c \in Callers |-> TRUE]

(* Variant: if c.hc == nil, without sync.Once.                             *)
EnterUnguarded(c) ==
    /\ hc = 0
    /\ c \notin building
    /\ building' = building \cup {c}
    /\ UNCHANGED <<hc, passed, found>>

(* hcOnce.Do runs the function; whoever comes now waits.                   *)
Enter(c) ==
    /\ hc = 0
    /\ building = {}
    /\ building' = {c}
    /\ UNCHANGED <<hc, passed, found>>

Build(c) ==
    /\ c \in building
    /\ hc' = hc + 1
    /\ building' = building \ {c}

Reuse(c) == hc > 0 /\ c \notin building /\ UNCHANGED <<hc, building>>

(* httpClient returns to c, who makes a request.                           *)
httpClient(c) ==
    /\ Build(c) \/ Reuse(c)
    /\ passed' = passed \cup {c}
    /\ found' = [found EXCEPT ![c] = TRUE]

CloseIdleConnections(c) ==
    /\ c \notin building
    /\ \/ hc > 0 /\ found' = [found EXCEPT ![c] = TRUE]
       \/ /\ hc = 0 \/ c \notin passed
          /\ found' = [found EXCEPT ![c] = FALSE]
    /\ UNCHANGED <<hc, building, passed>>

(* The goroutines' first requests race, and still one http.Client is       *)
(* built, whose timeout and transport serve them all; a goroutine that has *)
(* made a request always finds it when it closes the idle connections,     *)
(* though that read of c.hc is not synchronised (src/client.go:76-97).     *)
OneHTTPClient ==
    /\ hc <= 1
    /\ \A c \in passed : found[c]
=============================================================================
