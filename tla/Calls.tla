------------------------------- MODULE Calls -------------------------------
(***************************************************************************)
(* What a call of the client promises, whatever happens on its way: the    *)
(* server executes a write at most once and a read at most once per        *)
(* attempt (src/transport.go:228-238), a result or a refusal comes from a  *)
(* request that the server did execute, and a write answered with a 401    *)
(* has not been executed, so that the caller may make it again.  How many  *)
(* logins, 401s and retries lie behind that is not for the caller to see.  *)
(***************************************************************************)
EXTENDS Naturals

CONSTANTS Callers,
          Attempts          \* requests that a call may make for a read

VARIABLES kind,         \* of the call a caller is in: "read" or "write"
          runs,         \* executions of its call so far
          answer        \* what the call returned; "none" during a call
callsVars == <<kind, runs, answer>>

Answers == {"ok", "bad", "busy", "unauth", "error"}

CallsInit ==
    /\ kind = [c \in Callers |-> "none"]
    /\ runs = [c \in Callers |-> 0]
    /\ answer = [c \in Callers |-> "none"]

(* Variant: a write is repeated like a read.                               *)
LimitEqual(c) == IF kind[c] = "none" THEN 0 ELSE Attempts

Limit(c) == IF kind[c] = "write" THEN 1 ELSE Attempts

Ask(c) ==
    /\ kind[c] = "none"
    /\ \E k \in {"read", "write"} : kind' = [kind EXCEPT ![c] = k]
    /\ runs' = [runs EXCEPT ![c] = 0]
    /\ answer' = [answer EXCEPT ![c] = "none"]

Execute(c) ==
    /\ kind[c] # "none"
    /\ runs[c] < Limit(c)
    /\ runs' = [runs EXCEPT ![c] = @ + 1]
    /\ UNCHANGED <<kind, answer>>

(* What may be said of a call that was executed so many times.             *)
Honest(c, a) ==
    /\ a \in {"ok", "bad"} => runs[c] > 0
    /\ a = "unauth" /\ kind[c] = "write" => runs[c] = 0

Return(c) ==
    /\ kind[c] # "none"
    /\ \E a \in Answers :
          /\ Honest(c, a)
          /\ answer' = [answer EXCEPT ![c] = a]
    /\ kind' = [kind EXCEPT ![c] = "none"]
    /\ UNCHANGED runs

CallsNext == \E c \in Callers : Ask(c) \/ Execute(c) \/ Return(c)

CallsSpec == CallsInit /\ [][CallsNext]_callsVars
=============================================================================
