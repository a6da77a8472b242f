---------------------------- MODULE SessionCache ----------------------------
(***************************************************************************)
(* What the AdminAuth interface (src/auth.go:16-25) promises to the        *)
(* transport: a cache of at most one session.  Cookie answers with the     *)
(* cached session, or with one obtained for the occasion, or with an       *)
(* error; Invalidate empties the cache.  A session enters the cache at     *)
(* most once, straight from the server, and only one can be on its way     *)
(* there at a time: this is all a caller needs to know, and it says        *)
(* nothing of locks, of HTTP or of who logs in for whom.                   *)
(*                                                                         *)
(* Sessions are numbered in the order in which the server issues them.     *)
(***************************************************************************)
EXTENDS Naturals

CONSTANT Callers            \* the goroutines that share one AdminAuth

NoCookie == 0               \* the empty string: nothing cached, no answer

VARIABLES cached,           \* the session in the cache
          newest,           \* the last session the server issued
          coming,           \* TRUE while that session may still be cached
          asked,            \* what each caller waits for
          answer            \* what each caller's last Cookie returned

cacheVars == <<cached, newest, coming, asked, answer>>

CacheInit ==
    /\ cached = NoCookie
    /\ newest = 0
    /\ coming = FALSE
    /\ asked = [c \in Callers |-> "nothing"]
    /\ answer = [c \in Callers |-> NoCookie]

-----------------------------------------------------------------------------

AskCookie(c) ==
    /\ asked[c] = "nothing"
    /\ asked' = [asked EXCEPT ![c] = "cookie"]
    /\ UNCHANGED <<cached, newest, coming, answer>>

AskInvalidate(c) ==
    /\ asked[c] = "nothing"
    /\ asked' = [asked EXCEPT ![c] = "invalidate"]
    /\ UNCHANGED <<cached, newest, coming, answer>>

Answer(c, s) ==
    /\ asked[c] = "cookie"
    /\ asked' = [asked EXCEPT ![c] = "nothing"]
    /\ answer' = [answer EXCEPT ![c] = s]

(* The server issues a session: only for an empty cache, and only when no  *)
(* other one is on its way.                                                *)
Issue ==
    /\ cached = NoCookie
    /\ ~coming
    /\ newest' = newest + 1
    /\ coming' = TRUE
    /\ UNCHANGED <<cached, asked, answer>>

ServeCached(c) ==
    /\ cached # NoCookie
    /\ Answer(c, cached)
    /\ UNCHANGED <<cached, newest, coming>>

ServeNew(c) ==
    /\ coming
    /\ Answer(c, newest)
    /\ cached' = newest
    /\ coming' = FALSE
    /\ UNCHANGED newest

(* An error, whether or not a session was issued for it.                   *)
ServeError(c) ==
    /\ cached = NoCookie
    /\ Answer(c, NoCookie)
    /\ coming' = FALSE
    /\ UNCHANGED <<cached, newest>>

(* Emptying the cache is never done under an unfinished login: what        *)
(* arrives later is newer than what the caller meant to drop.              *)
Clear(c) ==
    /\ asked[c] = "invalidate"
    /\ ~coming
    /\ asked' = [asked EXCEPT ![c] = "nothing"]
    /\ cached' = NoCookie
    /\ UNCHANGED <<newest, coming, answer>>

CacheNext ==
    \/ Issue
    \/ \E c \in Callers :
          \/ AskCookie(c)
          \/ AskInvalidate(c)
          \/ ServeCached(c)
          \/ ServeNew(c)
          \/ ServeError(c)
          \/ Clear(c)

CacheSpec == CacheInit /\ [][CacheNext]_cacheVars
=============================================================================
