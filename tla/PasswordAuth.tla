---------------------------- MODULE PasswordAuth ----------------------------
(***************************************************************************)
(* PasswordAuth (src/auth.go:59-168): the session cache that logs in on    *)
(* demand.  One mutex covers the cached cookie and the whole login round   *)
(* trip, so a caller of Cookie or Invalidate may wait for another caller's *)
(* login.  The steps a caller takes here are actions of one caller c; the  *)
(* module Transport conjoins them with its own steps.                      *)
(*                                                                         *)
(* The server that answers POST /api/login is external.  It numbers the    *)
(* sessions it issues 1, 2, 3...; it may refuse (wrong password, lockout,  *)
(* error status), and the round trip may fail before or after it decided   *)
(* (the login client's 15 s timeout, a broken connection, the context of   *)
(* the caller that logs in).                                               *)
(***************************************************************************)
EXTENDS Naturals

CONSTANTS Callers,          \* the goroutines that share the PasswordAuth
          Nobody,           \* the holder of a free mutex
          MaxLogins         \* bound: after that many sessions the server
                            \* only refuses

ASSUME NobodyAssumption == Nobody \notin Callers
ASSUME MaxLoginsAssumption == MaxLogins \in Nat

NoCookie == 0               \* the empty string

VARIABLES mu,               \* a.mu: who holds it
          cookie,           \* a.cookie
          at,               \* where each caller is in PasswordAuth
          reply,            \* the server's answer to c's login
          got,              \* what c's last Cookie returned; NoCookie: error
          issued            \* the server: how many sessions it has issued

authVars == <<mu, cookie, at, reply, got, issued>>

(* "out": not in PasswordAuth.  "cookie", "invalidate": at a.mu.Lock() in  *)
(* the method of that name.  "login": holds the mutex, the request is on   *)
(* its way.  "answered": the server has decided, the answer is on its way. *)
Places == {"out", "cookie", "login", "answered", "invalidate"}

AuthTypeOK ==
    /\ mu \in Callers \cup {Nobody}
    /\ cookie \in 0..issued
    /\ at \in [Callers -> Places]
    /\ reply \in [Callers -> 0..issued]
    /\ got \in [Callers -> 0..issued]
    /\ issued \in 0..MaxLogins

AuthInit ==
    /\ mu = Nobody
    /\ cookie = NoCookie
    /\ at = [c \in Callers |-> "out"]
    /\ reply = [c \in Callers |-> NoCookie]
    /\ got = [c \in Callers |-> NoCookie]
    /\ issued = 0

-----------------------------------------------------------------------------
(* Cookie                                                                  *)

CallCookie(c) ==
    /\ at[c] = "out"
    /\ at' = [at EXCEPT ![c] = "cookie"]
    /\ UNCHANGED <<mu, cookie, reply, got, issued>>

(* Lock, a cached session, unlock.                                         *)
CookieCached(c) ==
    /\ at[c] = "cookie"
    /\ mu = Nobody
    /\ cookie # NoCookie
    /\ got' = [got EXCEPT ![c] = cookie]
    /\ at' = [at EXCEPT ![c] = "out"]
    /\ UNCHANGED <<mu, cookie, reply, issued>>

(* Variant: the cache is looked at before the lock is taken, not after.    *)
LoginStartUnchecked(c) ==
    /\ at[c] = "cookie"
    /\ mu = Nobody
    /\ mu' = c
    /\ at' = [at EXCEPT ![c] = "login"]
    /\ UNCHANGED <<cookie, reply, got, issued>>

(* Lock, nothing cached: loginLocked starts and keeps the mutex.           *)
LoginStart(c) ==
    /\ at[c] = "cookie"
    /\ mu = Nobody
    /\ cookie = NoCookie
    /\ mu' = c
    /\ at' = [at EXCEPT ![c] = "login"]
    /\ UNCHANGED <<cookie, reply, got, issued>>

(* External: the server issues a session, or refuses.                      *)
LoginServed(c) ==
    /\ at[c] = "login"
    /\ issued < MaxLogins
    /\ issued' = issued + 1
    /\ reply' = [reply EXCEPT ![c] = issued + 1]
    /\ at' = [at EXCEPT ![c] = "answered"]
    /\ UNCHANGED <<mu, cookie, got>>

LoginRefused(c) ==
    /\ at[c] = "login"
    /\ at' = [at EXCEPT ![c] = "answered"]
    /\ UNCHANGED <<mu, cookie, reply, got, issued>>

(* Variant: an answer already received is not forgotten on leaving.        *)
LeaveWithReply(c, s) ==
    /\ mu' = Nobody
    /\ at' = [at EXCEPT ![c] = "out"]
    /\ got' = [got EXCEPT ![c] = s]
    /\ UNCHANGED reply

(* Leaving Cookie with s: the deferred unlock and the return.              *)
Leave(c, s) ==
    /\ mu' = Nobody
    /\ at' = [at EXCEPT ![c] = "out"]
    /\ reply' = [reply EXCEPT ![c] = NoCookie]
    /\ got' = [got EXCEPT ![c] = s]

(* Status 200 with a session in Set-Cookie: cached, returned, unlock.      *)
LoginAccepted(c) ==
    /\ at[c] = "answered"
    /\ reply[c] # NoCookie
    /\ cookie' = reply[c]
    /\ Leave(c, reply[c])
    /\ UNCHANGED issued

(* Variant: an error return without the unlock.                            *)
LoginFailedLocked(c) ==
    /\ at[c] \in {"login", "answered"}
    /\ at' = [at EXCEPT ![c] = "out"]
    /\ reply' = [reply EXCEPT ![c] = NoCookie]
    /\ got' = [got EXCEPT ![c] = NoCookie]
    /\ UNCHANGED <<mu, cookie, issued>>

(* Every error return of loginLocked: nothing could be sent, the round     *)
(* trip failed (perhaps after the server had issued a session), another    *)
(* status than 200, no session in the answer.  The deferred unlock runs,   *)
(* the cache stays empty, and nobody remembers that the login failed.      *)
LoginFailed(c) ==
    /\ at[c] \in {"login", "answered"}
    /\ Leave(c, NoCookie)
    /\ UNCHANGED <<cookie, issued>>

-----------------------------------------------------------------------------
(* Invalidate                                                              *)

CallInvalidate(c) ==
    /\ at[c] = "out"
    /\ at' = [at EXCEPT ![c] = "invalidate"]
    /\ UNCHANGED <<mu, cookie, reply, got, issued>>

(* Variant: the cache is cleared without the mutex.                        *)
InvalidateUnlocked(c) ==
    /\ at[c] = "invalidate"
    /\ cookie' = NoCookie
    /\ at' = [at EXCEPT ![c] = "out"]
    /\ UNCHANGED <<mu, reply, got, issued>>

(* Variant: Invalidate does nothing, as that of a StaticSessionAuth.       *)
InvalidateNothing(c) ==
    /\ at[c] = "invalidate"
    /\ mu = Nobody
    /\ at' = [at EXCEPT ![c] = "out"]
    /\ UNCHANGED <<mu, cookie, reply, got, issued>>

(* Lock, clear whatever session is cached by now, unlock.                  *)
Invalidate(c) ==
    /\ at[c] = "invalidate"
    /\ mu = Nobody
    /\ cookie' = NoCookie
    /\ at' = [at EXCEPT ![c] = "out"]
    /\ UNCHANGED <<mu, reply, got, issued>>

-----------------------------------------------------------------------------

AuthStep(c) ==
    \/ CookieCached(c)
    \/ LoginStart(c)
    \/ LoginServed(c)
    \/ LoginRefused(c)
    \/ LoginAccepted(c)
    \/ LoginFailed(c)
    \/ Invalidate(c)

AuthNext == \E c \in Callers : CallCookie(c) \/ CallInvalidate(c) \/ AuthStep(c)

(* sync.Mutex hands the lock over after 1 ms of waiting (starvation mode), *)
(* so a waiter that finds it free again and again gets it: strong          *)
(* fairness of the locking steps.  The login client gives up after 15 s:   *)
(* weak fairness of leaving the login one way or the other.                *)
AuthFairness == \A c \in Callers :
    /\ SF_authVars(CookieCached(c) \/ LoginStart(c))
    /\ SF_authVars(Invalidate(c))
    /\ WF_authVars(LoginAccepted(c) \/ LoginFailed(c))

AuthSpec == AuthInit /\ [][AuthNext]_authVars

FairAuthSpec == AuthSpec /\ AuthFairness

-----------------------------------------------------------------------------
(* Properties                                                              *)

LoggingIn(c) == at[c] \in {"login", "answered"}

(* At most one login is under way, whoever asks for it, and Invalidate     *)
(* does not touch the cache meanwhile: the caller that logs in holds the   *)
(* mutex and the cache is empty until it stores the session (a.mu is held  *)
(* across the whole of loginLocked, src/auth.go:100-105).                  *)
SingleLogin == \A c \in Callers : LoggingIn(c) => mu = c /\ cookie = NoCookie

(* A session that anybody has already been given, or that was dropped,     *)
(* never returns to the cache, and a cached one is not overwritten by      *)
(* another login: only Invalidate ends its time there (the second check of *)
(* a.cookie under the lock, src/auth.go:102).                              *)
OnlyFreshCached ==
    [][cookie' # cookie /\ cookie' # NoCookie
          => cookie = NoCookie /\ \A c \in Callers : got[c] < cookie']_authVars

(* Nobody waits forever at the mutex, even though the caller's own context *)
(* cannot interrupt the wait: each login under way ends and gives way.     *)
CallsReturn == \A c \in Callers : at[c] # "out" ~> at[c] = "out"

(* PasswordAuth implements the cache that AdminAuth promises: a session is *)
(* on its way exactly while an answer that carries one is.                 *)
Cache == INSTANCE SessionCache WITH
    cached <- cookie,
    newest <- issued,
    coming <- \E c \in Callers : reply[c] # NoCookie,
    asked  <- [c \in Callers |->
                 CASE at[c] = "out" -> "nothing"
                   [] at[c] = "invalidate" -> "invalidate"
                   [] OTHER -> "cookie"],
    answer <- got

ImplementsCache == Cache!CacheSpec

(* The inductive invariant behind these.  The mutex and the login go       *)
(* together, an answer that carries a session is the one to the login      *)
(* under way and carries the newest session, and nobody has that session   *)
(* before it is cached.                                                    *)
AuthInv ==
    /\ AuthTypeOK
    /\ SingleLogin
    /\ \A c \in Callers : mu = c => LoggingIn(c)
    /\ \A c \in Callers : reply[c] # NoCookie
          => /\ at[c] = "answered"
             /\ reply[c] = issued
             /\ \A d \in Callers : got[d] < reply[c]
=============================================================================
