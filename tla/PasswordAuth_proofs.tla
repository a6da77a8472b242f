------------------------ MODULE PasswordAuth_proofs ------------------------
(***************************************************************************)
(* Proofs about PasswordAuth, for any set of callers and any number of     *)
(* logins: its inductive invariant, the single login, the freshness of     *)
(* what is cached, and that it implements SessionCache.                    *)
(***************************************************************************)
EXTENDS TLAPS, PasswordAuth

(* The initial state satisfies the inductive invariant (NewPasswordAuth    *)
(* leaves the mutex free and nothing cached).                              *)
LEMMA AuthInvInit == AuthInit => AuthInv
  BY NobodyAssumption, MaxLoginsAssumption
     DEF AuthInit, AuthInv, AuthTypeOK, SingleLogin, LoggingIn, Places, NoCookie

(* Each step of Cookie, of the login and of Invalidate preserves the       *)
(* inductive invariant.                                                    *)
LEMMA AuthInvStep == AuthInv /\ [AuthNext]_authVars => AuthInv'
<1> SUFFICES ASSUME AuthInv, [AuthNext]_authVars PROVE AuthInv'
  OBVIOUS
<1> USE NobodyAssumption, MaxLoginsAssumption
    DEF AuthInv, AuthTypeOK, SingleLogin, LoggingIn, Places, NoCookie
<1>1. CASE UNCHANGED authVars
  BY <1>1 DEF authVars
<1>2. ASSUME NEW c \in Callers, CallCookie(c) PROVE AuthInv'
  BY <1>2 DEF CallCookie
<1>3. ASSUME NEW c \in Callers, CallInvalidate(c) PROVE AuthInv'
  BY <1>3 DEF CallInvalidate
<1>4. ASSUME NEW c \in Callers, CookieCached(c) PROVE AuthInv'
  BY <1>4 DEF CookieCached
<1>5. ASSUME NEW c \in Callers, LoginStart(c) PROVE AuthInv'
  BY <1>5 DEF LoginStart
<1>6. ASSUME NEW c \in Callers, LoginServed(c) PROVE AuthInv'
  BY <1>6 DEF LoginServed
<1>7. ASSUME NEW c \in Callers, LoginRefused(c) PROVE AuthInv'
  BY <1>7 DEF LoginRefused
<1>8. ASSUME NEW c \in Callers, LoginAccepted(c) PROVE AuthInv'
  BY <1>8 DEF LoginAccepted, Leave
<1>9. ASSUME NEW c \in Callers, LoginFailed(c) PROVE AuthInv'
  BY <1>9 DEF LoginFailed, Leave
<1>10. ASSUME NEW c \in Callers, Invalidate(c) PROVE AuthInv'
  BY <1>10 DEF Invalidate
<1> QED
  BY <1>1, <1>2, <1>3, <1>4, <1>5, <1>6, <1>7, <1>8, <1>9, <1>10
     DEF AuthNext, AuthStep

(* The inductive invariant holds in every reachable state.                 *)
THEOREM AuthInvariant == AuthSpec => []AuthInv
  BY AuthInvInit, AuthInvStep, PTL DEF AuthSpec

(* Whatever the number of goroutines, two logins never overlap and nothing *)
(* empties or fills the cache under a login.                               *)
THEOREM AtMostOneLogin == AuthSpec => []SingleLogin
<1>1. AuthInv => SingleLogin
  BY DEF AuthInv
<1> QED
  BY <1>1, AuthInvariant, PTL

(* What enters the cache is a session nobody has been given before.        *)
THEOREM FreshnessOfCache == AuthSpec => OnlyFreshCached
<1> DEFINE Fresh == cookie' # cookie /\ cookie' # NoCookie
              => cookie = NoCookie /\ \A c \in Callers : got[c] < cookie'
<1>1. AuthInv /\ [AuthNext]_authVars => [Fresh]_authVars
  <2> SUFFICES ASSUME AuthInv, AuthNext, cookie' # cookie, cookie' # NoCookie
               PROVE  cookie = NoCookie /\ \A c \in Callers : got[c] < cookie'
    BY DEF authVars
  <2>1. PICK c \in Callers : LoginAccepted(c)
    BY DEF AuthNext, AuthStep, CallCookie, CallInvalidate, CookieCached,
           LoginStart, LoginServed, LoginRefused, LoginFailed, Invalidate
  <2> QED
    BY <2>1 DEF LoginAccepted, AuthInv, SingleLogin, LoggingIn
<1> QED
  BY <1>1, AuthInvariant, PTL DEF AuthSpec, OnlyFreshCached

-----------------------------------------------------------------------------
(* Refinement                                                              *)

(* The initial state maps to an empty abstract cache.                      *)
LEMMA CacheInitMaps == AuthInit => Cache!CacheInit
  BY DEF AuthInit, Cache!CacheInit, NoCookie, Cache!NoCookie

(* Every step of PasswordAuth is a step of SessionCache or leaves what     *)
(* SessionCache sees unchanged.                                            *)
LEMMA CacheStepMaps ==
  AuthInv /\ [AuthNext]_authVars => [Cache!CacheNext]_Cache!cacheVars
<1> SUFFICES ASSUME AuthInv, [AuthNext]_authVars
             PROVE  [Cache!CacheNext]_Cache!cacheVars
  OBVIOUS
<1> USE DEF AuthInv, AuthTypeOK, SingleLogin, LoggingIn, Places,
            NoCookie, Cache!NoCookie
<1>1. CASE UNCHANGED authVars
  BY <1>1 DEF authVars, Cache!cacheVars
<1>2. ASSUME NEW c \in Callers, CallCookie(c) PROVE Cache!AskCookie(c)
  BY <1>2 DEF CallCookie, Cache!AskCookie
<1>3. ASSUME NEW c \in Callers, CallInvalidate(c) PROVE Cache!AskInvalidate(c)
  BY <1>3 DEF CallInvalidate, Cache!AskInvalidate
<1>4. ASSUME NEW c \in Callers, CookieCached(c) PROVE Cache!ServeCached(c)
  BY <1>4 DEF CookieCached, Cache!ServeCached, Cache!Answer
<1>5. ASSUME NEW c \in Callers, LoginStart(c) PROVE UNCHANGED Cache!cacheVars
  BY <1>5 DEF LoginStart, Cache!cacheVars
<1>6. ASSUME NEW c \in Callers, LoginServed(c) PROVE Cache!Issue
  BY <1>6, MaxLoginsAssumption DEF LoginServed, Cache!Issue
<1>7. ASSUME NEW c \in Callers, LoginRefused(c) PROVE UNCHANGED Cache!cacheVars
  BY <1>7 DEF LoginRefused, Cache!cacheVars
<1>8. ASSUME NEW c \in Callers, LoginAccepted(c) PROVE Cache!ServeNew(c)
  BY <1>8 DEF LoginAccepted, Leave, Cache!ServeNew, Cache!Answer
<1>9. ASSUME NEW c \in Callers, LoginFailed(c) PROVE Cache!ServeError(c)
  BY <1>9 DEF LoginFailed, Leave, Cache!ServeError, Cache!Answer
<1>10. ASSUME NEW c \in Callers, Invalidate(c) PROVE Cache!Clear(c)
  BY <1>10, NobodyAssumption DEF Invalidate, Cache!Clear
<1> QED
  BY <1>1, <1>2, <1>3, <1>4, <1>5, <1>6, <1>7, <1>8, <1>9, <1>10
     DEF AuthNext, AuthStep, Cache!CacheNext

(* PasswordAuth implements the cache AdminAuth promises.                   *)
THEOREM AuthImplementsCache == AuthSpec => ImplementsCache
  BY AuthInvariant, CacheInitMaps, CacheStepMaps, PTL
     DEF AuthSpec, ImplementsCache, Cache!CacheSpec
=============================================================================
