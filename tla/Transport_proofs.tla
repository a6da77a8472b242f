-------------------------- MODULE Transport_proofs --------------------------
(***************************************************************************)
(* Proofs about Transport, for any callers, requests, configuration and    *)
(* retry policy: what it does by itself, and that it implements Calls.     *)
(***************************************************************************)
EXTENDS TLAPS, Transport, PasswordAuth_proofs

-----------------------------------------------------------------------------
(* The transport as a user of PasswordAuth                                 *)

(* The transport starts with a PasswordAuth that nobody has used.          *)
LEMMA InitUsesPasswordAuth == Init => AuthInit
  BY DEF Init

(* Each step of a call is one step of PasswordAuth, or none.               *)
LEMMA StepUsesPasswordAuth == [Next]_vars => [AuthNext]_authVars
<1> SUFFICES ASSUME [Next]_vars PROVE [AuthNext]_authVars
  OBVIOUS
<1>1. CASE UNCHANGED vars
  BY <1>1 DEF vars, authVars
<1>2. ASSUME NEW c \in Callers, Proceed(c) PROVE [AuthNext]_authVars
  <2>1. CASE AskCookie(c)
    BY <2>1 DEF AskCookie, AuthNext
  <2>2. CASE FailLogin(c)
    BY <2>2 DEF FailLogin, AuthNext, AuthStep
  <2> QED
    BY <1>2, <2>1, <2>2
       DEF Proceed, InjectNothing, InjectKey, InjectToken, InjectStatic, Inject,
           NotConfigured, Send, Lose, LoseBody, BackOff, WakeUp, SleepCancelled,
           Finish, authVars
<1>3. ASSUME NEW c \in Callers, Lock(c) PROVE AuthNext
  BY <1>3 DEF Lock, InjectCookie, StartLogin, InvalidateSession, AuthNext, AuthStep
<1>4. ASSUME NEW c \in Callers, Outside(c) PROVE [AuthNext]_authVars
  <2>1. CASE AnswerLogin(c)
    BY <2>1 DEF AnswerLogin, AuthNext, AuthStep
  <2>2. CASE ReceiveUnauthorized(c)
    BY <2>2 DEF ReceiveUnauthorized, AuthNext, authVars
  <2> QED
    BY <1>4, <2>1, <2>2
       DEF Outside, Start, Cancel, Serve, Receive, ReadBody, authVars
<1>5. ASSUME NEW k \in accepted, Revoke(k) PROVE UNCHANGED authVars
  BY <1>5 DEF Revoke, authVars
<1> QED
  BY <1>1, <1>2, <1>3, <1>4, <1>5 DEF Next

(* The transport reaches the session cache through Cookie and Invalidate   *)
(* only; what is proved of PasswordAuth therefore holds here.              *)
THEOREM TransportUsesPasswordAuth == Spec => UsesPasswordAuth
  BY InitUsesPasswordAuth, StepUsesPasswordAuth, PTL
     DEF Spec, UsesPasswordAuth, AuthSpec

(* The mutex and the cache behave under the transport's calls.             *)
COROLLARY AuthInvariantHere == Spec => []AuthInv
  BY TransportUsesPasswordAuth, AuthInvariant, PTL DEF UsesPasswordAuth

-----------------------------------------------------------------------------
(* Type correctness, and where a call can be                               *)

(* The control of a call agrees with its place in PasswordAuth; only calls *)
(* that may be repeated go around the loop of send.                        *)
ControlInv == \A c \in Callers :
    /\ pc[c] = "cookie" <=> at[c] \in {"cookie", "login", "answered"}
    /\ pc[c] = "invalidate" <=> at[c] = "invalidate"
    /\ pc[c] = "sleep" => attempt[c] < Retries
    /\ pc[c] = "sleep" \/ attempt[c] > 0
         => idempotentMethod(req[c].method) /\ ~req[c].upload

TypeInv == TypeOK /\ ControlInv

(* A fresh client has the types and the control facts.                     *)
LEMMA TypeInvInit == Init => TypeInv
<1> SUFFICES ASSUME Init PROVE TypeInv
  OBVIOUS
<1>1. AuthTypeOK
  BY AuthInvInit DEF Init, AuthInv
<1>2. (CHOOSE r \in Requests : TRUE) \in Requests
  BY RequestsAssumption
<1> QED
  BY <1>1, <1>2, PolicyAssumption, BoundAssumption
     DEF Init, AuthInit, TypeInv, TypeOK, ControlInv, Points, Statuses, Credentials,
         StaticCookie, Session, Token, Key, NoCredential, NoRejection

(* Each step preserves the types and the control facts.                    *)
LEMMA TypeInvStep == TypeInv /\ AuthInv /\ AuthInv' /\ [Next]_vars => TypeInv'
<1> SUFFICES ASSUME TypeInv, AuthInv, AuthInv', [Next]_vars PROVE TypeInv'
  OBVIOUS
<1>0. AuthTypeOK /\ AuthTypeOK'
  BY DEF AuthInv
<1> USE <1>0, PolicyAssumption, BoundAssumption
    DEF TypeInv, TypeOK, ControlInv, Points, Goto, callVars, serverVars, historyVars
<1>1. CASE UNCHANGED vars
  BY <1>1 DEF vars, authVars
<1>2. ASSUME NEW c \in Callers, Proceed(c) PROVE TypeInv'
  <2>1. ASSUME NEW k \in {NoCredential, Key, Token, StaticCookie}, Inject(c, k)
        PROVE  TypeInv'
    BY <2>1 DEF Inject, authVars, Credentials, NoCredential, Key, Token,
                StaticCookie, Session
  <2>2. CASE NotConfigured(c)
    BY <2>2 DEF NotConfigured, Fail, authVars
  <2>3. CASE AskCookie(c)
    BY <2>3 DEF AskCookie, CallCookie, AuthTypeOK, Places
  <2>4. CASE FailLogin(c)
    <3>1. tally' \in [started : Nat, failed : Nat, cleared : Nat]
      BY <2>4 DEF FailLogin
    <3>2. /\ pc' = [pc EXCEPT ![c] = "outcome"]
          /\ at' = [at EXCEPT ![c] = "out"]
          /\ resp' = [resp EXCEPT ![c] = "error"]
          /\ failed' = [failed EXCEPT ![c] = @ + 1]
          /\ UNCHANGED <<req, attempt, resend, cred, done, left, config, accepted,
                         revoked, sends, executed, rejection>>
      BY <2>4 DEF FailLogin, Fail, LoginFailed, Leave
    <3> QED
      BY <3>1, <3>2 DEF AuthTypeOK, Places
  <2>5. CASE Send(c)
    BY <2>5 DEF Send, authVars
  <2>6. CASE Lose(c)
    BY <2>6 DEF Lose, Fail, authVars
  <2>7. CASE LoseBody(c)
    BY <2>7 DEF LoseBody, authVars
  <2>8. CASE BackOff(c)
    BY <2>8 DEF BackOff, RetryAgain, retryable, authVars
  <2>9. CASE WakeUp(c)
    BY <2>9 DEF WakeUp, NoRejection, NoCredential, Credentials, authVars
  <2>10. CASE SleepCancelled(c)
    BY <2>10 DEF SleepCancelled, authVars
  <2>11. CASE Finish(c)
    BY <2>11 DEF Finish, authVars
  <2> QED
    BY <1>2, <2>1, <2>2, <2>3, <2>4, <2>5, <2>6, <2>7, <2>8, <2>9, <2>10, <2>11
       DEF Proceed, InjectNothing, InjectKey, InjectToken, InjectStatic
<1>3. ASSUME NEW c \in Callers, Lock(c) PROVE TypeInv'
  <2>1. CASE InjectCookie(c)
    BY <2>1 DEF InjectCookie, CookieCached, LoginAccepted, Leave, AuthTypeOK,
                Places, Credentials, Session
  <2>2. CASE StartLogin(c)
    <3>1. tally' \in [started : Nat, failed : Nat, cleared : Nat]
      <4>1. tally.started + 1 \in Nat
        OBVIOUS
      <4> QED
        BY <2>2, <4>1 DEF StartLogin
    <3>2. /\ pc[c] = "cookie"
          /\ at' = [at EXCEPT ![c] = "login"]
          /\ UNCHANGED <<pc, req, attempt, resend, cred, resp, done, left, config, accepted,
                         revoked, sends, executed, failed, rejection>>
      BY <2>2 DEF StartLogin, LoginStart
    <3> QED
      BY <3>1, <3>2 DEF AuthTypeOK, Places
  <2>3. CASE InvalidateSession(c)
    BY <2>3 DEF InvalidateSession, Invalidate, AuthTypeOK, Places
  <2> QED
    BY <1>3, <2>1, <2>2, <2>3 DEF Lock
<1>4. ASSUME NEW c \in Callers, Outside(c) PROVE TypeInv'
  <2>1. CASE Start(c)
    BY <2>1 DEF Start, NoRejection, NoCredential, Credentials, authVars
  <2>2. CASE Cancel(c)
    BY <2>2 DEF Cancel, authVars
  <2>3. CASE AnswerLogin(c)
    BY <2>3 DEF AnswerLogin, LoginServed, LoginRefused, AuthTypeOK, Places,
                Credentials, Session
  <2>4. CASE Serve(c)
    <3>1. resp' \in [Callers -> Statuses \cup {"none", "error"}]
      BY <2>4 DEF Serve, Statuses
    <3>2. executed' \in [Callers -> Nat]
      BY <2>4 DEF Serve
    <3> QED
      BY <2>4, <3>1, <3>2 DEF Serve, authVars
  <2>5. CASE ReceiveUnauthorized(c)
    <3>1. rejection' \in [Callers -> [cred : Credentials, revoked : Nat]]
      BY <2>5 DEF ReceiveUnauthorized, Rejected
    <3>2. /\ at[c] \notin {"cookie", "login", "answered", "invalidate"}
          /\ \/ /\ at' = [at EXCEPT ![c] = "invalidate"]
                /\ pc' = [pc EXCEPT ![c] = "invalidate"]
                /\ UNCHANGED resend
             \/ /\ UNCHANGED at
                /\ pc' = [pc EXCEPT ![c] = "build"]
                /\ resend' = [resend EXCEPT ![c] = TRUE]
          /\ UNCHANGED <<req, attempt, cred, resp, done, left, config, accepted,
                         revoked, sends, executed, failed, tally>>
      BY <2>5 DEF ReceiveUnauthorized, CallInvalidate, authVars
    <3>3. TypeOK'
      BY <3>1, <3>2 DEF AuthTypeOK
    <3>4. ControlInv'
      <4>1. CASE pc' = [pc EXCEPT ![c] = "invalidate"]
        BY <4>1, <3>2 DEF AuthTypeOK, Places
      <4>2. CASE pc' = [pc EXCEPT ![c] = "build"]
        BY <4>2, <3>2 DEF AuthTypeOK, Places
      <4> QED
        BY <3>2, <4>1, <4>2
    <3> QED
      BY <3>3, <3>4
  <2>6. CASE Receive(c)
    BY <2>6 DEF Receive, authVars
  <2>7. CASE ReadBody(c)
    BY <2>7 DEF ReadBody, authVars
  <2> QED
    BY <1>4, <2>1, <2>2, <2>3, <2>4, <2>5, <2>6, <2>7 DEF Outside
<1>5. ASSUME NEW k \in accepted, Revoke(k) PROVE TypeInv'
  BY <1>5 DEF Revoke, authVars
<1> QED
  BY <1>1, <1>2, <1>3, <1>4, <1>5 DEF Next

(* Every variable of the transport keeps its type; in particular no call   *)
(* goes beyond the retries of its policy.                                  *)
THEOREM TypeInvariant == Spec => []TypeOK
<1>1. TypeInv => TypeOK
  BY DEF TypeInv
<1> QED
  BY <1>1, TypeInvInit, TypeInvStep, AuthInvariantHere, PTL DEF Spec

-----------------------------------------------------------------------------
(* Writes and the work of a call                                           *)

BeforeSend(c) == pc[c] \in {"build", "cookie", "send"}

(* How often a call has been executed and sent, by where it is.  A write   *)
(* has not been executed while it is still to be sent, nor when its answer *)
(* is a 401; an attempt sends once before the resend and once after.       *)
WorkInv == \A c \in Callers :
    /\ ~idempotentMethod(req[c].method) =>
         /\ executed[c] <= 1
         /\ BeforeSend(c) \/ pc[c] \in {"wire", "invalidate"} => executed[c] = 0
         /\ pc[c] = "served" /\ resp[c] = "unauth" => executed[c] = 0
    /\ sends[c] <= 2 * attempt[c] + (IF resend[c] THEN 2 ELSE 1)
    /\ BeforeSend(c) => sends[c] <= 2 * attempt[c] + (IF resend[c] THEN 1 ELSE 0)
    /\ failed[c] <= attempt[c] + 1
    /\ BeforeSend(c) \/ pc[c] \in {"wire", "served", "invalidate"}
         => failed[c] <= attempt[c]
    /\ pc[c] = "invalidate" => ~resend[c]
    /\ req[c].upload => ~resend[c] /\ pc[c] # "invalidate"

(* A fresh client has sent and executed nothing.                           *)
LEMMA WorkInvInit == Init => WorkInv
<1> SUFFICES ASSUME Init PROVE WorkInv
  OBVIOUS
<1>1. /\ pc = [c \in Callers |-> "idle"] /\ resend = [c \in Callers |-> FALSE]
      /\ attempt = [c \in Callers |-> 0] /\ sends = [c \in Callers |-> 0]
      /\ executed = [c \in Callers |-> 0] /\ failed = [c \in Callers |-> 0]
  BY DEF Init
<1>2. /\ attempt \in [Callers -> Nat] /\ sends \in [Callers -> Nat]
      /\ executed \in [Callers -> Nat] /\ failed \in [Callers -> Nat]
      /\ pc \in [Callers -> Points] /\ resend \in [Callers -> BOOLEAN]
  BY <1>1 DEF Points
<1> QED
  BY <1>1, <1>2 DEF WorkInv, BeforeSend

(* Each step preserves the account of sends and executions.                *)
LEMMA WorkInvStep == TypeInv /\ TypeInv' /\ WorkInv /\ [Next]_vars => WorkInv'
<1> SUFFICES ASSUME TypeInv, TypeInv', WorkInv, [Next]_vars PROVE WorkInv'
  OBVIOUS
<1>0. /\ pc \in [Callers -> Points]
      /\ attempt \in [Callers -> Nat]
      /\ resend \in [Callers -> BOOLEAN]
      /\ resp \in [Callers -> Statuses \cup {"none", "error"}]
      /\ req \in [Callers -> Requests]
      /\ sends \in [Callers -> Nat]
      /\ executed \in [Callers -> Nat]
      /\ failed \in [Callers -> Nat]
  BY PolicyAssumption DEF TypeInv, TypeOK
<1>c. \A d \in Callers : pc[d] = "sleep" \/ attempt[d] > 0
        => idempotentMethod(req[d].method) /\ ~req[d].upload
  BY DEF TypeInv, ControlInv
<1> USE <1>0 DEF WorkInv, BeforeSend, Goto
<1>1. CASE UNCHANGED vars
  BY <1>1 DEF vars, callVars, historyVars
<1>2. ASSUME NEW c \in Callers, Proceed(c) PROVE WorkInv'
  <2>1. ASSUME NEW k \in {NoCredential, Key, Token, StaticCookie}, Inject(c, k)
        PROVE  WorkInv'
    BY <2>1 DEF Inject, historyVars
  <2>2. CASE NotConfigured(c)
    BY <2>2 DEF NotConfigured, Fail, historyVars
  <2>3. CASE AskCookie(c)
    BY <2>3 DEF AskCookie, historyVars
  <2>4. CASE FailLogin(c)
    BY <2>4 DEF FailLogin, Fail
  <2>5. CASE Send(c)
    BY <2>5 DEF Send
  <2>6. CASE Lose(c)
    BY <2>6 DEF Lose, Fail, historyVars
  <2>7. CASE LoseBody(c)
    BY <2>7 DEF LoseBody, historyVars
  <2>8. CASE BackOff(c)
    BY <2>8 DEF BackOff, historyVars
  <2>9. CASE WakeUp(c)
    BY <2>9, <1>c DEF WakeUp
  <2>10. CASE SleepCancelled(c)
    BY <2>10 DEF SleepCancelled, historyVars
  <2>11. CASE Finish(c)
    BY <2>11 DEF Finish, historyVars
  <2> QED
    BY <1>2, <2>1, <2>2, <2>3, <2>4, <2>5, <2>6, <2>7, <2>8, <2>9, <2>10, <2>11
       DEF Proceed, InjectNothing, InjectKey, InjectToken, InjectStatic
<1>3. ASSUME NEW c \in Callers, Lock(c) PROVE WorkInv'
  <2>1. CASE InjectCookie(c)
    BY <2>1 DEF InjectCookie, historyVars
  <2>2. CASE StartLogin(c)
    BY <2>2 DEF StartLogin, callVars
  <2>3. CASE InvalidateSession(c)
    BY <2>3 DEF InvalidateSession
  <2> QED
    BY <1>3, <2>1, <2>2, <2>3 DEF Lock
<1>4. ASSUME NEW c \in Callers, Outside(c) PROVE WorkInv'
  <2>1. CASE Start(c)
    BY <2>1 DEF Start
  <2>2. CASE Cancel(c)
    BY <2>2 DEF Cancel, historyVars
  <2>3. CASE AnswerLogin(c)
    BY <2>3 DEF AnswerLogin, callVars, historyVars
  <2>4. CASE Serve(c)
    BY <2>4 DEF Serve
  <2>5. CASE ReceiveUnauthorized(c)
    BY <2>5 DEF ReceiveUnauthorized, Relogin
  <2>6. CASE Receive(c)
    BY <2>6 DEF Receive, historyVars
  <2>7. CASE ReadBody(c)
    BY <2>7 DEF ReadBody, historyVars
  <2> QED
    BY <1>4, <2>1, <2>2, <2>3, <2>4, <2>5, <2>6, <2>7 DEF Outside
<1>5. ASSUME NEW k \in accepted, Revoke(k) PROVE WorkInv'
  BY <1>5 DEF Revoke, callVars, historyVars
<1> QED
  BY <1>1, <1>2, <1>3, <1>4, <1>5 DEF Next

(* The account of sends and executions holds in every reachable state.     *)
LEMMA WorkInvariant == Spec => [](TypeInv /\ WorkInv)
  BY TypeInvInit, TypeInvStep, WorkInvInit, WorkInvStep, AuthInvariantHere, PTL
     DEF Spec

(* No call executes a write twice, for any retry policy (one that retries  *)
(* 401s included), any number of callers and any losses.                   *)
THEOREM NoWriteTwice == Spec => []WriteAtMostOnce
<1>1. WorkInv => WriteAtMostOnce
  BY DEF WorkInv, WriteAtMostOnce
<1> QED
  BY <1>1, WorkInvariant, PTL

(* The bounds on sends and failed logins hold for every retry policy.      *)
THEOREM WorkIsBounded == Spec => []BoundedWork
<1>1. TypeInv /\ WorkInv => BoundedWork
  <2> SUFFICES ASSUME TypeInv, WorkInv, NEW c \in Callers
               PROVE  /\ attempt[c] > 0 => idempotentMethod(req[c].method)
                      /\ sends[c] <= 2 * (attempt[c] + 1)
                      /\ failed[c] <= attempt[c] + 1
                      /\ req[c].upload => sends[c] <= 1
    BY DEF BoundedWork
  <2>1. attempt[c] \in Nat /\ sends[c] \in Nat /\ resend[c] \in BOOLEAN
    BY PolicyAssumption DEF TypeInv, TypeOK
  <2>2. attempt[c] > 0 => idempotentMethod(req[c].method) /\ ~req[c].upload
    BY DEF TypeInv, ControlInv
  <2> QED
    BY <2>1, <2>2 DEF WorkInv
<1> QED
  BY <1>1, WorkInvariant, PTL

-----------------------------------------------------------------------------
(* What a call gets after a 401                                            *)

(* Session n is newer than the one of c's first 401, and the server still  *)
(* accepts it unless it has revoked something since that 401.              *)
Newer(c, n) ==
    /\ n > rejection[c].cred.id
    /\ Session(n) \in accepted \/ revoked > rejection[c].revoked

RevokedSince(c) == revoked > rejection[c].revoked

(* What c remembers is past; after its Invalidate, what is cached, what is *)
(* on its way to the cache and what c puts on its second request is newer  *)
(* than what was refused.  The Invalidate waited for any login under way   *)
(* (AuthInv: the mutex), so no older session can be stored after it.       *)
RejectionPast(c) ==
    /\ rejection[c].cred.id <= issued
    /\ rejection[c].revoked <= revoked
    /\ cred[c].id <= issued

CacheNewer(c) == resend[c] /\ Admin = "password" =>
    /\ cookie # NoCookie => Newer(c, cookie)
    /\ \A d \in Callers : reply[d] # NoCookie => Newer(c, reply[d])

SentNewer(c) == Managed(c) /\ OnWire(c) =>
    /\ cred[c] = Session(cred[c].id)
    /\ resend[c] => Newer(c, cred[c].id)

AnswerExplained(c) == Managed(c) /\ isAdminPath(req[c].path) /\ resp[c] = "unauth" =>
    /\ pc[c] = "served" /\ resend[c] => RevokedSince(c)
    /\ pc[c] \in {"outcome", "body", "idle"} => resend[c] /\ RevokedSince(c)

CallFresh(c) ==
    RejectionPast(c) /\ CacheNewer(c) /\ SentNewer(c) /\ AnswerExplained(c)

FreshInv == \A c \in Callers : CallFresh(c)

(* A fresh client remembers no refusal.                                    *)
LEMMA FreshInvInit == Init => FreshInv
<1> SUFFICES ASSUME Init, NEW c \in Callers PROVE CallFresh(c)
  BY DEF FreshInv
<1>1. /\ rejection[c] = NoRejection /\ cred[c] = NoCredential
      /\ ~resend[c] /\ pc[c] = "idle" /\ resp[c] = "none"
      /\ issued = 0 /\ revoked = 0
  BY DEF Init, AuthInit
<1> QED
  BY <1>1 DEF CallFresh, RejectionPast, CacheNewer, SentNewer, AnswerExplained,
              OnWire, NoRejection, NoCredential

(* The facts the steps below need of the types.                            *)
LEMMA FreshTypes ==
  ASSUME TypeInv
  PROVE  /\ pc \in [Callers -> Points]
         /\ resend \in [Callers -> BOOLEAN]
         /\ cred \in [Callers -> Credentials]
         /\ \A c \in Callers : cred[c].id \in Nat
         /\ resp \in [Callers -> Statuses \cup {"none", "error"}]
         /\ req \in [Callers -> Requests]
         /\ rejection \in [Callers -> [cred : Credentials, revoked : Nat]]
         /\ \A c \in Callers : rejection[c].cred.id \in Nat
         /\ \A c \in Callers : rejection[c].revoked \in Nat
         /\ revoked \in Nat /\ issued \in Nat /\ cookie \in Nat
         /\ reply \in [Callers -> Nat] /\ got \in [Callers -> Nat]
<1>1. /\ pc \in [Callers -> Points]
      /\ resend \in [Callers -> BOOLEAN]
      /\ cred \in [Callers -> Credentials]
      /\ resp \in [Callers -> Statuses \cup {"none", "error"}]
      /\ req \in [Callers -> Requests]
      /\ rejection \in [Callers -> [cred : Credentials, revoked : Nat]]
  BY DEF TypeInv, TypeOK
<1>2. revoked \in Nat /\ issued \in Nat
  BY MaxLoginsAssumption, BoundAssumption DEF TypeInv, TypeOK, AuthTypeOK
<1>3. cookie \in Nat /\ reply \in [Callers -> Nat] /\ got \in [Callers -> Nat]
  BY <1>2 DEF TypeInv, TypeOK, AuthTypeOK
<1>4. \A k \in Credentials : k.id \in Nat
  BY DEF Credentials
<1> QED
  BY <1>1, <1>2, <1>3, <1>4

(* A step that moves neither the shared state nor call d.                  *)
LEMMA FreshFrame ==
  ASSUME NEW d \in Callers, CallFresh(d),
         UNCHANGED <<cookie, reply, issued, config, accepted, revoked>>,
         UNCHANGED <<pc[d], req[d], resend[d], cred[d], resp[d], rejection[d]>>
  PROVE  CallFresh(d)'
  BY DEF CallFresh, RejectionPast, CacheNewer, Admin, SentNewer, AnswerExplained, Newer,
         RevokedSince, Managed, NeedsAdmin, Target, Admin, HasToken, OnWire

(* A step that moves call d only, and neither to the wire nor to an answer.*)
LEMMA FreshMove ==
  ASSUME NEW d \in Callers, CallFresh(d),
         UNCHANGED <<cookie, reply, issued, config, accepted, revoked>>,
         UNCHANGED <<req[d], resend[d], cred[d], rejection[d]>>,
         OnWire(d)' => OnWire(d),
         resp'[d] = "unauth" /\ pc'[d] \in {"served", "outcome", "body", "idle"}
            => /\ UNCHANGED resp[d]
               /\ pc[d] \in {"served", "outcome", "body", "idle"}
               /\ pc[d] = "served" =>
                     pc'[d] = "served" \/ ~isAdminPath(req[d].path) \/ resend[d]
               /\ pc'[d] = "served" => pc[d] = "served"
  PROVE  CallFresh(d)'
<1>1. Managed(d)' <=> Managed(d)
  BY DEF Managed, NeedsAdmin, Target, Admin, HasToken
<1>2. RejectionPast(d)'
  BY DEF CallFresh, RejectionPast
<1>3. CacheNewer(d)'
  BY DEF CallFresh, CacheNewer, Admin, Newer
<1>4. SentNewer(d)'
  BY <1>1 DEF CallFresh, SentNewer, Newer
<1>5. AnswerExplained(d)'
  BY <1>1 DEF CallFresh, AnswerExplained, RevokedSince
<1> QED
  BY <1>2, <1>3, <1>4, <1>5 DEF CallFresh

(* A step of c leaves the calls of the others as they are.                 *)
OnlyCall(c) ==
    /\ UNCHANGED <<cookie, reply, issued, config, accepted, revoked>>
    /\ \A d \in Callers \ {c} :
          UNCHANGED <<pc[d], req[d], resend[d], cred[d], resp[d], rejection[d]>>

(* Of a step that moves one call only, that call is all there is to check. *)
LEMMA FreshOnlyCall ==
  ASSUME FreshInv, NEW c \in Callers, OnlyCall(c), CallFresh(c)'
  PROVE  FreshInv'
<1> SUFFICES ASSUME NEW d \in Callers PROVE CallFresh(d)'
  BY DEF FreshInv
<1> QED
  BY FreshFrame DEF FreshInv, OnlyCall

(* Steps of the client's code that need no lock.                           *)
LEMMA FreshProceed ==
  ASSUME TypeInv, FreshInv, AuthInv, NEW c \in Callers, Proceed(c)
  PROVE  FreshInv'
<1> USE FreshTypes DEF Goto
<1>0. CallFresh(c)
  BY DEF FreshInv
<1>1. ASSUME NEW k \in {NoCredential, Key, Token, StaticCookie},
             Inject(c, k), ~Managed(c)
      PROVE  FreshInv'
  <2>1. OnlyCall(c)
    BY <1>1 DEF Inject, OnlyCall, authVars, serverVars, historyVars
  <2>2. /\ cred'[c].id = 0
        /\ UNCHANGED <<req[c], resend[c], resp[c], rejection[c]>>
    BY <1>1 DEF Inject, NoCredential, Key, Token, StaticCookie, Session, historyVars
  <2>3. ~Managed(c)'
    BY <1>1, <2>1, <2>2 DEF OnlyCall, Managed, NeedsAdmin, Target, Admin, HasToken
  <2>4. CallFresh(c)'
    BY <1>0, <2>1, <2>2, <2>3
       DEF OnlyCall, CallFresh, RejectionPast, CacheNewer, Admin, SentNewer,
           AnswerExplained, Newer
  <2> QED
    BY <2>1, <2>4, FreshOnlyCall
<1>2. CASE FailLogin(c)
  <2>1. /\ UNCHANGED <<cookie, issued, config, accepted, revoked>>
        /\ reply' = [reply EXCEPT ![c] = NoCookie]
        /\ UNCHANGED <<req, resend, cred, rejection>>
        /\ pc' = [pc EXCEPT ![c] = "outcome"]
        /\ resp' = [resp EXCEPT ![c] = "error"]
    BY <1>2 DEF FailLogin, Fail, LoginFailed, Leave, serverVars
  <2> SUFFICES ASSUME NEW d \in Callers PROVE CallFresh(d)'
    BY DEF FreshInv
  <2>2. CallFresh(d)
    BY DEF FreshInv
  <2>3. Managed(d)' <=> Managed(d)
    BY <2>1 DEF Managed, NeedsAdmin, Target, Admin, HasToken
  <2> QED
    BY <2>1, <2>2, <2>3
       DEF CallFresh, RejectionPast, CacheNewer, Admin, SentNewer, AnswerExplained, Newer,
           RevokedSince, OnWire
<1>3. ASSUME OnlyCall(c), UNCHANGED <<req[c], resend[c], cred[c], rejection[c]>>,
             OnWire(c)' => OnWire(c),
             \/ resp'[c] = "error"
             \/ pc'[c] \notin {"served", "outcome", "body", "idle"}
             \/ UNCHANGED resp[c] /\ pc[c] = "outcome" /\ pc'[c] # "served"
      PROVE  FreshInv'
  <2>1. CallFresh(c)'
    BY <1>0, <1>3, FreshMove DEF OnlyCall
  <2> QED
    BY <1>3, <2>1, FreshOnlyCall
<1>4. CASE NotConfigured(c) \/ Lose(c)
  BY <1>3, <1>4 DEF NotConfigured, Lose, Fail, OnlyCall, OnWire, authVars, serverVars,
                    historyVars
<1>5. CASE AskCookie(c)
  BY <1>3, <1>5 DEF AskCookie, CallCookie, OnlyCall, OnWire, serverVars, historyVars
<1>6. CASE Send(c)
  BY <1>3, <1>6 DEF Send, OnlyCall, OnWire, authVars, serverVars
<1>7. CASE LoseBody(c) \/ SleepCancelled(c)
  BY <1>3, <1>7 DEF LoseBody, SleepCancelled, OnlyCall, OnWire, authVars, serverVars,
                    historyVars
<1>8. CASE BackOff(c) \/ Finish(c)
  BY <1>3, <1>8 DEF BackOff, Finish, OnlyCall, OnWire, authVars, serverVars, historyVars
<1>9. CASE WakeUp(c)
  <2>1. OnlyCall(c)
    BY <1>9 DEF WakeUp, OnlyCall, authVars, serverVars
  <2>2. /\ ~resend'[c] /\ pc'[c] = "build" /\ rejection'[c] = NoRejection
        /\ UNCHANGED <<cred[c], req[c]>>
    BY <1>9 DEF WakeUp
  <2>3. CallFresh(c)'
    BY <1>0, <2>1, <2>2
       DEF OnlyCall, CallFresh, RejectionPast, CacheNewer, Admin, SentNewer,
           AnswerExplained, OnWire, NoRejection, NoCredential
  <2> QED
    BY <2>1, <2>3, FreshOnlyCall
<1>10. CASE InjectNothing(c) \/ InjectKey(c) \/ InjectToken(c) \/ InjectStatic(c)
  BY <1>1, <1>10 DEF InjectNothing, InjectKey, InjectToken, InjectStatic, Managed,
                     NeedsAdmin, NeedsKey
<1> QED
  BY <1>2, <1>4, <1>5, <1>6, <1>7, <1>8, <1>9, <1>10 DEF Proceed

(* Steps at the mutex of PasswordAuth.                                     *)
LEMMA FreshLock ==
  ASSUME TypeInv, FreshInv, AuthInv, NEW c \in Callers, Lock(c)
  PROVE  FreshInv'
<1> USE FreshTypes DEF Goto
<1>0. \A d \in Callers : CallFresh(d)
  BY DEF FreshInv
<1>1. CASE InjectCookie(c)
  <2> DEFINE s == got'[c]
  <2>1. /\ UNCHANGED <<issued, config, accepted, revoked, req, resend, resp, rejection>>
        /\ cred' = [cred EXCEPT ![c] = Session(s)]
        /\ pc' = [pc EXCEPT ![c] = "send"]
    BY <1>1 DEF InjectCookie, CookieCached, LoginAccepted, Leave, serverVars,
                historyVars
  <2>2. \/ s = cookie /\ s # NoCookie /\ UNCHANGED <<cookie, reply>>
        \/ /\ s = reply[c] /\ s # NoCookie /\ cookie' = s
           /\ reply' = [reply EXCEPT ![c] = NoCookie]
    BY <1>1 DEF InjectCookie, CookieCached, LoginAccepted, Leave
  <2>3. s \in Nat /\ s <= issued
    BY <2>2 DEF TypeInv, TypeOK, AuthTypeOK
  <2>4. \A d \in Callers : CacheNewer(d)'
    BY <1>0, <2>1, <2>2 DEF CallFresh, CacheNewer, Admin, Newer
  <2>5. \A d \in Callers : RejectionPast(d)'
    BY <1>0, <2>1, <2>3 DEF CallFresh, RejectionPast, Session
  <2>6. \A d \in Callers : Managed(d)' <=> Managed(d)
    BY <2>1 DEF Managed, NeedsAdmin, Target, Admin, HasToken
  <2>7. resend[c] /\ Admin = "password" => Newer(c, s)
    BY <1>0, <2>2 DEF CallFresh, CacheNewer
  <2>8. cred'[c] = Session(s) /\ Session(s).id = s
    BY <2>1 DEF Session
  <2>9. SentNewer(c)'
    BY <2>1, <2>6, <2>7, <2>8 DEF SentNewer, Newer, Managed, Admin, HasToken
  <2>10. ASSUME NEW d \in Callers \ {c} PROVE SentNewer(d)'
    BY <1>0, <2>1, <2>6 DEF CallFresh, SentNewer, OnWire, Newer
  <2>11. ASSUME NEW d \in Callers PROVE AnswerExplained(d)'
    BY <1>0, <2>1, <2>6 DEF CallFresh, AnswerExplained, RevokedSince
  <2> QED
    BY <2>4, <2>5, <2>9, <2>10, <2>11 DEF FreshInv, CallFresh
<1>2. CASE StartLogin(c)
  <2>1. /\ UNCHANGED <<cookie, reply, issued, config, accepted, revoked>>
        /\ UNCHANGED <<pc, req, resend, cred, resp, rejection>>
    BY <1>2 DEF StartLogin, LoginStart, callVars, serverVars
  <2> QED
    BY <1>0, <2>1, FreshFrame DEF FreshInv
<1>3. CASE InvalidateSession(c)
  <2>1. /\ UNCHANGED <<reply, issued, config, accepted, revoked>>
        /\ UNCHANGED <<req, cred, resp, rejection>>
        /\ cookie' = NoCookie
        /\ pc' = [pc EXCEPT ![c] = "build"]
        /\ resend' = [resend EXCEPT ![c] = TRUE]
    BY <1>3 DEF InvalidateSession, Invalidate, serverVars
  <2>2. \A d \in Callers : reply[d] = NoCookie
    BY <1>3, NobodyAssumption
       DEF InvalidateSession, Invalidate, AuthInv, SingleLogin, LoggingIn
  <2> SUFFICES ASSUME NEW d \in Callers PROVE CallFresh(d)'
    BY DEF FreshInv
  <2>3. Managed(d)' <=> Managed(d)
    BY <2>1 DEF Managed, NeedsAdmin, Target, Admin, HasToken
  <2>4. CacheNewer(d)'
    BY <2>1, <2>2 DEF CacheNewer, Admin
  <2>5. RejectionPast(d)'
    BY <1>0, <2>1 DEF CallFresh, RejectionPast
  <2>6. SentNewer(d)'
    BY <1>0, <2>1, <2>3 DEF CallFresh, SentNewer, OnWire, Newer
  <2>7. AnswerExplained(d)'
    BY <1>0, <2>1, <2>3 DEF CallFresh, AnswerExplained, RevokedSince
  <2> QED
    BY <2>4, <2>5, <2>6, <2>7 DEF CallFresh
<1> QED
  BY <1>1, <1>2, <1>3 DEF Lock

(* Steps of the caller, the server and the network.                        *)
LEMMA FreshOutside ==
  ASSUME TypeInv, FreshInv, AuthInv, NEW c \in Callers, Outside(c)
  PROVE  FreshInv'
<1> USE FreshTypes DEF Goto
<1>0. \A d \in Callers : CallFresh(d)
  BY DEF FreshInv
<1>1. CASE Start(c)
  <2>1. OnlyCall(c)
    BY <1>1 DEF Start, OnlyCall, authVars, serverVars
  <2>2. /\ ~resend'[c] /\ pc'[c] = "build" /\ resp'[c] = "none"
        /\ rejection'[c] = NoRejection /\ cred'[c] = NoCredential
    BY <1>1 DEF Start
  <2>3. CallFresh(c)'
    BY <2>1, <2>2
       DEF OnlyCall, CallFresh, RejectionPast, CacheNewer, Admin, SentNewer,
           AnswerExplained, OnWire, NoRejection, NoCredential
  <2> QED
    BY <2>1, <2>3, FreshOnlyCall
<1>2. CASE Cancel(c)
  <2>1. /\ UNCHANGED <<cookie, reply, issued, config, accepted, revoked>>
        /\ UNCHANGED <<pc, req, resend, cred, resp, rejection>>
    BY <1>2 DEF Cancel, authVars, serverVars, historyVars
  <2> QED
    BY <1>0, <2>1, FreshFrame DEF FreshInv
<1>3. CASE AnswerLogin(c)
  <2>1. UNCHANGED <<cookie, config, revoked, pc, req, resend, cred, resp, rejection>>
    BY <1>3 DEF AnswerLogin, LoginServed, LoginRefused, callVars, historyVars
  <2>2. CASE UNCHANGED <<reply, issued, accepted>>
    BY <1>0, <2>1, <2>2, FreshFrame DEF FreshInv
  <2>3. CASE /\ issued' = issued + 1
             /\ reply' = [reply EXCEPT ![c] = issued + 1]
             /\ accepted' = accepted \cup {Session(issued + 1)}
    <3> SUFFICES ASSUME NEW d \in Callers PROVE CallFresh(d)'
      BY DEF FreshInv
    <3>1. Managed(d)' <=> Managed(d)
      BY <2>1 DEF Managed, NeedsAdmin, Target, Admin, HasToken
    <3>2. RejectionPast(d)'
      BY <1>0, <2>1, <2>3 DEF CallFresh, RejectionPast
    <3>3. ASSUME NEW n, Newer(d, n) PROVE Newer(d, n)'
      BY <2>1, <2>3, <3>3 DEF Newer
    <3>4. Newer(d, issued)'
      BY <1>0, <2>1, <2>3 DEF Newer, CallFresh, RejectionPast
    <3>5. CacheNewer(d)'
      <4> SUFFICES ASSUME resend[d], Admin = "password"
                   PROVE  /\ cookie' # NoCookie => Newer(d, cookie)'
                          /\ \A e \in Callers : reply'[e] # NoCookie => Newer(d, reply[e])'
        BY <2>1 DEF CacheNewer, Admin
      <4>1. /\ cookie # NoCookie => Newer(d, cookie)
            /\ \A e \in Callers : reply[e] # NoCookie => Newer(d, reply[e])
        BY <1>0 DEF CallFresh, CacheNewer
      <4>2. cookie' # NoCookie => Newer(d, cookie)'
        BY <2>1, <2>3, <4>1 DEF Newer
      <4>3. ASSUME NEW e \in Callers \ {c}, reply'[e] # NoCookie
            PROVE  Newer(d, reply[e])'
        BY <2>1, <2>3, <4>1, <4>3 DEF Newer
      <4>4. Newer(d, reply[c])'
        BY <2>3, <3>4 DEF Newer
      <4> QED
        BY <4>2, <4>3, <4>4
    <3>6. SentNewer(d)'
      BY <1>0, <2>1, <3>1, <3>3 DEF CallFresh, SentNewer, OnWire
    <3>7. AnswerExplained(d)'
      BY <1>0, <2>1, <3>1 DEF CallFresh, AnswerExplained, RevokedSince
    <3> QED
      BY <3>2, <3>5, <3>6, <3>7 DEF CallFresh
  <2> QED
    BY <1>3, <2>2, <2>3 DEF AnswerLogin, LoginServed, LoginRefused
<1>4. CASE Serve(c)
  <2>1. /\ OnlyCall(c)
        /\ pc[c] = "wire" /\ pc'[c] = "served"
        /\ UNCHANGED <<req[c], resend[c], cred[c], rejection[c]>>
        /\ resp'[c] = "unauth" => ~Authorized(c)
    BY <1>4 DEF Serve, OnlyCall, authVars, serverVars
  <2>2. Managed(c)' <=> Managed(c)
    BY <2>1 DEF OnlyCall, Managed, NeedsAdmin, Target, Admin, HasToken
  <2>3. RejectionPast(c)' /\ CacheNewer(c)'
    BY <1>0, <2>1 DEF OnlyCall, CallFresh, RejectionPast, CacheNewer, Admin, Newer
  <2>4. SentNewer(c)'
    BY <1>0, <2>1, <2>2 DEF OnlyCall, CallFresh, SentNewer, OnWire, Newer
  <2>5. ASSUME Managed(c), resend[c], resp'[c] = "unauth" PROVE RevokedSince(c)
    <3>1. cred[c] = Session(cred[c].id) /\ Newer(c, cred[c].id)
      BY <1>0, <2>1, <2>5 DEF CallFresh, SentNewer, OnWire
    <3>2. cred[c] \notin accepted
      BY <2>1, <2>5, <3>1 DEF Authorized, Managed, NeedsAdmin, NeedsKey, Session
    <3> QED
      BY <3>1, <3>2 DEF Newer, RevokedSince
  <2>6. AnswerExplained(c)'
    BY <2>1, <2>2, <2>5 DEF OnlyCall, AnswerExplained, RevokedSince
  <2> QED
    BY <2>1, <2>3, <2>4, <2>6, FreshOnlyCall DEF CallFresh
<1>5. CASE ReceiveUnauthorized(c)
  <2>1. /\ OnlyCall(c)
        /\ pc'[c] \in {"invalidate", "build"}
        /\ UNCHANGED <<req[c], cred[c], resp[c]>>
        /\ rejection'[c] = [cred |-> cred[c], revoked |-> revoked]
        /\ UNCHANGED config
        /\ resend'[c] => Admin \in {"blank", "static"}
    BY <1>5 DEF ReceiveUnauthorized, Relogin, Rejected, CallInvalidate, OnlyCall,
                authVars, serverVars
  <2>2. CallFresh(c)'
    BY <1>0, <2>1 DEF OnlyCall, CallFresh, RejectionPast, CacheNewer, Admin, SentNewer,
                      AnswerExplained, OnWire
  <2> QED
    BY <2>1, <2>2, FreshOnlyCall
<1>6. CASE Receive(c)
  <2>1. /\ OnlyCall(c)
        /\ pc[c] = "served" /\ pc'[c] = "outcome"
        /\ UNCHANGED <<req[c], resend[c], cred[c], resp[c], rejection[c]>>
        /\ ~Relogin(c)
    BY <1>6 DEF Receive, OnlyCall, authVars, serverVars, historyVars
  <2>2. Managed(c)' <=> Managed(c)
    BY <2>1 DEF OnlyCall, Managed, NeedsAdmin, Target, Admin, HasToken
  <2>3. RejectionPast(c)' /\ CacheNewer(c)' /\ SentNewer(c)'
    BY <1>0, <2>1 DEF OnlyCall, CallFresh, RejectionPast, CacheNewer, Admin,
                      SentNewer, Newer, OnWire
  <2>4. AnswerExplained(c)'
    BY <1>0, <2>1, <2>2
       DEF OnlyCall, CallFresh, AnswerExplained, RevokedSince, Relogin, Managed
  <2> QED
    BY <2>1, <2>3, <2>4, FreshOnlyCall DEF CallFresh
<1>7. CASE ReadBody(c)
  <2>1. /\ OnlyCall(c)
        /\ pc[c] = "body" /\ pc'[c] = "idle"
        /\ UNCHANGED <<req[c], resend[c], cred[c], resp[c], rejection[c]>>
    BY <1>7 DEF ReadBody, OnlyCall, authVars, serverVars, historyVars
  <2>2. CallFresh(c)'
    BY <1>0, <2>1, FreshMove DEF OnlyCall, OnWire
  <2> QED
    BY <2>1, <2>2, FreshOnlyCall
<1> QED
  BY <1>1, <1>2, <1>3, <1>4, <1>5, <1>6, <1>7 DEF Outside

(* Each step preserves what is newer than a refused session.               *)
LEMMA FreshInvStep == TypeInv /\ AuthInv /\ FreshInv /\ [Next]_vars => FreshInv'
<1> SUFFICES ASSUME TypeInv, AuthInv, FreshInv, [Next]_vars PROVE FreshInv'
  OBVIOUS
<1>0. \A d \in Callers : CallFresh(d)
  BY DEF FreshInv
<1>1. CASE UNCHANGED vars
  BY <1>0, <1>1, FreshFrame
     DEF FreshInv, vars, authVars, callVars, serverVars, historyVars
<1>2. ASSUME NEW k \in accepted, Revoke(k) PROVE FreshInv'
  <2>1. /\ revoked' = revoked + 1
        /\ UNCHANGED <<cookie, reply, issued, config>>
        /\ UNCHANGED <<pc, req, resend, cred, resp, rejection>>
    BY <1>2 DEF Revoke, authVars, callVars, historyVars
  <2> SUFFICES ASSUME NEW d \in Callers PROVE CallFresh(d)'
    BY DEF FreshInv
  <2>2. Managed(d)' <=> Managed(d)
    BY <2>1 DEF Managed, NeedsAdmin, Target, Admin, HasToken
  <2>3. RevokedSince(d)' /\ RejectionPast(d)'
    BY <1>0, <2>1, FreshTypes DEF CallFresh, RejectionPast, RevokedSince
  <2>4. ASSUME NEW n, Newer(d, n) PROVE Newer(d, n)'
    BY <2>1, <2>3, <2>4 DEF Newer, RevokedSince
  <2>5. CacheNewer(d)' /\ SentNewer(d)'
    BY <1>0, <2>1, <2>2, <2>4 DEF CallFresh, CacheNewer, Admin, SentNewer, OnWire
  <2>6. AnswerExplained(d)'
    BY <1>0, <2>1, <2>2, <2>3 DEF CallFresh, AnswerExplained
  <2> QED
    BY <2>3, <2>5, <2>6 DEF CallFresh
<1> QED
  BY <1>1, <1>2, FreshProceed, FreshLock, FreshOutside DEF Next

(* It therefore holds in every reachable state.                            *)
LEMMA FreshInvariant == Spec => [](TypeInv /\ FreshInv)
  BY TypeInvInit, TypeInvStep, FreshInvInit, FreshInvStep, AuthInvariantHere, PTL
     DEF Spec

(* Whatever the other callers do between a 401 and the request that        *)
(* follows it, that request carries a session issued later.                *)
THEOREM ResendCarriesNewerSession == Spec => []ResendIsFresher
<1>1. FreshInv => ResendIsFresher
  BY DEF FreshInv, CallFresh, SentNewer, Newer, ResendIsFresher
<1> QED
  BY <1>1, FreshInvariant, PTL

(* A managed call with a path written with its slash returns a 401 only    *)
(* when the server revoked a session during the call, after its first 401; *)
(* calls that lack the slash, and get no login, may run beside it.         *)
THEOREM UnauthorizedMeansRevoked == Spec => []UnauthorizedOnlyIfRevoked
<1>1. TypeInv /\ FreshInv => UnauthorizedOnlyIfRevoked
  <2> SUFFICES ASSUME TypeInv, FreshInv, NEW c \in Callers, Managed(c),
                      req[c].path.rooted, pc[c] = "idle", resp[c] = "unauth"
               PROVE  resend[c] /\ revoked > rejection[c].revoked
    BY DEF UnauthorizedOnlyIfRevoked
  <2>1. req[c].path \in [rooted : BOOLEAN, segments : Seq(STRING)]
    BY RequestsAssumption, FreshTypes
  <2>2. Target(c) = req[c].path
    BY <2>1 DEF Target, normalizePath
  <2>3. isAdminPath(req[c].path)
    BY <2>2 DEF Managed, NeedsAdmin
  <2> QED
    BY <2>3 DEF FreshInv, CallFresh, AnswerExplained, RevokedSince
<1> QED
  BY <1>1, FreshInvariant, PTL
-----------------------------------------------------------------------------
(* How many logins                                                         *)

(* The login under way, or the session cached, is the one login that       *)
(* neither an Invalidate nor a failure accounts for.                       *)
LoginInv ==
    /\ tally.started <= 1 + tally.cleared + tally.failed
    /\ cookie = NoCookie /\ mu = Nobody => tally.started <= tally.cleared + tally.failed

(* A fresh client has logged in nowhere.                                   *)
LEMMA LoginInvInit == Init => LoginInv
  BY DEF Init, AuthInit, LoginInv

(* A login starts only with the cache empty and the mutex free.            *)
LEMMA LoginInvStep == TypeInv /\ AuthInv /\ LoginInv /\ [Next]_vars => LoginInv'
<1> SUFFICES ASSUME TypeInv, AuthInv, LoginInv, [Next]_vars PROVE LoginInv'
  OBVIOUS
<1>0. /\ tally \in [started : Nat, failed : Nat, cleared : Nat]
      /\ tally.started \in Nat /\ tally.failed \in Nat /\ tally.cleared \in Nat
      /\ \A c \in Callers : c # Nobody
      /\ \A c \in Callers : at[c] \in {"login", "answered"} => mu = c
  BY NobodyAssumption DEF TypeInv, TypeOK, AuthInv, SingleLogin, LoggingIn
<1> USE <1>0
<1>1. CASE UNCHANGED <<authVars, tally>>
  BY <1>1 DEF LoginInv, authVars
<1>2. ASSUME NEW c \in Callers, InjectCookie(c) PROVE LoginInv'
  <2>1. /\ UNCHANGED tally
        /\ mu' # mu => cookie' # NoCookie
        /\ cookie' # cookie => cookie' # NoCookie
    BY <1>2 DEF InjectCookie, CookieCached, LoginAccepted, Leave, historyVars
  <2> QED
    BY <2>1 DEF LoginInv
<1>3. ASSUME NEW c \in Callers, StartLogin(c) PROVE LoginInv'
  <2>1. /\ cookie = NoCookie /\ mu = Nobody /\ mu' = c
        /\ tally' = [tally EXCEPT !.started = @ + 1]
    BY <1>3 DEF StartLogin, LoginStart
  <2>2. /\ tally'.started = tally.started + 1
        /\ tally'.failed = tally.failed /\ tally'.cleared = tally.cleared
    BY <2>1
  <2> QED
    BY <2>1, <2>2 DEF LoginInv
<1>4. ASSUME NEW c \in Callers, FailLogin(c) PROVE LoginInv'
  <2>1. tally' = [tally EXCEPT !.failed = @ + 1]
    BY <1>4 DEF FailLogin
  <2>2. /\ tally'.failed = tally.failed + 1
        /\ tally'.started = tally.started /\ tally'.cleared = tally.cleared
    BY <2>1
  <2> QED
    BY <2>2 DEF LoginInv
<1>5. ASSUME NEW c \in Callers, InvalidateSession(c) PROVE LoginInv'
  <2>1. tally' = [tally EXCEPT !.cleared = @ + 1]
    BY <1>5 DEF InvalidateSession
  <2>2. /\ tally'.cleared = tally.cleared + 1
        /\ tally'.started = tally.started /\ tally'.failed = tally.failed
    BY <2>1
  <2> QED
    BY <2>2 DEF LoginInv
<1>6. ASSUME NEW c \in Callers, AskCookie(c) \/ AnswerLogin(c) \/ ReceiveUnauthorized(c)
      PROVE  LoginInv'
  <2>1. UNCHANGED <<mu, cookie, tally>>
    BY <1>6 DEF AskCookie, CallCookie, AnswerLogin, LoginServed, LoginRefused,
                ReceiveUnauthorized, CallInvalidate, authVars, historyVars
  <2> QED
    BY <2>1 DEF LoginInv
<1>7. ASSUME NEW c \in Callers, Proceed(c), ~FailLogin(c), ~AskCookie(c)
      PROVE  UNCHANGED <<authVars, tally>>
  BY <1>7 DEF Proceed, InjectNothing, InjectKey, InjectToken, InjectStatic, Inject,
              NotConfigured, Send, Lose, LoseBody, BackOff, WakeUp, SleepCancelled,
              Finish, historyVars
<1>8. ASSUME NEW c \in Callers, Outside(c), ~AnswerLogin(c), ~ReceiveUnauthorized(c)
      PROVE  UNCHANGED <<authVars, tally>>
  BY <1>8 DEF Outside, Start, Cancel, Serve, Receive, ReadBody, historyVars
<1>9. ASSUME NEW k \in accepted, Revoke(k) PROVE UNCHANGED <<authVars, tally>>
  BY <1>9 DEF Revoke, historyVars
<1>10. CASE UNCHANGED vars
  BY <1>10, <1>1 DEF vars, historyVars
<1> QED
  BY <1>1, <1>2, <1>3, <1>4, <1>5, <1>6, <1>7, <1>8, <1>9, <1>10 DEF Next, Lock

(* However many goroutines wait for a session at the same time, a client   *)
(* logs in once, once more per Invalidate and once more per failed login.  *)
THEOREM LoginsAreAccounted == Spec => []LoginsAccounted
<1>1. LoginInv => LoginsAccounted
  BY DEF LoginInv, LoginsAccounted
<1> QED
  BY <1>1, LoginInvInit, LoginInvStep, TypeInvInit, TypeInvStep, AuthInvariantHere, PTL
     DEF Spec

-----------------------------------------------------------------------------
(* Which credential goes where                                             *)

(* Credential k is what injectAuth puts on the request of c.               *)
Suits(c, k) ==
    /\ k.kind \in {"cookie", "token"} => NeedsAdmin(c)
    /\ k.kind = "key" => NeedsKey(c)
    /\ k.kind = "none" /\ NeedsAdmin(c) => Admin = "blank" /\ ~HasToken
    /\ k.kind = "none" /\ NeedsKey(c) => config.key = "blank"

(* Only a management path asks the PasswordAuth for a session.             *)
Plane(c) ==
    /\ OnWire(c) => Suits(c, cred[c])
    /\ pc[c] = "cookie" => NeedsAdmin(c)

PlaneInv == \A c \in Callers : Plane(c)

(* A step that keeps a call's request and credential, and does not bring   *)
(* it to the wire or into Cookie, keeps its plane.                         *)
LEMMA PlaneFrame ==
  ASSUME NEW d \in Callers, Plane(d), UNCHANGED <<req[d], cred[d], config>>,
         \/ pc'[d] = pc[d]
         \/ OnWire(d)' /\ OnWire(d)
         \/ ~OnWire(d)' /\ pc'[d] # "cookie"
  PROVE  Plane(d)'
  BY DEF Plane, Suits, OnWire, NeedsAdmin, NeedsKey, Target, Admin, HasToken

(* A client keeps the configuration NewClient gave it.                     *)
LEMMA ConfigStays == [Next]_vars => UNCHANGED config
<1> SUFFICES ASSUME [Next]_vars PROVE UNCHANGED config
  OBVIOUS
<1> USE DEF serverVars
<1>1. ASSUME NEW c \in Callers, Proceed(c) PROVE UNCHANGED config
  BY <1>1 DEF Proceed, InjectNothing, InjectKey, InjectToken, InjectStatic, Inject,
              NotConfigured, AskCookie, FailLogin, Fail, Send, Lose, Finish, LoseBody,
              BackOff, WakeUp, SleepCancelled
<1>2. ASSUME NEW c \in Callers, Lock(c) PROVE UNCHANGED config
  BY <1>2 DEF Lock, InjectCookie, StartLogin, InvalidateSession
<1>3. ASSUME NEW c \in Callers, Outside(c) PROVE UNCHANGED config
  BY <1>3 DEF Outside, Start, Cancel, AnswerLogin, Serve, Receive, ReceiveUnauthorized,
              ReadBody
<1>4. ASSUME NEW k \in accepted, Revoke(k) PROVE UNCHANGED config
  BY <1>4 DEF Revoke
<1> QED
  BY <1>1, <1>2, <1>3, <1>4 DEF Next, vars

(* A fresh client has sent nothing.                                        *)
LEMMA PlaneInit == Init => PlaneInv
  BY DEF Init, PlaneInv, Plane, OnWire

(* A request goes on the wire with the credential its path asks for.       *)
LEMMA PlaneStep == TypeInv /\ PlaneInv /\ [Next]_vars => PlaneInv'
<1> SUFFICES ASSUME TypeInv, \A c \in Callers : Plane(c), [Next]_vars,
                    NEW d \in Callers
             PROVE  Plane(d)'
  BY DEF PlaneInv
<1>0. pc \in [Callers -> Points] /\ cred \in [Callers -> Credentials]
      /\ req \in [Callers -> Requests]
      /\ UNCHANGED config
  BY ConfigStays DEF TypeInv, TypeOK
<1> USE <1>0 DEF Goto
<1>1. CASE UNCHANGED <<pc, req, cred>>
  BY <1>1, PlaneFrame
<1>2. ASSUME NEW c \in Callers, NEW k, Inject(c, k), Suits(c, k)
      PROVE  Plane(d)'
  <2>1. /\ UNCHANGED req /\ pc' = [pc EXCEPT ![c] = "send"]
        /\ cred' = [cred EXCEPT ![c] = k]
    BY <1>2 DEF Inject
  <2>2. CASE d = c
    BY <1>2, <2>1, <2>2
       DEF Plane, Suits, OnWire, NeedsAdmin, NeedsKey, Target, Admin, HasToken
  <2>3. CASE d # c
    BY <2>1, <2>3, PlaneFrame
  <2> QED
    BY <2>2, <2>3
<1>3. ASSUME NEW c \in Callers, AskCookie(c) PROVE Plane(d)'
  <2>1. /\ UNCHANGED <<req, cred>> /\ pc' = [pc EXCEPT ![c] = "cookie"]
        /\ NeedsAdmin(c)
    BY <1>3 DEF AskCookie
  <2>2. CASE d = c
    BY <2>1, <2>2 DEF Plane, OnWire, NeedsAdmin, Target
  <2>3. CASE d # c
    BY <2>1, <2>3, PlaneFrame
  <2> QED
    BY <2>2, <2>3
<1>4. ASSUME NEW c \in Callers, InjectCookie(c) PROVE Plane(d)'
  <2>1. /\ UNCHANGED req /\ pc' = [pc EXCEPT ![c] = "send"]
        /\ cred' = [cred EXCEPT ![c] = Session(got'[c])]
        /\ NeedsAdmin(c)
    BY <1>4 DEF InjectCookie, Plane
  <2>2. CASE d = c
    BY <2>1, <2>2 DEF Plane, Suits, OnWire, NeedsAdmin, Target, Session
  <2>3. CASE d # c
    BY <2>1, <2>3, PlaneFrame
  <2> QED
    BY <2>2, <2>3
<1>5. ASSUME NEW c \in Callers, Start(c) PROVE Plane(d)'
  <2>1. /\ \A e \in Callers \ {c} : UNCHANGED <<req[e], cred[e], pc[e]>>
        /\ pc'[c] = "build"
    BY <1>5 DEF Start
  <2>2. CASE d = c
    BY <2>1, <2>2 DEF Plane, OnWire
  <2>3. CASE d # c
    BY <2>1, <2>3, PlaneFrame
  <2> QED
    BY <2>2, <2>3
<1>6. ASSUME NEW c \in Callers, UNCHANGED <<req, cred>>,
             NEW p, pc' = [pc EXCEPT ![c] = p], p # "cookie",
             p \in {"send", "wire", "served"} => OnWire(c)
      PROVE  Plane(d)'
  BY <1>6, PlaneFrame DEF OnWire
<1>7. ASSUME NEW c \in Callers, Proceed(c) PROVE Plane(d)'
  <2>1. CASE InjectNothing(c) \/ InjectKey(c) \/ InjectToken(c) \/ InjectStatic(c)
    <3>1. NeedsAdmin(c) => ~NeedsKey(c)
      BY DEF NeedsAdmin, NeedsKey
    <3>2. \E k : Inject(c, k) /\ Suits(c, k)
      BY <2>1, <3>1
         DEF InjectNothing, InjectKey, InjectToken, InjectStatic, Suits, NoCredential,
             Key, Token, StaticCookie, Session, HasKey
    <3> QED
      BY <3>2, <1>2
  <2>2. CASE FailLogin(c) \/ NotConfigured(c) \/ Lose(c)
    BY <2>2, <1>6 DEF FailLogin, NotConfigured, Lose, Fail
  <2>3. CASE Send(c)
    BY <2>3, <1>6 DEF Send, OnWire
  <2>4. CASE Finish(c)
    BY <2>4, <1>6 DEF Finish
  <2>5. CASE LoseBody(c) \/ BackOff(c) \/ WakeUp(c) \/ SleepCancelled(c)
    BY <2>5, <1>6 DEF LoseBody, BackOff, WakeUp, SleepCancelled
  <2> QED
    BY <1>7, <1>3, <2>1, <2>2, <2>3, <2>4, <2>5 DEF Proceed
<1>8. ASSUME NEW c \in Callers, Lock(c) PROVE Plane(d)'
  BY <1>8, <1>1, <1>4, <1>6 DEF Lock, StartLogin, InvalidateSession, callVars
<1>9. ASSUME NEW c \in Callers, Outside(c) PROVE Plane(d)'
  <2>1. CASE Cancel(c) \/ AnswerLogin(c)
    BY <2>1, <1>1 DEF Cancel, AnswerLogin, callVars
  <2>2. CASE Serve(c) \/ ReceiveUnauthorized(c)
    BY <2>2, <1>6 DEF Serve, ReceiveUnauthorized, OnWire
  <2>3. CASE Receive(c) \/ ReadBody(c)
    BY <2>3, <1>6 DEF Receive, ReadBody
  <2> QED
    BY <1>9, <1>5, <2>1, <2>2, <2>3 DEF Outside
<1>10. ASSUME NEW k \in accepted, Revoke(k) PROVE Plane(d)'
  BY <1>10, <1>1 DEF Revoke, callVars
<1> QED
  BY <1>1, <1>7, <1>8, <1>9, <1>10 DEF Next, vars, callVars

(* The prefix tests of the code are right about every path: the ones that  *)
(* want a session are exactly the management paths, the ones that want a   *)
(* key exactly the gateway paths, and no path is both.                     *)
LEMMA PathsAreClassified ==
  ASSUME NEW p \in [rooted : BOOLEAN, segments : Seq(STRING)]
  PROVE  LET q == normalizePath(p)
         IN  /\ ~isPublicPath(q) /\ isAdminPath(q) <=> OnManagement(p.segments)
             /\ ~isPublicPath(q) /\ ~isAdminPath(q) /\ isGatewayPath(q)
                   <=> OnGateway(p.segments)
<1> DEFINE q == normalizePath(p)
           s == p.segments
<1>1. q.rooted /\ q.segments = s /\ s \in Seq(STRING)
  BY DEF normalizePath
<1>2. ASSUME NEW w PROVE hasPathPrefix(q, <<w>>) <=> s # <<>> /\ s[1] = w
  BY <1>1 DEF hasPathPrefix, IsPrefix
<1>3. hasPathPrefix(q, <<"api", "claim">>)
        <=> Len(s) > 1 /\ s[1] = "api" /\ s[2] = "claim"
  BY <1>1 DEF hasPathPrefix, IsPrefix
<1>4. s = <<"healthz">> => s # <<>> /\ s[1] = "healthz"
  OBVIOUS
<1>5. s = <<"api", "healthz">> => s # <<>> /\ s[1] = "api"
  OBVIOUS
<1>6. isPublicPath(q) <=> \/ s \in {<<"healthz">>, <<"api", "healthz">>}
                         \/ (Len(s) > 1 /\ s[1] = "api" /\ s[2] = "claim")
  BY <1>1, <1>3 DEF isPublicPath
<1>7. isAdminPath(q) <=> s # <<>> /\ s[1] = "api"
  BY <1>2, Zenon DEF isAdminPath
<1>8. isGatewayPath(q) <=> OnGateway(s)
  <2>1. isGatewayPath(q) <=> (\/ hasPathPrefix(q, <<"v1">>)
                             \/ hasPathPrefix(q, <<"v2">>)
                             \/ hasPathPrefix(q, <<"responses">>))
    BY Zenon DEF isGatewayPath
  <2> QED
    BY <1>2, <2>1, Zenon DEF OnGateway
<1>9. /\ ~isPublicPath(q) /\ isAdminPath(q) <=> OnManagement(s)
      /\ ~isPublicPath(q) /\ ~isAdminPath(q) /\ isGatewayPath(q) <=> OnGateway(s)
  BY <1>1, <1>4, <1>5, <1>6, <1>7, <1>8 DEF OnManagement, OnGateway
<1> QED
  BY <1>9

(* Whatever the configuration, the path and the interleaving: the gateway  *)
(* key travels to gateway paths and nowhere else, sessions and tokens to   *)
(* management paths and nowhere else, and only a blank credential lets a   *)
(* path of either plane go out bare (src/transport.go:110-131, 171-205).   *)
THEOREM CredentialPlanes == Spec => []CredentialsStayOnTheirPlane
<1>1. ASSUME TypeInv, PlaneInv PROVE CredentialsStayOnTheirPlane
  <2> SUFFICES ASSUME NEW c \in Callers, OnWire(c)
               PROVE  LET s == req[c].path.segments
                          sent == cred[c].kind
                      IN  /\ sent \in {"cookie", "token"} => OnManagement(s)
                          /\ sent = "key" => OnGateway(s)
                          /\ sent = "none" /\ OnManagement(s)
                                => Admin = "blank" /\ ~HasToken
                          /\ sent = "none" /\ OnGateway(s) => config.key = "blank"
    BY DEF CredentialsStayOnTheirPlane
  <2>1. req[c].path \in [rooted : BOOLEAN, segments : Seq(STRING)]
    BY <1>1, RequestsAssumption DEF TypeInv, TypeOK
  <2>2. /\ NeedsAdmin(c) <=> OnManagement(req[c].path.segments)
        /\ NeedsKey(c) <=> OnGateway(req[c].path.segments)
    BY <2>1, PathsAreClassified DEF NeedsAdmin, NeedsKey, Target
  <2> QED
    BY <1>1, <2>2 DEF PlaneInv, Plane, Suits
<1> QED
  BY <1>1, PlaneInit, PlaneStep, TypeInvInit, TypeInvStep, AuthInvariantHere, PTL
     DEF Spec

-----------------------------------------------------------------------------
(* How often the server has executed a call                                *)

(* An attempt executes the call at most once: a first answer 401 executed  *)
(* nothing.  An answer of the handler comes from an execution, and a write *)
(* is never executed before or after a 401.                                *)
RunsInv == \A c \in Callers :
    /\ executed[c] <= attempt[c] + 1
    /\ BeforeSend(c) \/ pc[c] \in {"wire", "invalidate"} => executed[c] <= attempt[c]
    /\ pc[c] = "served" /\ resp[c] = "unauth" => executed[c] <= attempt[c]
    /\ resp[c] \in {"ok", "bad"} => executed[c] > 0
    /\ ~idempotentMethod(req[c].method) /\ resp[c] = "unauth" => executed[c] = 0
    /\ pc[c] \in {"served", "outcome", "body"} => resp[c] # "none"

(* A fresh client has executed nothing and answered nothing.               *)
LEMMA RunsInvInit == Init => RunsInv
<1> SUFFICES ASSUME Init, NEW c \in Callers
             PROVE  /\ executed[c] = 0 /\ attempt[c] = 0
                    /\ resp[c] = "none" /\ pc[c] = "idle"
  BY DEF RunsInv, BeforeSend
<1> QED
  BY DEF Init

(* Each step preserves the account of executions.                          *)
LEMMA RunsInvStep ==
  TypeInv /\ TypeInv' /\ WorkInv /\ RunsInv /\ [Next]_vars => RunsInv'
<1> SUFFICES ASSUME TypeInv, TypeInv', WorkInv, RunsInv, [Next]_vars PROVE RunsInv'
  OBVIOUS
<1>0. /\ pc \in [Callers -> Points]
      /\ attempt \in [Callers -> Nat]
      /\ resp \in [Callers -> Statuses \cup {"none", "error"}]
      /\ req \in [Callers -> Requests]
      /\ executed \in [Callers -> Nat]
  BY PolicyAssumption DEF TypeInv, TypeOK
<1>c. \A d \in Callers : pc[d] = "sleep" \/ attempt[d] > 0
        => idempotentMethod(req[d].method)
  BY DEF TypeInv, ControlInv
<1>w. \A d \in Callers :
        /\ ~idempotentMethod(req[d].method)
        /\ BeforeSend(d) \/ pc[d] \in {"wire", "invalidate"}
        => executed[d] = 0
  BY DEF WorkInv
<1> USE <1>0 DEF RunsInv, BeforeSend, Goto
<1>1. CASE UNCHANGED vars
  BY <1>1 DEF vars, callVars, historyVars
<1>2. ASSUME NEW c \in Callers, Proceed(c) PROVE RunsInv'
  <2>1. ASSUME NEW k \in {NoCredential, Key, Token, StaticCookie}, Inject(c, k)
        PROVE  RunsInv'
    BY <2>1 DEF Inject, historyVars
  <2>2. CASE NotConfigured(c)
    BY <2>2 DEF NotConfigured, Fail, historyVars
  <2>3. CASE AskCookie(c)
    BY <2>3 DEF AskCookie, historyVars
  <2>4. CASE FailLogin(c)
    BY <2>4 DEF FailLogin, Fail
  <2>5. CASE Send(c)
    BY <2>5 DEF Send
  <2>6. CASE Lose(c)
    BY <2>6 DEF Lose, Fail, historyVars
  <2>7. CASE LoseBody(c)
    BY <2>7 DEF LoseBody, historyVars
  <2>8. CASE BackOff(c)
    BY <2>8 DEF BackOff, historyVars
  <2>9. CASE WakeUp(c)
    BY <2>9, <1>c DEF WakeUp
  <2>10. CASE SleepCancelled(c)
    BY <2>10 DEF SleepCancelled, historyVars
  <2>11. CASE Finish(c)
    BY <2>11 DEF Finish, historyVars
  <2> QED
    BY <1>2, <2>1, <2>2, <2>3, <2>4, <2>5, <2>6, <2>7, <2>8, <2>9, <2>10, <2>11
       DEF Proceed, InjectNothing, InjectKey, InjectToken, InjectStatic
<1>3. ASSUME NEW c \in Callers, Lock(c) PROVE RunsInv'
  <2>1. CASE InjectCookie(c)
    BY <2>1 DEF InjectCookie, historyVars
  <2>2. CASE StartLogin(c)
    BY <2>2 DEF StartLogin, callVars
  <2>3. CASE InvalidateSession(c)
    BY <2>3 DEF InvalidateSession
  <2> QED
    BY <1>3, <2>1, <2>2, <2>3 DEF Lock
<1>4. ASSUME NEW c \in Callers, Outside(c) PROVE RunsInv'
  <2>1. CASE Start(c)
    BY <2>1 DEF Start
  <2>2. CASE Cancel(c)
    BY <2>2 DEF Cancel, historyVars
  <2>3. CASE AnswerLogin(c)
    BY <2>3 DEF AnswerLogin, callVars, historyVars
  <2>4. CASE Serve(c)
    BY <2>4, <1>w DEF Serve
  <2>5. CASE ReceiveUnauthorized(c)
    BY <2>5 DEF ReceiveUnauthorized, Relogin
  <2>6. CASE Receive(c)
    BY <2>6 DEF Receive, historyVars
  <2>7. CASE ReadBody(c)
    BY <2>7 DEF ReadBody, historyVars
  <2> QED
    BY <1>4, <2>1, <2>2, <2>3, <2>4, <2>5, <2>6, <2>7 DEF Outside
<1>5. ASSUME NEW k \in accepted, Revoke(k) PROVE RunsInv'
  BY <1>5 DEF Revoke, callVars, historyVars
<1> QED
  BY <1>1, <1>2, <1>3, <1>4, <1>5 DEF Next

(* The account holds in every reachable state.                             *)
LEMMA RunsInvariant == Spec => [](TypeInv /\ WorkInv /\ RunsInv)
  BY WorkInvariant, RunsInvInit, RunsInvStep, PTL DEF Spec

-----------------------------------------------------------------------------
(* The refinement                                                          *)

(* A fresh client is in no call.                                           *)
LEMMA CallsInitHere == Init => Promise!CallsInit
  BY DEF Init, Promise!CallsInit, CallKind, CallAnswer

(* What the steps inside a call show of it: nothing.                       *)
LEMMA InsideIsSilent ==
  ASSUME UNCHANGED <<req, executed>>,
         \A c \in Callers : (pc'[c] = "idle") <=> (pc[c] = "idle"),
         \A c \in Callers : pc[c] = "idle" => resp'[c] = resp[c]
  PROVE  UNCHANGED Promise!callsVars
  BY DEF Promise!callsVars, CallKind, CallAnswer

(* The step in which c's call is over is a Return of its answer.           *)
LEMMA LastIsReturn ==
  ASSUME NEW c \in Callers, TypeInv, TypeInv', RunsInv', UNCHANGED <<req, executed>>,
         pc[c] # "idle", pc' = [pc EXCEPT ![c] = "idle"],
         resp' \in {resp, [resp EXCEPT ![c] = "error"]},
         resp'[c] # "none"
  PROVE  Promise!Return(c)
<1>1. CallKind[c] # "none"
  BY DEF CallKind
<1>2. CallKind' = [CallKind EXCEPT ![c] = "none"]
  BY DEF CallKind, TypeInv, TypeOK
<1>3. /\ CallAnswer' = [CallAnswer EXCEPT ![c] = resp'[c]]
      /\ resp'[c] \in Promise!Answers
  BY DEF CallAnswer, TypeInv, TypeOK, Promise!Answers, Statuses
<1>4. Promise!Honest(c, resp'[c])
  BY DEF RunsInv, Promise!Honest, CallKind, TypeInv, TypeOK
<1> QED
  BY <1>1, <1>2, <1>3, <1>4 DEF Promise!Return

(* The step in which the server executes c's request is an Execute.        *)
LEMMA ServeIsExecute ==
  ASSUME NEW c \in Callers, TypeInv, TypeInv', WorkInv, RunsInv, Serve(c)
  PROVE  Promise!Execute(c) \/ UNCHANGED Promise!callsVars
<1>1. /\ pc[c] = "wire" /\ pc' = [pc EXCEPT ![c] = "served"]
      /\ UNCHANGED req
      /\ executed' = [executed EXCEPT ![c] = @ + 1] \/ UNCHANGED executed
  BY DEF Serve, Goto
<1>2. UNCHANGED <<CallKind, CallAnswer>>
  <2>1. /\ \A d \in Callers : (pc'[d] = "idle") <=> (pc[d] = "idle")
        /\ \A d \in Callers : d # c => resp'[d] = resp[d]
    BY DEF Serve, Goto, TypeInv, TypeOK
  <2> QED
    BY <1>1, <2>1 DEF CallKind, CallAnswer
<1>3. CallKind[c] = IF idempotentMethod(req[c].method) THEN "read" ELSE "write"
  BY <1>1 DEF CallKind
<1>4. attempt[c] \in 0..Retries /\ executed[c] \in Nat /\ Retries \in Nat
  BY PolicyAssumption DEF TypeInv, TypeOK
<1>5. executed[c] <= attempt[c]
  BY <1>1 DEF RunsInv
<1>6. ~idempotentMethod(req[c].method) => executed[c] = 0
  BY <1>1 DEF WorkInv
<1>7. executed[c] < Promise!Limit(c)
  BY <1>3, <1>4, <1>5, <1>6 DEF Promise!Limit
<1> QED
  BY <1>1, <1>2, <1>3, <1>7 DEF Promise!Execute, Promise!callsVars

(* The step in which a call begins is an Ask.                              *)
LEMMA StartIsAsk ==
  ASSUME NEW c \in Callers, TypeInv, Start(c)
  PROVE  Promise!Ask(c)
<1>1. /\ pc[c] = "idle" /\ pc' = [pc EXCEPT ![c] = "build"]
      /\ executed' = [executed EXCEPT ![c] = 0]
      /\ resp' = [resp EXCEPT ![c] = "none"]
      /\ \E r \in Requests : req' = [req EXCEPT ![c] = r]
  BY DEF Start, Goto
<1>2. /\ pc \in [Callers -> Points] /\ req \in [Callers -> Requests]
      /\ resp \in [Callers -> Statuses \cup {"none", "error"}]
  BY DEF TypeInv, TypeOK
<1>3. CallAnswer' = [CallAnswer EXCEPT ![c] = "none"]
  BY <1>1, <1>2 DEF CallAnswer
<1>4. CallKind[c] = "none"
  BY <1>1 DEF CallKind
<1>5. PICK r \in Requests : req' = [req EXCEPT ![c] = r]
  BY <1>1
<1>6. CallKind' = [CallKind EXCEPT ![c] = IF idempotentMethod(r.method) THEN "read" ELSE "write"]
  BY <1>1, <1>2, <1>5 DEF CallKind
<1> QED
  BY <1>1, <1>3, <1>4, <1>6 DEF Promise!Ask

(* Every step of the transport shows as a step of Calls, or does not show. *)
LEMMA StepImplementsCalls ==
  TypeInv /\ TypeInv' /\ WorkInv /\ RunsInv /\ RunsInv' /\ [Next]_vars
    => [Promise!CallsNext]_(Promise!callsVars)
<1> SUFFICES ASSUME TypeInv, TypeInv', WorkInv, RunsInv, RunsInv', [Next]_vars
             PROVE  [Promise!CallsNext]_(Promise!callsVars)
  OBVIOUS
<1>0. pc \in [Callers -> Points] /\ resp \in [Callers -> Statuses \cup {"none", "error"}]
  BY DEF TypeInv, TypeOK
<1> DEFINE Silent == /\ UNCHANGED <<req, executed>>
                     /\ \A d \in Callers : (pc'[d] = "idle") <=> (pc[d] = "idle")
                     /\ \A d \in Callers : pc[d] = "idle" => resp'[d] = resp[d]
<1>s. Silent => UNCHANGED Promise!callsVars
  BY InsideIsSilent
<1>l. ASSUME NEW c \in Callers, Promise!Return(c) \/ Promise!Execute(c) \/ Promise!Ask(c)
      PROVE  Promise!CallsNext
  BY <1>l DEF Promise!CallsNext
<1> USE <1>0 DEF Goto, historyVars
<1>1. CASE UNCHANGED vars
  BY <1>1, <1>s DEF vars, callVars
<1>2. ASSUME NEW c \in Callers, Proceed(c) PROVE [Promise!CallsNext]_(Promise!callsVars)
  <2>1. ASSUME NEW k \in {NoCredential, Key, Token, StaticCookie}, Inject(c, k)
        PROVE  Silent
    BY <2>1 DEF Inject
  <2>2. ASSUME Fail(c), pc[c] # "idle", UNCHANGED executed PROVE Silent
    BY <2>2 DEF Fail
  <2>3. CASE NotConfigured(c) \/ FailLogin(c) \/ Lose(c)
    BY <1>s, <2>2, <2>3 DEF NotConfigured, FailLogin, Lose
  <2>4. CASE AskCookie(c) \/ Send(c) \/ BackOff(c) \/ WakeUp(c)
    <3>1. Silent
      BY <2>4 DEF AskCookie, Send, BackOff, WakeUp
    <3> QED
      BY <1>s, <3>1
  <2>5. CASE LoseBody(c) \/ SleepCancelled(c)
    <3>1. /\ pc[c] # "idle" /\ pc' = [pc EXCEPT ![c] = "idle"]
          /\ resp' = [resp EXCEPT ![c] = "error"]
          /\ UNCHANGED <<req, executed>>
      BY <2>5 DEF LoseBody, SleepCancelled
    <3> QED
      BY <1>l, <3>1, LastIsReturn
  <2>6. CASE Finish(c)
    <3>1. /\ pc[c] = "outcome"
          /\ pc' = [pc EXCEPT ![c] = IF resp[c] = "error" THEN "idle" ELSE "body"]
          /\ UNCHANGED <<req, executed, resp>>
      BY <2>6 DEF Finish
    <3>2. CASE resp[c] = "error"
      BY <1>l, <3>1, <3>2, LastIsReturn
    <3>3. CASE resp[c] # "error"
      BY <1>s, <3>1, <3>3
    <3> QED
      BY <3>2, <3>3
  <2> QED
    BY <1>2, <1>s, <2>1, <2>3, <2>4, <2>5, <2>6
       DEF Proceed, InjectNothing, InjectKey, InjectToken, InjectStatic
<1>3. ASSUME NEW c \in Callers, Lock(c) PROVE UNCHANGED Promise!callsVars
  <2>1. Silent
    BY <1>3 DEF Lock, InjectCookie, StartLogin, InvalidateSession, callVars
  <2> QED
    BY <1>s, <2>1
<1>4. ASSUME NEW c \in Callers, Outside(c) PROVE [Promise!CallsNext]_(Promise!callsVars)
  <2>1. CASE Start(c)
    BY <1>l, <2>1, StartIsAsk
  <2>2. CASE Serve(c)
    BY <1>l, <2>2, ServeIsExecute
  <2>3. CASE Cancel(c) \/ AnswerLogin(c) \/ ReceiveUnauthorized(c) \/ Receive(c)
    <3>1. Silent
      BY <2>3 DEF Cancel, AnswerLogin, ReceiveUnauthorized, Receive, callVars
    <3> QED
      BY <1>s, <3>1
  <2>4. CASE ReadBody(c)
    <3>1. /\ pc[c] = "body" /\ pc' = [pc EXCEPT ![c] = "idle"]
          /\ UNCHANGED <<req, executed, resp>>
      BY <2>4 DEF ReadBody
    <3>2. resp[c] # "none"
      BY <3>1 DEF RunsInv
    <3> QED
      BY <1>l, <3>1, <3>2, LastIsReturn
  <2> QED
    BY <1>4, <2>1, <2>2, <2>3, <2>4 DEF Outside
<1>5. ASSUME NEW k \in accepted, Revoke(k) PROVE UNCHANGED Promise!callsVars
  <2>1. Silent
    BY <1>5 DEF Revoke, callVars
  <2> QED
    BY <1>s, <2>1
<1> QED
  BY <1>1, <1>2, <1>3, <1>4, <1>5 DEF Next

(* A write is executed at most once and a read at most once per attempt,   *)
(* results come from executions, and a write answered with a 401 was not   *)
(* executed: all that Calls promises, for every retry policy and any       *)
(* number of callers, logins, losses and revocations.                      *)
THEOREM TransportImplementsCalls == Spec => ImplementsCalls
<1>1. Spec => [](TypeInv /\ WorkInv /\ RunsInv)
  BY RunsInvariant
<1> QED
  BY <1>1, CallsInitHere, StepImplementsCalls, PTL
     DEF Spec, ImplementsCalls, Promise!CallsSpec
=============================================================================
