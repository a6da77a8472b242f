------------------------------ MODULE Transport ------------------------------
(***************************************************************************)
(* The request path of the client (src/transport.go:133-282, 332-389): a   *)
(* call goes through send (the retry loop), doOnce (one request, and a     *)
(* second one after a 401), newRequest and injectAuth (which credential),  *)
(* Do, and the reading of the body.  Several goroutines share one client   *)
(* and one AdminAuth; PasswordAuth is the module of that name, whose       *)
(* actions appear here as steps of the caller that executes them.          *)
(*                                                                         *)
(* The server and the network are external: the server checks the          *)
(* credential when the request reaches it, executes the request or not,    *)
(* revokes credentials at will; requests and answers get lost.             *)
(***************************************************************************)
EXTENDS PasswordAuth, Sequences, SequencesExt

CONSTANTS Requests,         \* what the callers may ask for
          CallsEach,        \* bound: calls made by each caller
          MaxRevocations,   \* bound: credentials revoked by the server
          Lossy,            \* may the network lose requests and answers?
          Configs,          \* what the client may have been built with
          Retries,          \* policy.MaxRetries; 0 stands for c.retry = nil
          RetryStatuses,    \* policy.Statuses
          RetryErrors       \* policy.retryTransportErrors()

(* c.admin is nil, a StaticSessionAuth, blank or not, or a PasswordAuth;   *)
(* c.adminToken is empty or not; c.key is nil, a blank StaticKey or one    *)
(* that says something.                                                    *)
ClientConfigs ==
    [admin : {"nil", "blank", "static", "password"}, token : BOOLEAN,
     key : {"nil", "blank", "static"}]

(* The statuses the code tells apart: below 400, 401, one that the default *)
(* policy retries (429, 5xx), any other.                                   *)
Statuses == {"ok", "unauth", "busy", "bad"}

ASSUME PolicyAssumption ==
    /\ Retries \in Nat
    /\ RetryStatuses \subseteq Statuses
    /\ RetryErrors \in BOOLEAN
ASSUME ConfigAssumption == Configs \subseteq ClientConfigs
ASSUME BoundAssumption ==
    /\ CallsEach \in Nat
    /\ MaxRevocations \in Nat
    /\ Lossy \in BOOLEAN

-----------------------------------------------------------------------------
(* Requests and paths.  A path is its segments and whether it starts with  *)
(* a slash; a request has a method, a path, and is an upload (doMultipart) *)
(* or not (send).                                                          *)

Methods == {"GET", "HEAD", "OPTIONS", "POST", "PUT", "PATCH", "DELETE"}
idempotentMethod(m) == m \in {"GET", "HEAD", "OPTIONS"}

normalizePath(p) == [p EXCEPT !.rooted = TRUE]

hasPathPrefix(p, prefix) == p.rooted /\ IsPrefix(prefix, p.segments)

isAdminPath(p) == hasPathPrefix(p, <<"api">>)

(* Variant: the draw of a red packet, /api/claim/{code}, is forgotten.      *)
isPublicPathExact(p) ==
    p.rooted /\ p.segments \in {<<"healthz">>, <<"api", "healthz">>, <<"api", "claim">>}

isPublicPath(p) ==
    \/ p.rooted /\ p.segments \in {<<"healthz">>, <<"api", "healthz">>}
    \/ hasPathPrefix(p, <<"api", "claim">>)

isGatewayPath(p) ==
    \E prefix \in {<<"v1">>, <<"v2">>, <<"responses">>} : hasPathPrefix(p, prefix)

ASSUME RequestsAssumption ==
    /\ Requests # {}
    /\ \A r \in Requests :
          /\ r.method \in Methods
          /\ r.path \in [rooted : BOOLEAN, segments : Seq(STRING)]
          /\ r.upload \in BOOLEAN
          /\ r.upload => r.method = "POST"

(* Credentials, as they travel in the Cookie or Authorization header.      *)
Session(n) == [kind |-> "cookie", id |-> n]
StaticCookie == Session(0)
Token == [kind |-> "token", id |-> 0]
Key == [kind |-> "key", id |-> 0]
NoCredential == [kind |-> "none", id |-> 0]
Credentials == [kind : {"cookie", "token", "key", "none"}, id : Nat]

-----------------------------------------------------------------------------
VARIABLES pc,               \* where each caller is
          req,              \* its request
          attempt,          \* send's loop counter
          resend,           \* doOnce is at its second request
          cred,             \* the credential put on the request
          resp,             \* status of the last answer, or "error"
          done,             \* the context of the call is done
          left              \* calls the caller may still make
callVars == <<pc, req, attempt, resend, cred, resp, done, left>>

VARIABLES config,           \* how NewClient built the client; never changes
          accepted,         \* server: the credentials it accepts
          revoked           \* server: how many it has revoked
serverVars == <<config, accepted, revoked>>

Admin == config.admin
HasToken == config.token
HasKey == config.key # "nil"

(* History, read by no guard.  Per call: requests put on the wire, times   *)
(* the server executed it, logins that failed, and the credential and the  *)
(* number of revocations of its first 401 in this attempt.  Per client:    *)
(* logins started and failed, and Invalidates.                             *)
VARIABLES sends, executed, failed, rejection, tally
historyVars == <<sends, executed, failed, rejection, tally>>

vars == <<authVars, callVars, serverVars, historyVars>>

Points == {"idle", "build", "cookie", "send", "wire", "served", "invalidate",
           "outcome", "sleep", "body"}

TypeOK ==
    /\ AuthTypeOK
    /\ pc \in [Callers -> Points]
    /\ req \in [Callers -> Requests]
    /\ attempt \in [Callers -> 0..Retries]
    /\ resend \in [Callers -> BOOLEAN]
    /\ cred \in [Callers -> Credentials]
    /\ resp \in [Callers -> Statuses \cup {"none", "error"}]
    /\ done \in [Callers -> BOOLEAN]
    /\ left \in [Callers -> 0..CallsEach]
    /\ config \in Configs
    /\ accepted \subseteq Credentials
    /\ revoked \in 0..MaxRevocations
    /\ sends \in [Callers -> Nat]
    /\ executed \in [Callers -> Nat]
    /\ failed \in [Callers -> Nat]
    /\ rejection \in [Callers -> [cred : Credentials, revoked : Nat]]
    /\ tally \in [started : Nat, failed : Nat, cleared : Nat]

NoRejection == [cred |-> NoCredential, revoked |-> 0]

Init ==
    /\ AuthInit
    /\ pc = [c \in Callers |-> "idle"]
    /\ req = [c \in Callers |-> CHOOSE r \in Requests : TRUE]
    /\ attempt = [c \in Callers |-> 0]
    /\ resend = [c \in Callers |-> FALSE]
    /\ cred = [c \in Callers |-> NoCredential]
    /\ resp = [c \in Callers |-> "none"]
    /\ done = [c \in Callers |-> FALSE]
    /\ left = [c \in Callers |-> CallsEach]
    /\ config \in Configs
    /\ accepted = {k \in {StaticCookie, Token, Key} :
                     \/ k = StaticCookie /\ Admin = "static"
                     \/ k = Token /\ HasToken
                     \/ k = Key /\ config.key = "static"}
    /\ revoked = 0
    /\ sends = [c \in Callers |-> 0]
    /\ executed = [c \in Callers |-> 0]
    /\ failed = [c \in Callers |-> 0]
    /\ rejection = [c \in Callers |-> NoRejection]
    /\ tally = [started |-> 0, failed |-> 0, cleared |-> 0]

-----------------------------------------------------------------------------
Goto(c, point) == pc' = [pc EXCEPT ![c] = point]

(* A caller enters the client with a request and a context of its own.     *)
Start(c) ==
    /\ pc[c] = "idle"
    /\ left[c] > 0
    /\ left' = [left EXCEPT ![c] = @ - 1]
    /\ \E r \in Requests : req' = [req EXCEPT ![c] = r]
    /\ attempt' = [attempt EXCEPT ![c] = 0]
    /\ resend' = [resend EXCEPT ![c] = FALSE]
    /\ cred' = [cred EXCEPT ![c] = NoCredential]
    /\ resp' = [resp EXCEPT ![c] = "none"]
    /\ done' = [done EXCEPT ![c] = FALSE]
    /\ sends' = [sends EXCEPT ![c] = 0]
    /\ executed' = [executed EXCEPT ![c] = 0]
    /\ failed' = [failed EXCEPT ![c] = 0]
    /\ rejection' = [rejection EXCEPT ![c] = NoRejection]
    /\ Goto(c, "build")
    /\ UNCHANGED <<authVars, serverVars, tally>>

(* The context of a call is cancelled, or its deadline passes.             *)
Cancel(c) ==
    /\ pc[c] # "idle"
    /\ ~done[c]
    /\ done' = [done EXCEPT ![c] = TRUE]
    /\ UNCHANGED <<authVars, pc, req, attempt, resend, cred, resp, left,
                   serverVars, historyVars>>

-----------------------------------------------------------------------------
(* newRequest and injectAuth                                               *)

Target(c) == normalizePath(req[c].path)
NeedsAdmin(c) == ~isPublicPath(Target(c)) /\ isAdminPath(Target(c))
NeedsKey(c) ==
    /\ ~isPublicPath(Target(c))
    /\ ~isAdminPath(Target(c))
    /\ isGatewayPath(Target(c))

(* The request is built with credential k.                                 *)
Inject(c, k) ==
    /\ pc[c] = "build"
    /\ cred' = [cred EXCEPT ![c] = k]
    /\ Goto(c, "send")
    /\ UNCHANGED <<authVars, req, attempt, resend, resp, done, left,
                   serverVars, historyVars>>

InjectNothing(c) == ~NeedsAdmin(c) /\ ~NeedsKey(c) /\ Inject(c, NoCredential)

(* A blank key or cookie is not put into the header.                       *)
InjectKey(c) ==
    /\ NeedsKey(c) /\ HasKey
    /\ Inject(c, IF config.key = "blank" THEN NoCredential ELSE Key)
InjectToken(c) == NeedsAdmin(c) /\ HasToken /\ Inject(c, Token)
InjectStatic(c) ==
    /\ NeedsAdmin(c) /\ ~HasToken /\ Admin \in {"blank", "static"}
    /\ Inject(c, IF Admin = "blank" THEN NoCredential ELSE StaticCookie)

(* doOnce or doMultipart returns an error: no answer to look at.           *)
Fail(c) ==
    /\ resp' = [resp EXCEPT ![c] = "error"]
    /\ Goto(c, "outcome")
    /\ UNCHANGED <<req, attempt, resend, cred, done, left, serverVars>>

NotConfigured(c) ==
    /\ pc[c] = "build"
    /\ \/ NeedsKey(c) /\ ~HasKey
       \/ NeedsAdmin(c) /\ ~HasToken /\ Admin = "nil"
    /\ Fail(c)
    /\ UNCHANGED <<authVars, historyVars>>

AskCookie(c) ==
    /\ pc[c] = "build"
    /\ NeedsAdmin(c) /\ ~HasToken /\ Admin = "password"
    /\ CallCookie(c)
    /\ Goto(c, "cookie")
    /\ UNCHANGED <<req, attempt, resend, cred, resp, done, left,
                   serverVars, historyVars>>

(* Cookie answers with a session, cached or just obtained.                 *)
InjectCookie(c) ==
    /\ pc[c] = "cookie"
    /\ CookieCached(c) \/ LoginAccepted(c)
    /\ cred' = [cred EXCEPT ![c] = Session(got'[c])]
    /\ Goto(c, "send")
    /\ UNCHANGED <<req, attempt, resend, resp, done, left,
                   serverVars, historyVars>>

StartLogin(c) ==
    /\ pc[c] = "cookie"
    /\ LoginStart(c)
    /\ tally' = [tally EXCEPT !.started = @ + 1]
    /\ UNCHANGED <<callVars, serverVars, sends, executed, failed, rejection>>

(* External: the server answers the login.                                 *)
AnswerLogin(c) ==
    /\ pc[c] = "cookie"
    /\ \/ LoginServed(c) /\ accepted' = accepted \cup {Session(issued')}
       \/ LoginRefused(c) /\ UNCHANGED accepted
    /\ UNCHANGED <<callVars, config, revoked, historyVars>>

(* The error of a login comes out of newRequest like any other.            *)
FailLogin(c) ==
    /\ pc[c] = "cookie"
    /\ LoginFailed(c)
    /\ Fail(c)
    /\ failed' = [failed EXCEPT ![c] = @ + 1]
    /\ tally' = [tally EXCEPT !.failed = @ + 1]
    /\ UNCHANGED <<sends, executed, rejection>>

-----------------------------------------------------------------------------
(* Do                                                                      *)

(* Do puts the request on the wire unless the context is done.             *)
Send(c) ==
    /\ pc[c] = "send"
    /\ ~done[c]
    /\ Goto(c, "wire")
    /\ sends' = [sends EXCEPT ![c] = @ + 1]
    /\ UNCHANGED <<authVars, req, attempt, resend, cred, resp, done, left,
                   serverVars, executed, failed, rejection, tally>>

Authorized(c) ==
    /\ NeedsAdmin(c) => cred[c] \in accepted /\ cred[c].kind \in {"cookie", "token"}
    /\ NeedsKey(c) => cred[c] \in accepted /\ cred[c].kind = "key"

(* External: the server turns the request away before doing anything, or   *)
(* executes it; "busy" may come from before or after that.                 *)
Serve(c) ==
    /\ pc[c] = "wire"
    /\ Goto(c, "served")
    /\ \/ /\ ~Authorized(c)
          /\ resp' = [resp EXCEPT ![c] = "unauth"]
          /\ UNCHANGED executed
       \/ /\ Authorized(c)
          /\ \E s \in {"ok", "busy", "bad"} : resp' = [resp EXCEPT ![c] = s]
          /\ executed' = [executed EXCEPT ![c] = @ + 1]
       \/ /\ Authorized(c)
          /\ resp' = [resp EXCEPT ![c] = "busy"]
          /\ UNCHANGED executed
    /\ UNCHANGED <<authVars, req, attempt, resend, cred, done, left,
                   serverVars, sends, failed, rejection, tally>>

(* External: the server stops accepting a credential.                      *)
Revoke(k) ==
    /\ k \in accepted
    /\ revoked < MaxRevocations
    /\ accepted' = accepted \ {k}
    /\ revoked' = revoked + 1
    /\ UNCHANGED <<authVars, callVars, config, historyVars>>

(* Do returns an error: context done, or request or answer lost.           *)
Lose(c) ==
    /\ pc[c] \in {"send", "wire", "served"}
    /\ done[c] \/ Lossy
    /\ Fail(c)
    /\ UNCHANGED <<authVars, historyVars>>

-----------------------------------------------------------------------------
(* doOnce: what to do with the answer                                      *)

(* Variant: no second request ever.                                        *)
ReloginNever(c) == resp[c] = "none"

(* Variant: nothing remembers that this is the second request.             *)
ReloginForever(c) ==
    /\ resp[c] = "unauth"
    /\ isAdminPath(req[c].path)
    /\ Admin # "nil"
    /\ ~req[c].upload

(* The test is made on the path as the caller wrote it.  An upload does    *)
(* not go through doOnce.                                                  *)
Relogin(c) ==
    /\ resp[c] = "unauth"
    /\ isAdminPath(req[c].path)
    /\ Admin # "nil"
    /\ ~resend[c]
    /\ ~req[c].upload

Rejected(c) ==
    rejection' = [rejection EXCEPT ![c] = [cred |-> cred[c], revoked |-> revoked]]

(* Variant: the cookie is cleared on the spot.                             *)
ReceiveUnauthorizedInline(c) ==
    /\ pc[c] = "served"
    /\ Relogin(c)
    /\ Rejected(c)
    /\ cookie' = NoCookie
    /\ Goto(c, "build")
    /\ resend' = [resend EXCEPT ![c] = TRUE]
    /\ UNCHANGED <<mu, at, reply, got, issued, req, attempt, cred, resp, done,
                   left, serverVars, sends, executed, failed, tally>>

(* First 401: Invalidate and build the request again.  The Invalidate of a *)
(* StaticSessionAuth does nothing.                                         *)
ReceiveUnauthorized(c) ==
    /\ pc[c] = "served"
    /\ Relogin(c)
    /\ Rejected(c)
    /\ \/ /\ Admin = "password"
          /\ CallInvalidate(c)
          /\ Goto(c, "invalidate")
          /\ UNCHANGED resend
       \/ /\ Admin \in {"blank", "static"}
          /\ Goto(c, "build")
          /\ resend' = [resend EXCEPT ![c] = TRUE]
          /\ UNCHANGED authVars
    /\ UNCHANGED <<req, attempt, cred, resp, done, left, serverVars,
                   sends, executed, failed, tally>>

InvalidateSession(c) ==
    /\ pc[c] = "invalidate"
    /\ Invalidate(c)
    /\ Goto(c, "build")
    /\ resend' = [resend EXCEPT ![c] = TRUE]
    /\ tally' = [tally EXCEPT !.cleared = @ + 1]
    /\ UNCHANGED <<req, attempt, cred, resp, done, left, serverVars,
                   sends, executed, failed, rejection>>

(* Any other answer, the second one included, is returned as it is.        *)
Receive(c) ==
    /\ pc[c] = "served"
    /\ ~Relogin(c)
    /\ Goto(c, "outcome")
    /\ UNCHANGED <<authVars, req, attempt, resend, cred, resp, done, left,
                   serverVars, historyVars>>

-----------------------------------------------------------------------------
(* send: the retry loop                                                    *)

(* Variant: writes are retried too.                                        *)
retryableAny(c) ==
    \/ resp[c] = "error" /\ RetryErrors
    \/ resp[c] \in RetryStatuses

retryable(c) ==
    /\ idempotentMethod(req[c].method)
    /\ \/ resp[c] = "error" /\ RetryErrors
       \/ resp[c] \in RetryStatuses

(* Variant: one retry too many.                                            *)
RetryOnceMore(c) == ~req[c].upload /\ attempt[c] <= Retries /\ retryable(c)

RetryAgain(c) == ~req[c].upload /\ attempt[c] < Retries /\ retryable(c)

BackOff(c) ==
    /\ pc[c] = "outcome"
    /\ RetryAgain(c)
    /\ Goto(c, "sleep")
    /\ UNCHANGED <<authVars, req, attempt, resend, cred, resp, done, left,
                   serverVars, historyVars>>

(* The timer fires; doOnce starts afresh.                                  *)
WakeUp(c) ==
    /\ pc[c] = "sleep"
    /\ attempt' = [attempt EXCEPT ![c] = @ + 1]
    /\ resend' = [resend EXCEPT ![c] = FALSE]
    /\ rejection' = [rejection EXCEPT ![c] = NoRejection]
    /\ Goto(c, "build")
    /\ UNCHANGED <<authVars, req, cred, resp, done, left,
                   serverVars, sends, executed, failed, tally>>

(* The call returns the error of its context.                              *)
SleepCancelled(c) ==
    /\ pc[c] = "sleep"
    /\ done[c]
    /\ resp' = [resp EXCEPT ![c] = "error"]
    /\ Goto(c, "idle")
    /\ UNCHANGED <<authVars, req, attempt, resend, cred, done, left,
                   serverVars, historyVars>>

(* send returns its error, or the answer, whose body is read next.         *)
Finish(c) ==
    /\ pc[c] = "outcome"
    /\ ~RetryAgain(c)
    /\ Goto(c, IF resp[c] = "error" THEN "idle" ELSE "body")
    /\ UNCHANGED <<authVars, req, attempt, resend, cred, resp, done, left,
                   serverVars, historyVars>>

ReadBody(c) ==
    /\ pc[c] = "body"
    /\ Goto(c, "idle")
    /\ UNCHANGED <<authVars, req, attempt, resend, cred, resp, done, left,
                   serverVars, historyVars>>

LoseBody(c) ==
    /\ pc[c] = "body"
    /\ done[c] \/ Lossy
    /\ resp' = [resp EXCEPT ![c] = "error"]
    /\ Goto(c, "idle")
    /\ UNCHANGED <<authVars, req, attempt, resend, cred, done, left,
                   serverVars, historyVars>>

-----------------------------------------------------------------------------
(* Steps of the client's own code, the locks apart.                        *)
Proceed(c) ==
    \/ InjectNothing(c) \/ InjectKey(c) \/ InjectToken(c) \/ InjectStatic(c)
    \/ NotConfigured(c) \/ AskCookie(c) \/ FailLogin(c)
    \/ Send(c) \/ Lose(c) \/ LoseBody(c)
    \/ BackOff(c) \/ WakeUp(c) \/ SleepCancelled(c) \/ Finish(c)

(* The mutex of PasswordAuth is needed.                                    *)
Lock(c) == InjectCookie(c) \/ StartLogin(c) \/ InvalidateSession(c)

(* The caller, the server or the network moves.                            *)
Outside(c) ==
    \/ Start(c) \/ Cancel(c)
    \/ AnswerLogin(c) \/ Serve(c)
    \/ ReceiveUnauthorized(c) \/ Receive(c) \/ ReadBody(c)

Next ==
    \/ \E c \in Callers : Proceed(c) \/ Lock(c) \/ Outside(c)
    \/ \E k \in accepted : Revoke(k)

Spec == Init /\ [][Next]_vars

(* The client's code runs on.  A waiter gets the mutex that is free again  *)
(* and again (sync.Mutex's starvation mode).  Every call has a deadline,   *)
(* as src/options.go:53-55 asks of the callers: the client has no timeout  *)
(* of its own.  Nothing is assumed of the server and the network.          *)
Fairness == \A c \in Callers :
    /\ WF_vars(Proceed(c))
    /\ SF_vars(Lock(c))
    /\ WF_vars(Cancel(c))

FairSpec == Spec /\ Fairness

-----------------------------------------------------------------------------
(* Properties                                                              *)

(* A write reaches the server's handler at most once per call, whatever    *)
(* 401s, lost answers, retry policy and other callers' logins come in its  *)
(* way: the resend after a 401 follows a refusal that executed nothing     *)
(* (src/transport.go:250-258), and send repeats idempotent methods only    *)
(* (src/transport.go:228-238).                                             *)
WriteAtMostOnce ==
    \A c \in Callers : ~idempotentMethod(req[c].method) => executed[c] <= 1

(* The work of one call is bounded: each attempt puts at most two requests *)
(* on the wire and fails at most one login, and only an idempotent method  *)
(* gets more attempts than one.  An upload sends once.  (Every failed      *)
(* login counts towards the server's lockout, src/auth.go:56-58.)          *)
BoundedWork ==
    \A c \in Callers :
        /\ attempt[c] > 0 => idempotentMethod(req[c].method)
        /\ sends[c] <= 2 * (attempt[c] + 1)
        /\ failed[c] <= attempt[c] + 1
        /\ req[c].upload => sends[c] <= 1

OnWire(c) == pc[c] \in {"send", "wire", "served"}

(* The planes as the documentation lists them (README.md:80-86), read off  *)
(* the segments of a path, with its leading slash or without.              *)
OnManagement(s) ==
    /\ s # <<>> /\ s[1] = "api"
    /\ s # <<"api", "healthz">>
    /\ ~(Len(s) > 1 /\ s[2] = "claim")
OnGateway(s) == s # <<>> /\ s[1] \in {"v1", "v2", "responses"}

(* Each credential stays on its plane, in the second request and in every  *)
(* retry too: sessions and API tokens travel to management paths only, the *)
(* gateway key to gateway paths only, nothing to a public path or to one   *)
(* that merely begins with the same letters (/apifoo, but /api/claims is   *)
(* no part of /api/claim); and a path of either plane never goes out bare, *)
(* unless the program gave a blank credential (src/transport.go:110-131,   *)
(* 171-205).                                                               *)
CredentialsStayOnTheirPlane ==
    \A c \in Callers : OnWire(c) =>
        LET s == req[c].path.segments
            sent == cred[c].kind
        IN  /\ sent \in {"cookie", "token"} => OnManagement(s)
            /\ sent = "key" => OnGateway(s)
            /\ sent = "none" /\ OnManagement(s) => Admin = "blank" /\ ~HasToken
            /\ sent = "none" /\ OnGateway(s) => config.key = "blank"

(* The calls for which the documentation promises the login after a 401    *)
(* (README.md:88-90): admin paths of a client that logs in, uploads apart. *)
Managed(c) ==
    NeedsAdmin(c) /\ Admin = "password" /\ ~HasToken /\ ~req[c].upload

(* The request sent after a 401 carries a session issued later than the    *)
(* one that was turned away, though other callers log in and invalidate at *)
(* the same time (src/transport.go:252-257 with src/auth.go:98-116).       *)
ResendIsFresher ==
    \A c \in Callers : Managed(c) /\ resend[c] /\ OnWire(c)
        => cred[c].id > rejection[c].cred.id

(* A call comes back with a 401 only if the server revoked something after *)
(* the first 401 of that call: an expired session alone never surfaces,    *)
(* and no race between callers makes one take a session that was already   *)
(* dead (src/transport.go:240-258).  A path written without its slash is   *)
(* no such call: it gets the session, for newRequest puts the slash first, *)
(* but no login after its 401 (src/transport.go:250).                      *)
UnauthorizedOnlyIfRevoked ==
    \A c \in Callers :
        Managed(c) /\ req[c].path.rooted /\ pc[c] = "idle" /\ resp[c] = "unauth"
            => resend[c] /\ revoked > rejection[c].revoked

(* Every login is accounted for: the first one, one after each Invalidate, *)
(* one after each failed login, and not one more, however many callers     *)
(* wait for a session at the same time (src/auth.go:99-105).               *)
LoginsAccounted == tally.started <= 1 + tally.cleared + tally.failed

(* Every call returns, whatever the server does and however the callers    *)
(* queue at the mutex of PasswordAuth.                                     *)
EveryCallReturns == \A c \in Callers : pc[c] # "idle" ~> pc[c] = "idle"

(* Every step of the transport is a step of PasswordAuth or does not touch *)
(* it: nothing reaches a.cookie but through Cookie and Invalidate.         *)
UsesPasswordAuth == AuthSpec

(* A call as Calls sees it.                                                *)
CallKind == [c \in Callers |->
    IF pc[c] = "idle" THEN "none"
    ELSE IF idempotentMethod(req[c].method) THEN "read" ELSE "write"]

CallAnswer == [c \in Callers |-> IF pc[c] = "idle" THEN resp[c] ELSE "none"]

(* Under the losses, the 401s, the logins and the retries, a call is what  *)
(* Calls promises: no write twice, no result that comes from nowhere, and  *)
(* no 401 for a write that was executed.                                   *)
Promise == INSTANCE Calls WITH
    Attempts <- Retries + 1, kind <- CallKind, runs <- executed, answer <- CallAnswer

ImplementsCalls == Promise!CallsSpec

-----------------------------------------------------------------------------
(* What the documentation says and the code does not do                    *)

(* src/auth.go:57: "登录是单飞的（并发 401 只触发一次）".  Failed logins aside, each  *)
(* revocation costs at most one login.                                     *)
SingleFlight == tally.started <= 1 + revoked + tally.failed

(* src/auth.go:57: "失败**不重试**".                                           *)
FailedLoginNotRetried == \A c \in Callers : failed[c] <= 1

(* src/options.go:95: with an API token, no relogin after a 401.           *)
TokenNeverRelogins == HasToken => \A c \in Callers : ~resend[c]
=============================================================================
