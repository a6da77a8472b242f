# Specifications of wbsdk

TLA+ models of the Go client `wbsdk` (`src/`), the TLC runs that check them, and
TLAPS proofs of what holds for every size of the system. `PROJECT.json` maps each
definition to the lines it models and lists runs, mutants, hazards, findings and
theorems.

## The system

`wbsdk` is a client library: a program builds one `Client`, and any number of its
goroutines call it at once. A call is an HTTP request to one of two planes of a
workbuddy-manager server: the management plane (`/api/...`, session cookie or API
token) and the gateway (`/v1`, `/v2`, `/responses`, gateway key). The library starts
no goroutine except in uploads and keeps nothing on disk; its hard part is several
callers sharing one session cache while the server expires sessions and the network
loses requests and answers.

| component | code | state | operations | made correct by |
|---|---|---|---|---|
| session cache | `auth.go` | mutex, cookie | `Cookie` (logs in when empty), `Invalidate` | one login at a time; only fresh sessions cached; nobody waits for ever |
| transport | `transport.go`, `retry.go` | per call: attempt, request, answer | `send`, `doOnce`, `newRequest`, `injectAuth`, `doRawAccept`, `DoStream` | writes at most once; bounded work; credentials on their plane; a 401 of an expired session does not surface |
| delays | `retry.go` | none | `normalized`, `backoff`, `parseRetryAfter`, `sleepCtx` | delays between 0 and `MaxDelay`; `Retry-After` honoured |
| uploads | `transport.go:284-389` | pipe, writer goroutine | `doMultipart` | writer ends on every path; body complete when the answer is good |
| event streams | `sse.go`, `transport.go:67-100`, `chat.go` | scanner buffer, event buffer | `streamSSE`, `parseSSEEvents` | every event once, in order; a payload does not change under the callback |
| client | `client.go`, `options.go`, `realm.go` | lazily built `http.Client`, default realm | `NewClient`, `httpClient`, `CloseIdleConnections`, `SetRealm` | one HTTP client; realm read and written atomically |
| errors | `errors.go` | none | `newAPIError`, `wrapStatus`, `truncate` | status and body survive; sentinel matches status |
| chat | `chat.go` | none | `MarshalJSON` (extra fields), `Chat`, `ChatStream` | the stream flag is the one of the method called |
| services | `admin_*.go`, `catalog.go`, `usage.go`, `playground.go`, `health.go`, `session.go`, `upstream.go` | none (thin calls of the transport) | about 120 calls, each a method and a path | which of them repeat; what a lost answer loses; whole-document updates |
| types | `types*.go` | data only | | |
| endpoint audit | `scripts/audit_endpoints.py` | none | matches called paths with server routes | every called endpoint is recognised |

The state that matters is small and shared: the session cache, the lazily built
`http.Client`, the default realm; all else belongs to one call. The plan, the keys and
the secrets the services speak of are the server's, and several callers change them.

Interactions: services call `doJSON`/`doRawAccept`/`DoStream`/`doMultipart`; these call
`send` (uploads do not), which calls `doOnce`, which calls `newRequest` →
`injectAuth` → `AdminAuth.Cookie`, then `http.Client.Do`, and after a 401
`AdminAuth.Invalidate` and the same again, once. `PasswordAuth` makes its own HTTP
request under its mutex. Callbacks: only that of a stream.

What is hard: interleavings of `Cookie`, `Invalidate` and logins of several callers;
a 401 that speaks of a session other than the cached one; retries and resends of one
call adding up; answers lost after the server acted, and requests that reach it after
their call gave up; documents that are read, changed and saved as a whole by several
callers; payloads that live in a buffer the parser goes on using, and streams that
break in the middle of a line or an event; waiting at a mutex held across a network
round trip; paths tested twice, in two spellings. `PROJECT.json` lists these hazards,
each at its line, with the properties that would notice.

## Modules

| module | models | EXTENDS / implements |
|---|---|---|
| `SessionCache` | what the interface `AdminAuth` promises: a cache of at most one session | - |
| `PasswordAuth` | `auth.go`: mutex, cookie, login, `Invalidate` | implements `SessionCache` |
| `Calls` | what one call promises whatever happens on its way: how often it is executed, what its answer means | - |
| `Transport` | a call from entry to return | EXTENDS `PasswordAuth`, implements it and `Calls` |
| `Backoff` | the delays between the attempts of `send`, on durations that overflow | - |
| `Upload` | `doMultipart`: caller, writer goroutine, pipe, HTTP transport | - |
| `Delivery` | what a streaming call promises its callback | - |
| `SSE` | the two readers of event streams, with their buffers | - |
| `Errors`, `ChatRequest` | pure functions: errors out of answers, bodies out of requests | - |
| `Chat` | the conversation calls: body, answer, stream, result, error | EXTENDS `SSE`, `ChatRequest`, `Errors`; implements `Delivery` |
| `Endpoints` | method and path of every call of every service | - |
| `LazyClient` | `hcOnce`, `httpClient`, `CloseIdleConnections` | - |
| `Management` | the services' calls that depend on one another, between several callers | EXTENDS `Calls`, `Endpoints`; INSTANCE `LazyClient` |
| `Audit` | the endpoint audit, over the calls of `Endpoints` | EXTENDS `Endpoints` |
| `MC...` | the values TLC needs | one each |
| `DataInduction` | lemmas: induction and recursion over the data of the models | - |
| `..._proofs` | theorems | `PasswordAuth`, `Transport`, `Backoff`, `Upload`, `Chat`, `Management`, `Audit` |

Layers: `Transport` shows, over all of `doOnce` and `send`, that a call is no more than
`Calls` says; `Management` then builds on `Calls` and needs no retries, logins and 401s
of its own. `Chat` is about the ends of a call that `Transport` leaves open: the body
that goes in, and what becomes of the answer.

### PasswordAuth

`at[c]` is the place of goroutine `c` inside `Cookie` or `Invalidate`. Lock, test of
`a.cookie`, and either the cached answer (`CookieCached`) or the start of a login
(`LoginStart`) are one step, because everything up to the HTTP request happens under
`a.mu`. The login is then two more steps: the server decides (`LoginServed`,
`LoginRefused`), and the caller learns of it (`LoginAccepted`) or gets an error
(`LoginFailed`) - also after the server issued a session, when the answer is lost or
carries no cookie. `issued` numbers the sessions of the server. `LoginFailed` covers
every error return of `loginLocked`.

### Transport

`pc[c]` is the place of call `c`: `build` (newRequest, injectAuth), `cookie` (inside
`Cookie`), `send`, `wire`, `served` (inside `http.Client.Do`), `invalidate`, `outcome`
(doOnce has returned to send), `sleep` (between attempts), `body`. `resend[c]` says that
doOnce is at its second request. A request is a method, a path (segments, and whether
it is written with its leading slash) and whether it is an upload; the answer is one
of four classes of status the code distinguishes. `Retries = 0` stands for a client
without `WithRetry`. `config` is how the client was built (`AdminAuth`, token, key):
chosen at the start, never changed. A blank cookie or key is a configuration of its own,
for `injectAuth` then sets no header and the request goes out bare. The history variables (`sends`, `executed`, `failed`,
`rejection`, `tally`) are read by no guard.

Abstractions, beyond data: a request reaches the server before the client gives up on
it or never does; the server answers 401 before it executes anything; a static cookie
is session 0; the body phase ends with success or an error, whatever reads it;
`AdminAuth` is nil, `StaticSessionAuth` or `PasswordAuth`, not a third implementation;
`NewRequest` and `Bearer` do not fail by themselves.
The planes are defined twice: by the prefix tests of the code (`isAdminPath` and its
like, which the actions use) and by the segments of a path (`OnManagement`,
`OnGateway`, which only the property uses); the requests of the run lie on both sides of
each border (`/api`, `/api/claim`, `/api/claims`, `/healthz/`, `/v1x`, ...). An upload passes through this
module without the retry loop and without the login after a 401, as the code has it;
the refused session then stays cached until another call drops it. The server and the
network are external: they refuse, revoke, answer late, or never.

### Calls

Three variables per caller: the kind of its call, how often the server executed it, the
answer. A read may be executed once per attempt, a write once; "ok" and "bad" come from
an execution; a write that got a 401 was not executed. `Transport!Promise` maps the
call of `Transport` to it: while `pc` is not `idle` the kind is that of the request's
method, `runs` is the history variable `executed`, `Attempts` is `Retries + 1`.

### Backoff

One call of `send` under a `RetryPolicy`: `pc` is `request` (an attempt has ended),
`doubling` (the loop of `backoff`, one `Double` per turn), `sleep` or `over`. A
`time.Duration` is a number in `-Half..Half-1` and arithmetic on it wraps around
(`Wrap`), so that both overflows of `retry.go` (lines 88 and 108) happen in the model
as in the code; `Half` is 2^63 in the code and 64 in the run. A header is what
`parseRetryAfter` makes of it: a number of seconds, a date (as the time left until
it), or neither. Which answers are retried is `Transport`'s matter: here every attempt
may be the last, or be followed by another with any header. The jitter is any draw.

### Upload

`Items` is the body in the order the writer goroutine works it off: fields, then per
part its header, the chunks of its source and the end of the source, last the closing
boundary. `writer` is `ready`, inside the caller's `Reader` (`source`), blocked in a
write to the pipe (`pipe`), or `ended`; `failure` is the error given to
`CloseWithError`; `closed` is the reading end. The caller is in `newRequest` (`build`),
in `Do` (`do`), in `ReadAll` (`body`) or has `returned`; each return closes the pipe
(`Return`), none waits for the writer. The steps of `net/http` (read the body, end it
at `io.EOF`, give up and close it), of the source and of the server are external and
unconstrained, but for two assumptions: the server says "ok" only to a body whose end
it has seen, and a source does not return without data, error or end. The nil `Reader`
of a careless caller (a panic in the goroutine) is not modelled.

### SSE, Delivery

A line is its kind (`data`, a bare `data`, a comment, another field, blank), its value
(tokens) and whether it is whole: when a connection fails, `bufio.Scanner` hands out
what has arrived of the last line before it reports the failure. A stream is its lines
and its ending: `eof`, an error, or a line above the limit, which the scanner keeps.
`memory` is the memory the payloads live in: cell 0 is the scanner's buffer, which
every line overwrites, the others are allocations of `parseSSEEvents` (`buf = nil`
after an event makes the next one start a new cell). `given` remembers where each
payload was and what it said, so "a kept payload is overwritten" is a state. Event mode
is `Gather`, `Blank`, `FlushLast`, line mode `DeliverLine`; the callback may refuse at
any payload. `Delivery` knows only the payloads a stream amounts to (`Promised`), those given, and
how the call ended. `Promised` follows the format's rules and not the parser's state: by
position in the stream, an event ends at a blank line, or at the end of a stream that
was not cut off, if there are data lines between it and the blank line before it; its
text is theirs, joined by `NewLine`. `Tokens` is what values are made of.

### Errors, ChatRequest

A body is what `newAPIError` tells apart (no bytes, blanks, text, a long text whose
first byte is no UTF-8, an object with the members of the two error shapes); a message is
the place it comes from. `wrapStatus` yields the type, `Is` is `errors.Is`. A request
is its stream flag, its optional fields and `Extra`; `MarshalJSON` yields a function
from keys to where their values come from, `ChatBody` is what `Chat` and `ChatStream`
send: a copy with the flag set and `stream` taken out of `Extra`.

### Chat

`phase` is the place of the one call a caller is in: `sent`, then `document` (read as a
whole) or `stream`. `Start` makes the body, `Fail` is every error before an answer,
`AnswerError`, `AnswerDocument` and `AnswerStream` are the server's; `ReturnRaw` is
`doRawAccept`, `ReturnError` is `Err` and the error path of `DoStream`, `ReturnDecoded`
is `Decode`, `ReturnStream` what `streamSSE` returned. A document is empty, whole, odd
(JSON of another shape), cut at 32 MiB, or lost on the way. The external server streams
exactly when the body of a conversation says so: a server that ignores the flag is
outside the model. One caller suffices: calls share no state but the `*ChatRequest`,
which they copy and never change.

### Endpoints, Audit

`Endpoints` is the table of the calls: operation, method, path by segments; a segment
with a colon is a parameter (escaped, so always one segment). Methods that differ in
the body alone are one row. `Audit` models `audit_endpoints.py` on it: `Spelled` is how
the Go source spells a path ("prefix/" + value + "/tail"), `collect_sdk_literals` what
the script collects, `scan` is the loop of `split_endpoint` segment by segment,
`missing_reasons` its three rules, `unexpected` its exit code 1. The routers of the
server are external: the run lets them declare every path of a small alphabet.
Left out: the scripts' regular expressions, the exit code 2 for an unreadable tree, and
the HTTP methods, which the script does not look at.

What the model shows of the script, and no property denies: a tail such as `test` or
`probe` that several calls share hides an uncalled endpoint that ends in it; an
endpoint counts as covered if the source spells it as the prefix of a parameter.

### LazyClient, Management

`building` is the goroutine inside `hcOnce.Do`, `passed` those that have come back, and
`hc` counts what was stored in `c.hc`. `CloseIdleConnections` reads `c.hc` without the
`Once`: a goroutine that has not been through it may see nil although it is set.

`Management` takes one resource per behaviour: `secret` (an object whose secret is in
the answer to its `POST` alone: keys, tokens, red packets), `scan` (`StartAuth`,
`PollAuth` and `SetRealm`), `plan` (a document read, changed and saved as a whole) and
`key` (`PATCH` with pointers and `omitempty`). A call is `Begin` (its JSON is made),
`FirstRequest` and `Send` (through `httpClient`), the server's `Serve`, and `Finish`,
which delivers any answer `Calls` allows. `ServeLate` is the request that reaches the
server after its call returned an error. The history variables `version`,
`changed`, `promised`, `known`, `acknowledged` are read by no guard; `promised` is what
callers were told: a field, the value its caller had put into the struct (`in`, not the
JSON made of it), and the version of the document in the answer. A request names a
realm or none; `ServerRealm` is how the server reads it, everything but `global` being
`cn` (`realm.go:30-37`), and the answer names the result, as `AuthStart.Realm` does.
`scan` keeps that answer. `Transport` knows no
late requests: there a request is executed during its call or never, which is all its
own properties need; what they add for the caller is here.
A retried read is several executions, as `Calls` allows; the last one's reply counts.

## Runs

| run | question | instance | states |
|---|---|---|---|
| `session_cache` | do `Cookie`, `Invalidate` and logins of several callers keep one login, a fresh cache, and let everybody go; is it a `SessionCache`? | 3 callers, 3 sessions | 10,017 |
| `relogin` | does the login after a 401 always get a newer session; when does a 401 surface; how many logins; does every call return; is every step on the cache one of PasswordAuth? | 2 callers, a write each, with or without the leading slash, 2 revocations, 3 sessions, fair | 126,161 |
| `planes` | which credential goes where, in every configuration and over every kind of path; is the work of a call bounded; is it a call of `Calls`: writes once, honest answers? | 24 configurations, 1 caller x 2 calls, 17 requests, 1 retry, lossy | 232,840 |
| `backoff` | do delays keep their limits and their form, overflow included; is the sum bounded; is the draw of the jitter legal? | 5 policies, 17 headers, durations of 7 bits | 358,962 |
| `upload` | is a body ended only if it is whole; does the call return, does the writer end; how often is the source read late? | a field, a file of two chunks, an empty file; fair | 825 |
| `chat` | what do the callback and the caller get, from every stream, document and error body; is it `Delivery`? | every stream of up to 4 lines, two values of data, both modes, 8 methods, requests whose `Extra` contradicts them | 661,132 |
| `services` | what do callers do to each other through the server, with lost answers and late requests; is what a caller was told still so; is there one `http.Client`? | 2 callers, 5 calls (3 for scans and keys), 2 fields | 1,268,390 |
| `audit` | what does the audit report and miss; do two calls ever share a path? | all calls of the SDK and releases that lack one, their paths and all paths of up to 4 segments over 5 words | 16,236 |
| `single_flight`, `login_retried`, `token_relogin`, `retry_after` | claims of the documentation the code does not keep | as small as shows it | - |

The bounds are enough for the cases that matter: two callers and two sessions are
needed for one caller's `Invalidate` to meet the session another one obtained, and a
third caller adds a waiter at the mutex (`session_cache`). Two revocations allow the
second request to be refused as well, which is what separates a 401 that may surface
from one that may not. One retry reaches the end of the loop; the theorems cover any
number. Two calls per caller (`planes`) let a call start from the cache the previous one left.
In `backoff` the smallest and largest durations, the values next to the overflow and
a limit too large to be doubled are among the inputs, and up to five retries let the
doubling wrap around. `upload` has a part that writes after a late read and one that
does not. Four lines hold two events of which one has two data lines, an empty event
between blank lines, or a comment inside an event, and the empty value tells a
separator from its absence; longer streams add repetitions. Five calls of two callers
hold two overlapping reads and saves of a plan and one call more that sees the result;
two fields are one that is edited and one that is not. Four segments hold a prefix, two
parameters and a run between or behind them.

`CHECK_DEADLOCK FALSE` where calls are bounded: the system rests when they are used up.
Symmetry is used in `services` only (callers, and fields; no liveness there).

Every property has a mutant: a plausible error put in one definition, defined beside
it as a "Variant", with which the run must fail. It is what ties a property to the
code: `UndoneByOverlapOnly`, for one, fails when a client reuses the plan it read first.

### Fairness

The client's own steps are weakly fair: goroutines run. The steps that take
`PasswordAuth.mu` are strongly fair, because a `sync.Mutex` hands the lock to a waiter
that has waited 1 ms (starvation mode). A login ends because its HTTP client has a
15 s timeout (`auth.go:84`; a `WithLoginClient` without one gives this up, and then the
context of the caller that logs in). Each call's context ends at some time, which
`options.go:53-55` leaves to the caller: the client has no timeout of its own by
default. Nothing is assumed of the server or the network.

In `Upload` the writer and the caller are weakly fair and the context ends at some
time (as for any call); the source, the HTTP transport and the server owe nothing, so
`UploadReturns` holds even if the source blocks, and `WriterEnds` says what happens to
the goroutine then: it stays in the source's `Read`. The caller's weak fairness stands
for `newRequest` ending, which is `CallsReturn` of `PasswordAuth`.

## Proofs

For any set of callers, requests, configuration, retry policy and bounds. Each module
states one inductive invariant as named parts and proves that `Init` implies it and
that every action keeps it, one step per action:

- `PasswordAuth_proofs`: `AuthInv` is inductive (mutex held exactly while logging in,
  cache empty meanwhile, an answer under way is to that login, carries the newest
  session and nobody has it yet). From it: `AtMostOneLogin`, `FreshnessOfCache`, and
  `AuthImplementsCache`, step by step to `SessionCache`.
- `Transport_proofs`: `TransportUsesPasswordAuth` makes each transport step a step of
  PasswordAuth, so `AuthInv` holds here too. `TypeInvariant` needs `ControlInv` (the
  call's place and its place in PasswordAuth agree; only idempotent requests go round
  the loop). `NoWriteTwice` and `WorkIsBounded` follow from `WorkInv`, which counts
  what the current attempt has already sent and knows that a 401 executed nothing.
  `ResendCarriesNewerSession` and `UnauthorizedMeansRevoked` follow from `FreshInv`:
  after a caller's `Invalidate`, whatever is cached, or on its way to the cache, or
  put on the second request, was issued after the refused session, because
  `Invalidate` waits for a login under way. `LoginsAreAccounted` adds one login, the
  one under way or cached, to what Invalidates and failures account for.
  `CredentialPlanes` needs `PlaneInv`, which ties the credential on the wire to the
  code's prefix tests, and `PathsAreClassified`: for every path of any length these
  tests agree with the planes as the property defines them, by segments.
  `UnauthorizedMeansRevoked` is about calls whose path has its slash, with any others
  beside them; why is said below.
  `TransportImplementsCalls` maps every step of the transport to a step of `Calls` or
  to a stutter. It needs `RunsInv` beside the invariants above: an attempt executes the
  call at most once, because a 401 before the resend executed nothing; an answer of the
  handler comes from an execution, a write's 401 from none.
- `Backoff_proofs`: for any width, policy and headers, `DelayInv` is inductive: no delay
  exceeds `MaxDelay` (`DelaysBounded`), the sum stays below the attempts made times
  `MaxDelay` (`TotalSleepBounded`). `DrawNeverPanics` needs only that the limit is
  positive, which `normalized` guarantees: whatever the doubling wrapped to, the test
  `d <= 0` replaces. `OnlyOverflowIsNegative` is the exact other side of the finding.
  `DelayIsExponential`, for every `MaxDelay` that can be doubled without overflow (up to
  146 years): the delay lies between half of and all of the base times a power of two,
  or the limit. `DoublesBase` follows the loop, `d` is the base doubled once per round,
  and `LimitedIsFull` its end: a round that is left out is one whose power exceeds
  `MaxDelay` too, which needs that powers grow (`PowersGrow`).
- `Upload_proofs`: `UploadInv` is inductive for any list of items: the transport holds
  exactly the items the writer has passed, the pipe ends without an error only after
  the last item, and after a late read there is something to write before the next
  one, which finds the pipe closed. `NoTruncatedUpload` and `SourceReadOnceLate`
  follow.
- `Chat_proofs`, for streams of any length, any values and requests: `StreamInv` counts
  payloads against lines (an event at hand has a line that no payload has), says that
  the allocation in use was given to nobody and that a part of a line can only be the
  last line of a stream that broke; `BodyFits` says what the body in flight asks for,
  `Blames` where the error comes from. `KeptPayloadsSurvive`, `PartsComeBeforeErrors`,
  `AnswersFitCalls` (from the lemma `ChatBodySays`, about any request and `Extra`),
  `SentinelsMeanStatuses` and `ChatTypes` follow.
  `ParserDeliversWhatStreamSays` is the refinement of `Delivery`, for streams of any
  length: `Faithful` says that after n lines the texts given are those of the first
  events (or data lines) that end within n lines, and that the lines gathered are the
  own lines of the event that is open, joined. The lemmas about one more line
  (`EventSteps`, `PiecesSteps`, `TextsAppend`, `OneMoreTold`) carry it from step to step,
  and `AllTold` closes it at the end. `NilMeansThereIsNoMore` adds `Fulfilled`: a call
  that is about to return nil has read its stream to an end of its own.
- `Management_proofs`, for any callers, fields and numbers of calls: `DocInv` holds every
  view of the document (copies, replies, bodies on their way, requests that come late)
  against the document itself: a view of an age differs from it only in the fields that
  changed since. It is what makes `ChangesAreUndoneByOverlapOnly` true of late requests
  too. `AcknowledgedChangesAreKept` adds `KeptInv`: what a caller was told, or
  will be told by the answer on its way, is in the document or has changed since. `LazyInv` (one goroutine builds, and only while
  there is no client) gives `OneClientIsBuilt`, `RealmInv`
  (a scan begins in a realm the request names, a poll names what its caller gave, an
  answer names what the server made of it) `ScansArePolledInTheirRealm`. `NoSecretIsLostInSilence` needs `CountInv` and
  `SecretInv`: calls are numbered, no number makes two objects, a call under way has
  made one exactly if it was executed, and a late request is that of a call which was
  neither executed nor acknowledged. `ManagementTypes` sums up.
- `Audit_proofs`, for any endpoints of the server, paths of any length and any calls a
  release may lack. `EveryPathSplit`: after n segments the loop of `split_endpoint` holds
  the prefix, the closed stretches of fixed segments in order and the one that is open
  (`ScanInv`), by induction over n; hence `PathsSplitByParameters`.
  `EveryCallSpellable`: `PathsRead` says which segments each way of writing a path has,
  so every path of `Endpoints` is `Regular` (up to four segments, words first, a word
  that is no noise behind a parameter), and `RegularSpellable` says that the source
  spells all that the audit will look for in such a path. With
  `AuditInv` (the literals are those of the calls at hand, and what is lacking was
  computed from them) follow `CoveredPathsPass` and `NestedGapsReported`. A row that
  broke the rule, say a second parameter or a tail `/v1`, would break that lemma.
  `CallsKeepApart` compares every two rows: in each of five groups no two clash, and
  the groups have no word in common in the second segment (`DistinctTogether`). With
  `LocalKeyCallsById` in place of `LocalKeyCalls` (the key to export named in the
  path) this fails.
- `DataInduction`: a set of naturals that has 0 and with n also n + 1 has all of them
  (from the well-foundedness of <), and a recursion whose step is a function has a
  solution. Powers, joined lines and split paths are recursive functions or sequences
  in the models; what they compute is proved for every input by these two facts, a
  predicate being the set of the numbers that satisfy it.

The assumptions are those of the modules: `Nobody` is no caller, bounds are naturals,
requests have a known method and path, uploads are POSTs, `MaxCalls` is given for each
resource.

Only model-checked: liveness (`CallsReturn`, `EveryCallReturns`, `UploadReturns`,
`WriterEnds`), because fairness is out of the prover's reach. Every safety property of
the passing runs is a theorem, for any constants. `PathsSplitByParameters`,
`CoveredPathsPass` and `NestedGapsReported` say of every path what the run `audit` says
of those of up to four segments.

## Where code and documentation part

- `single_flight`: concurrent 401s do not cost one login. `Invalidate` clears whatever is
  cached, also the session another caller has just obtained after the same 401.
- `login_retried`: with `WithRetry`, a failed login under a GET is tried again.
- `token_relogin`: a token next to a login does cause `Invalidate` and a second request.
- `retry_after`: a `Retry-After` above 9223372036 seconds wraps around; the delay is
  negative (an immediate retry) or too short instead of `MaxDelay`.

Three more, without a run. `newRequest` normalises the path before `injectAuth` looks at
it, while `doOnce` asks `isAdminPath` about the path as it was written
(`transport.go:250`): `Do(ctx, "GET", "api/x", nil)` gets a cookie but no login after
its 401, which `README.md:88-89` promises without a condition; it is why
`UnauthorizedOnlyIfRevoked` speaks of rooted paths. And in line mode a callback may be
given the first part of a data line that a failing connection cut off, before the call
returns the error: `PartOnlyBeforeError` says exactly when. And the empty realm means
two things: `StartAuth` begins the scan in the client's default, `PollAuth` sends no
realm, which the server takes for `cn`. With the default `global`, giving neither call a
realm polls a `global` scan as `cn` (`realm_mismatch`, `types.go:88`). The documentation
promises nothing here; `PollFitsScan` names this as the one exception, and a program
avoids it by polling with `AuthStart.Realm`.

## Not modelled

- Query strings, most bodies, and the checks of arguments before a request is made:
  data without state. The wire types, but for what pointers and `omitempty` decide in
  a plan and a patch.
- The smoke test and the examples: straight sequences of calls modelled elsewhere.
- The server, `net/http`, `bufio.Scanner` and `encoding/json` are external, described by
  what the code relies on. A server that ignores the stream flag, a `Reader` that is
  nil, and a third implementation of `AdminAuth` are left out.
- The wording of errors and the logs.

What could come next: a larger `Audit` (HTTP methods, were the script to compare them),
and the body phase of `Transport` joined with `Chat`, so that a stream can end because
the context of its call ends.
