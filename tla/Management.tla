----------------------------- MODULE Management -----------------------------
(***************************************************************************)
(* What the callers of the management services get from the calls they     *)
(* make (src/admin_*.go), when each call is one that Calls describes: the  *)
(* server executes it once, several times, late or never, and its answer   *)
(* comes back or not.  A request on which a call gave up may reach the     *)
(* server afterwards.  Every service method is a call of Endpoints with a  *)
(* body; four resources stand for the kinds of calls that depend on one    *)
(* another:                                                                *)
(*                                                                         *)
(*   "secret"  Keys.Create, and with it Tokens.Create and                  *)
(*             RedPackets.Create: the answer alone holds the secret;       *)
(*   "scan"    Accounts.StartAuth and Accounts.PollAuth, and the realm of  *)
(*             the client, which SetRealm changes meanwhile;               *)
(*   "plan"    Accounts.RefreshPlan and SaveRefreshPlan, and with them the *)
(*             daily plan: a document read, changed and saved as a whole;  *)
(*   "key"     Keys.Update, and with it every PATCH: some of the fields.   *)
(*                                                                         *)
(* A behaviour is about one of them.  The server is external: it keeps     *)
(* what it is sent, refuses a plan in which a field is missing, and takes  *)
(* every realm but "global" for "cn", the omitted one too.                 *)
(***************************************************************************)
EXTENDS Calls, Endpoints, FiniteSets

CONSTANTS Fields,           \* of a plan, or of a key
          Resources,        \* those that behaviours are about
          MaxCalls          \* bound: calls that all callers make, by resource

ASSUME ManagementAssumption ==
    /\ Resources \subseteq {"secret", "scan", "plan", "key"}
    /\ MaxCalls \in [Resources -> Nat]

VARIABLES hc, building, passed, found
httpVars == <<hc, building, passed, found>>
INSTANCE LazyClient

(* Values of a field; 0 is Go's zero value.  A field of a patch is nil     *)
(* when the caller leaves it alone.                                        *)
Values == {0, 1}
Nil == 2
Patches == [Fields -> Values \cup {Nil}]

Realms == {"cn", "global", "any"}

-----------------------------------------------------------------------------
VARIABLES resource,     \* what this behaviour is about
          calls,        \* calls made so far
          at,           \* "idle", "client" (before the request), "sent"
          body,         \* the request of each caller's call
          reply,        \* what the server said to it last
          late          \* writes whose calls gave up on them
callVars == <<resource, calls, at, body, reply, late>>

VARIABLES realm,        \* the client's default realm, an atomic value
          scan,         \* the scan each caller has begun
          copy          \* the plan each caller has read, and when
clientVars == <<realm, scan, copy>>

VARIABLES document,     \* the server's plan, or key
          created       \* objects with a secret
serverVars == <<document, created>>

(* History, read by no guard: how often the document was written, and when *)
(* each field last changed; the changes to a field that callers were told  *)
(* are made, and when they were; the secrets that callers have; the calls  *)
(* that returned without an error.                                         *)
VARIABLES version, changed, promised, known, acknowledged
historyVars == <<version, changed, promised, known, acknowledged>>

vars == <<callsVars, httpVars, callVars, clientVars, serverVars, historyVars>>

(* A request: its method of a service, the number of its call, the realm   *)
(* it names and the one its caller gave, the fields in its JSON, the       *)
(* struct its caller filled in and the fields it is to change, and the     *)
(* version of the document that it rests on.                               *)
NoBody == [op |-> "none", call |-> 0, realm |-> "any", arg |-> "any",
           fields |-> <<>>, in |-> <<>>, edits |-> {}, base |-> 0]

(* An answer: the realm the server took the request to be about, the       *)
(* document and its version, and the secret of a new object.               *)
NoReply == [said |-> "none", realm |-> "none", document |-> <<>>, version |-> 0,
            secret |-> 0]

(* What a caller has of a scan: the realm it gave, and the one that the    *)
(* answer names (AuthStart.Realm).                                         *)
NoScan == [arg |-> "none", realm |-> "none"]

Init ==
    /\ CallsInit
    /\ LazyInit
    /\ resource \in Resources
    /\ calls = 0
    /\ at = [c \in Callers |-> "idle"]
    /\ body = [c \in Callers |-> NoBody]
    /\ reply = [c \in Callers |-> NoReply]
    /\ late = {}
    /\ realm \in (IF resource = "scan" THEN Realms ELSE {"cn"})
    /\ scan = [c \in Callers |-> NoScan]
    /\ copy = [c \in Callers |-> [document |-> <<>>, base |-> 0]]
    /\ document = [f \in Fields |-> 0]
    /\ created = {}
    /\ version = 0
    /\ changed = [f \in Fields |-> 0]
    /\ promised = {}
    /\ known = {}
    /\ acknowledged = {}

-----------------------------------------------------------------------------
(* The calls, up to the request                                            *)

Begin(c, b) ==
    /\ calls < MaxCalls[resource]
    /\ Ask(c)
    /\ kind'[c] = IF CallNamed(b.op).method = "GET" THEN "read" ELSE "write"
    /\ calls' = calls + 1
    /\ at' = [at EXCEPT ![c] = "client"]
    /\ body' = [body EXCEPT ![c] = [b EXCEPT !.call = calls']]
    /\ UNCHANGED <<httpVars, resource, reply, late, clientVars, serverVars, historyVars>>

Create(c) ==
    /\ resource = "secret"
    /\ Begin(c, [NoBody EXCEPT !.op = "Keys.Create"])

effectiveRealm(r) ==
    CASE r # "any" -> r
      [] r = "any" /\ realm # "any" -> realm
      [] OTHER -> "cn"

StartAuth(c, r) ==
    /\ resource = "scan"
    /\ Begin(c, [NoBody EXCEPT !.op = "Accounts.StartAuth",
                               !.realm = effectiveRealm(r), !.arg = r])

(* Variant: the default fills in here too.                                 *)
PollAuthDefault(c, r) ==
    /\ resource = "scan"
    /\ scan[c] # NoScan
    /\ Begin(c, [NoBody EXCEPT !.op = "Accounts.PollAuth",
                               !.realm = effectiveRealm(r), !.arg = r])

(* An empty realm is left out of the query.                                *)
PollAuth(c, r) ==
    /\ resource = "scan"
    /\ scan[c] # NoScan
    /\ Begin(c, [NoBody EXCEPT !.op = "Accounts.PollAuth",
                               !.realm = r, !.arg = r])

SetRealm(r) ==
    /\ resource = "scan"
    /\ realm' = r
    /\ UNCHANGED <<callsVars, httpVars, callVars, scan, copy, serverVars, historyVars>>

RefreshPlan(c) ==
    /\ resource = "plan"
    /\ Begin(c, [NoBody EXCEPT !.op = "Accounts.RefreshPlan", !.base = version])

(* RefreshPlanIn: every field is in the JSON, zero or not.                 *)
PlanJSON(in) == in

(* A caller changes one field of the plan it has read, and saves it.       *)
SaveRefreshPlan(c, f, v) ==
    /\ resource = "plan"
    /\ copy[c].document # <<>>
    /\ LET in == [copy[c].document EXCEPT ![f] = v]
       IN Begin(c, [NoBody EXCEPT !.op = "Accounts.SaveRefreshPlan",
                                  !.fields = PlanJSON(in), !.in = in,
                                  !.edits = {f}, !.base = copy[c].base])

(* Variant: pointers without omitempty.                                    *)
PatchJSONNull(p) == p

(* Variant: fields that are no pointers, left out when they are zero.      *)
PatchJSONZero(p) == [f \in {g \in DOMAIN p : p[g] \notin {0, Nil}} |-> p[f]]

(* Pointers with omitempty: nil is left out, a pointer to zero is not.     *)
PatchJSON(p) == [f \in {g \in DOMAIN p : p[g] # Nil} |-> p[f]]

Given(p) == {f \in Fields : p[f] # Nil}

Update(c, p) ==
    /\ resource = "key"
    /\ Begin(c, [NoBody EXCEPT !.op = "Keys.Update", !.fields = PatchJSON(p),
                               !.in = p, !.edits = Given(p)])

-----------------------------------------------------------------------------
(* The way through the client                                              *)

FirstRequest(c) ==
    /\ at[c] = "client"
    /\ Enter(c)
    /\ UNCHANGED <<callsVars, callVars, clientVars, serverVars, historyVars>>

Send(c) ==
    /\ at[c] = "client"
    /\ httpClient(c)
    /\ at' = [at EXCEPT ![c] = "sent"]
    /\ UNCHANGED <<callsVars, resource, calls, body, reply, late,
                   clientVars, serverVars, historyVars>>

Close(c) ==
    /\ at[c] = "idle"
    /\ CloseIdleConnections(c)
    /\ UNCHANGED <<callsVars, callVars, clientVars, serverVars, historyVars>>

-----------------------------------------------------------------------------
(* External: the server handles a request.                                 *)

Incomplete(b) == b.op = "Accounts.SaveRefreshPlan" /\ DOMAIN b.fields # Fields

Writes(b) == b.op \in {"Accounts.SaveRefreshPlan", "Keys.Update"}

(* The fields that the JSON has take the place of the document's.          *)
Overlay(json, doc) ==
    [f \in DOMAIN json \cup DOMAIN doc |->
        IF f \in DOMAIN json THEN json[f] ELSE doc[f]]

Handle(b) ==
    /\ document' = IF Writes(b) /\ ~Incomplete(b) THEN Overlay(b.fields, document)
                                                 ELSE document
    /\ version' = IF Writes(b) THEN version + 1 ELSE version
    /\ changed' = [f \in Fields |->
         IF document'[f] # document[f] THEN version' ELSE changed[f]]
    /\ created' = IF b.op # "Keys.Create" THEN created
                  ELSE created \cup {[call |-> b.call, secret |-> Cardinality(created) + 1]}
    /\ UNCHANGED <<httpVars, resource, calls, at, body, clientVars,
                   promised, known, acknowledged>>

(* The realm of a request, given or not.                                   *)
ServerRealm(r) == IF r = "global" THEN "global" ELSE "cn"

Serve(c) ==
    /\ at[c] = "sent"
    /\ Execute(c)
    /\ Handle(body[c])
    /\ reply' = [reply EXCEPT ![c] =
         [said |-> IF Incomplete(body[c]) THEN "bad" ELSE "ok",
          realm |-> ServerRealm(body[c].realm),
          document |-> document', version |-> version',
          secret |-> Cardinality(created')]]
    /\ UNCHANGED late

(* The call that made the request has returned.                            *)
ServeLate(b) ==
    /\ Handle(b)
    /\ late' = late \ {b}
    /\ UNCHANGED <<callsVars, reply>>

-----------------------------------------------------------------------------
(* The call returns.                                                       *)

Succeeds(c) == answer'[c] = "ok"

(* Variant: the plan that was read first is used again.                    *)
CopyCached(c) ==
    IF copy[c].document # <<>> THEN copy[c].document ELSE reply[c].document

(* Every read decodes into a struct of its own.                            *)
Copy(c) == reply[c].document

(* A write on the wire, or lost.                                           *)
Underway(c) == at[c] = "sent" /\ kind[c] = "write" /\ runs[c] = 0

Finish(c) ==
    /\ at[c] # "idle"
    /\ c \notin building
    /\ Return(c)
    /\ at[c] = "client" => answer'[c] = "error"
    /\ answer'[c] \in {"ok", "bad"} => answer'[c] = reply[c].said
    /\ at' = [at EXCEPT ![c] = "idle"]
    /\ scan' = IF Succeeds(c) /\ body[c].op = "Accounts.StartAuth"
               THEN [scan EXCEPT ![c] = [arg |-> body[c].arg, realm |-> reply[c].realm]]
               ELSE scan
    /\ copy' = IF Succeeds(c) /\ body[c].op = "Accounts.RefreshPlan"
               THEN [copy EXCEPT ![c] = [document |-> Copy(c), base |-> body[c].base]]
               ELSE copy
    /\ known' = IF Succeeds(c) /\ body[c].op = "Keys.Create"
                THEN known \cup {reply[c].secret} ELSE known
    /\ promised' = IF Succeeds(c) /\ Writes(body[c])
         THEN promised \cup {[field |-> f, value |-> body[c].in[f], since |-> reply[c].version] :
                                f \in body[c].edits}
         ELSE promised
    /\ acknowledged' = IF Succeeds(c) THEN acknowledged \cup {body[c].call}
                                      ELSE acknowledged
    /\ late' \in IF answer'[c] # "error" \/ ~Underway(c) THEN {late} ELSE {late, late \cup {body[c]}}
    /\ body' = [body EXCEPT ![c] = NoBody]
    /\ reply' = [reply EXCEPT ![c] = NoReply]
    /\ UNCHANGED <<httpVars, resource, calls, realm, serverVars, version, changed>>

Next ==
    \/ \E c \in Callers :
          \/ Create(c) \/ RefreshPlan(c)
          \/ \E r \in Realms : StartAuth(c, r) \/ PollAuth(c, r)
          \/ \E f \in Fields, v \in Values : SaveRefreshPlan(c, f, v)
          \/ \E p \in Patches : Update(c, p)
          \/ FirstRequest(c) \/ Send(c) \/ Serve(c) \/ Finish(c) \/ Close(c)
    \/ \E r \in Realms : SetRealm(r)
    \/ \E b \in late : ServeLate(b)

Spec == Init /\ [][Next]_vars
-----------------------------------------------------------------------------
(* Properties                                                              *)

TypeOK ==
    /\ LazyTypeOK
    /\ resource \in Resources
    /\ calls \in 0..MaxCalls[resource]
    /\ at \in [Callers -> {"idle", "client", "sent"}]
    /\ \A c \in Callers : at[c] = "idle" <=> kind[c] = "none"
    /\ \A c \in building : at[c] = "client"
    /\ realm \in Realms
    /\ document \in [Fields -> Values]
    /\ version \in Nat
    /\ promised \subseteq [field : Fields, value : Values, since : Nat]
    /\ IsFiniteSet(created)
    /\ known \subseteq Nat
    /\ acknowledged \subseteq 1..calls

(* A secret that the server shows once is not lost in silence: an object   *)
(* whose secret no caller has belongs to a call that is still under way or *)
(* that returned an error, and a call that returned its secret has made    *)
(* one object, not two, though answers are lost and requests come late     *)
(* (src/admin_keys.go:28, src/admin_tokens.go:66-69,                       *)
(* src/admin_redpackets.go:26).                                            *)
NoSilentOrphan ==
    \A n \in acknowledged :
        LET Made == {o \in created : o.call = n}
        IN resource = "secret" =>
             Cardinality(Made) = 1 /\ \A o \in Made : o.secret \in known

(* A caller that gives the same realm to StartAuth and to PollAuth, the    *)
(* empty one included, polls the scan in the realm it was begun in, as the *)
(* server reads both requests, though the client's default changes in      *)
(* between.  It fails in one case only: the empty realm, when the default  *)
(* was "global" as the scan began, for PollAuth sends no realm then and    *)
(* the server takes none for "cn" (src/admin_accounts.go:20-28, 40-64,     *)
(* src/realm.go:30-37).                                                    *)
PollFitsScan ==
    \A c \in Callers :
        /\ body[c].op = "Accounts.PollAuth" /\ reply[c].said = "ok"
        /\ body[c].arg = scan[c].arg
        /\ reply[c].realm # scan[c].realm
        => body[c].arg = "any" /\ scan[c].realm = "global"

(* A change that its caller was told is made was made, a field set to      *)
(* false or 0 included, and the document keeps it until a later request    *)
(* changes that field.  What it holds against: a JSON that leaves out what *)
(* the caller gave, a plan that is refused for a missing field and         *)
(* reported as saved, and an answer of a request that was never executed   *)
(* (src/types.go:295-306, src/types_admin_bulk.go:165-174,                 *)
(* src/transport.go:284-306).                                              *)
AcknowledgedIsKept ==
    \A p \in promised : document[p.field] = p.value \/ changed[p.field] > p.since

(* The requests that a step executes.                                      *)
Executed ==
    {body[c] : c \in {c \in Callers : runs'[c] = runs[c] + 1}} \cup (late \ late')

(* A change to a field is undone only by a request that is about the same  *)
(* field, or by one that saves a whole plan whose reading had begun before *)
(* the change: an editor that reads, changes and saves as the              *)
(* documentation asks loses nobody's work that was done before it came,    *)
(* and a patch never does (src/admin_accounts_bulk.go:128-139).            *)
UndoneByOverlapOnly ==
    [][\A f \in Fields : document'[f] # document[f] =>
          \E b \in Executed :
             \/ f \in b.edits
             \/ b.op = "Accounts.SaveRefreshPlan" /\ b.base < changed[f]]_vars
=============================================================================
