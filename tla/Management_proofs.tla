------------------------- MODULE Management_proofs -------------------------
(***************************************************************************)
(* Proofs about Management, for any callers, fields, numbers of calls and  *)
(* of attempts.                                                            *)
(***************************************************************************)
EXTENDS TLAPS, Management, FiniteSetTheorems

-----------------------------------------------------------------------------
(* The http.Client                                                         *)

(* One goroutine at a time builds, and only while there is no client; who  *)
(* has come back from hcOnce has seen one.                                 *)
LazyInv ==
    /\ LazyTypeOK
    /\ building # {} => hc = 0
    /\ \A c, d \in building : c = d
    /\ passed # {} => hc > 0
    /\ OneHTTPClient

(* A fresh client has no http.Client.                                      *)
LEMMA LazyInvInit == LazyInit => LazyInv
  BY DEF LazyInit, LazyInv, LazyTypeOK, OneHTTPClient

(* Whoever enters, builds, uses or closes keeps it so.                     *)
LEMMA LazyInvStep ==
  ASSUME LazyInv,
         \/ \E c \in Callers : Enter(c) \/ httpClient(c) \/ CloseIdleConnections(c)
         \/ UNCHANGED httpVars
  PROVE  LazyInv'
<1> USE DEF LazyInv, LazyTypeOK, OneHTTPClient
<1>1. ASSUME NEW c \in Callers, Enter(c) PROVE LazyInv'
  BY <1>1 DEF Enter
<1>2. ASSUME NEW c \in Callers, httpClient(c) PROVE LazyInv'
  <2>1. CASE Build(c)
    BY <1>2, <2>1 DEF httpClient, Build
  <2>2. CASE Reuse(c)
    BY <1>2, <2>2 DEF httpClient, Reuse
  <2> QED
    BY <1>2, <2>1, <2>2 DEF httpClient
<1>3. ASSUME NEW c \in Callers, CloseIdleConnections(c) PROVE LazyInv'
  <2>1. UNCHANGED <<hc, building, passed>>
    BY <1>3 DEF CloseIdleConnections
  <2>2. c \in passed => found' = [found EXCEPT ![c] = TRUE]
    BY <1>3 DEF CloseIdleConnections
  <2>3. found' \in [Callers -> BOOLEAN] /\ \A d \in Callers \ {c} : found'[d] = found[d]
    BY <1>3 DEF CloseIdleConnections
  <2>4. \A d \in passed : found'[d]
    BY <2>2, <2>3
  <2> QED
    BY <2>1, <2>3, <2>4
<1>4. CASE UNCHANGED httpVars
  BY <1>4 DEF httpVars
<1> QED
  BY <1>1, <1>2, <1>3, <1>4

(* Every step of the services takes such a step, or none.                  *)
LEMMA StepUsesLazyClient ==
  [Next]_vars => \/ \E c \in Callers : Enter(c) \/ httpClient(c) \/ CloseIdleConnections(c)
                 \/ UNCHANGED httpVars
<1> SUFFICES ASSUME [Next]_vars
             PROVE  \/ \E c \in Callers : Enter(c) \/ httpClient(c) \/ CloseIdleConnections(c)
                    \/ UNCHANGED httpVars
  OBVIOUS
<1>1. ASSUME NEW c, NEW b, Begin(c, b) PROVE UNCHANGED httpVars
  BY <1>1 DEF Begin
<1>2. ASSUME NEW b, Handle(b) PROVE UNCHANGED httpVars
  BY <1>2 DEF Handle
<1> QED
  BY <1>1, <1>2 DEF Next, vars, Create, StartAuth, PollAuth, SetRealm, RefreshPlan, SaveRefreshPlan,
     Update, FirstRequest, Send, Close, Serve, ServeLate, Finish

(* However many goroutines make their first request at the same time, one  *)
(* http.Client is built, and those that made a request find it.            *)
THEOREM OneClientIsBuilt == Spec => []OneHTTPClient
<1>1. Init => LazyInv
  BY LazyInvInit DEF Init
<1>2. LazyInv /\ [Next]_vars => LazyInv'
  BY LazyInvStep, StepUsesLazyClient
<1>3. LazyInv => OneHTTPClient
  BY DEF LazyInv
<1> QED
  BY <1>1, <1>2, <1>3, PTL DEF Spec

(* Keys.Create, Tokens.Create and RedPackets.Create are writes.            *)
LEMMA CreateIsPost == CallNamed("Keys.Create").method = "POST"
<1>1. \A op, path :
        /\ Get(op, path).op = op /\ Post(op, path).op = op
        /\ Put(op, path).op = op /\ Patch(op, path).op = op
        /\ Delete(op, path).op = op /\ Post(op, path).method = "POST"
  BY DEF Get, Post, Put, Patch, Delete, Row
<1>2. \A row \in AccountService : row.op # "Keys.Create"
  BY <1>1 DEF AccountService, AccountCalls, AccountLogCalls, AccountPoolCalls,
              BulkCalls, PlanCalls
<1>3. \A row \in GatewayService : row.op # "Keys.Create"
  BY <1>1 DEF GatewayService, HealthCalls, GatewayCalls, UsageCalls
<1>4. \A row \in AdminService : row.op = "Keys.Create" => row.method = "POST"
  <2>1. \A row \in ProxyCalls \cup SystemCalls \cup StatsCalls \cup SettingsCalls
                     \cup TokenCalls : row.op # "Keys.Create"
    BY <1>1 DEF ProxyCalls, SystemCalls, StatsCalls, SettingsCalls, TokenCalls
  <2>2. \A row \in LocalKeyCalls \cup RedPacketCalls \cup PGSyncCalls
                     \cup SecurityCalls : row.op # "Keys.Create"
    BY <1>1 DEF LocalKeyCalls, LocalKeyCallsById, RedPacketCalls, PGSyncCalls,
                SecurityCalls
  <2>3. \A row \in ManagedUpstreamCalls \cup TaskCalls \cup LogCalls \cup UserCalls
                     : row.op # "Keys.Create"
    BY <1>1 DEF ManagedUpstreamCalls, TaskCalls, LogCalls, UserCalls
  <2>4. \A row \in SessionCalls \cup UpstreamCalls \cup CatalogCalls
                     \cup PlaygroundCalls : row.op # "Keys.Create"
    BY <1>1 DEF SessionCalls, UpstreamCalls, CatalogCalls, PlaygroundCalls
  <2>5. \A row \in KeyCalls : row.op = "Keys.Create" => row.method = "POST"
    BY <1>1 DEF KeyCalls
  <2> QED
    BY <2>1, <2>2, <2>3, <2>4, <2>5 DEF AdminService
<1>5. \E row \in KeyCalls : row.op = "Keys.Create"
  BY <1>1 DEF KeyCalls
<1> QED
  BY <1>2, <1>3, <1>4, <1>5 DEF CallNamed, API, AdminService

-----------------------------------------------------------------------------
(* The document                                                            *)

(* d is the document as it was when its version was base, as far as it has *)
(* not changed since: doc is what it is now, chg when each field changed.  *)
Views(d, base, doc, chg, ver) ==
    /\ d \in [Fields -> Values]
    /\ base \in 0..ver
    /\ \A f \in Fields : chg[f] <= base => d[f] = doc[f]

(* What b is to change has the value its caller gave.  A patch has only    *)
(* the fields it is about; a plan has them all, the others as they were.   *)
Fits(b, doc, chg, ver) ==
    /\ b.base \in 0..ver
    /\ b.op = "Keys.Update" =>
          /\ b.edits \subseteq Fields /\ b.fields \in [b.edits -> Values]
          /\ \A f \in b.edits : b.in[f] = b.fields[f]
    /\ b.op = "Accounts.SaveRefreshPlan" =>
          /\ b.edits \subseteq Fields /\ b.fields \in [Fields -> Values]
          /\ \A f \in b.edits : b.in[f] = b.fields[f]
          /\ \A f \in Fields \ b.edits : chg[f] <= b.base => b.fields[f] = doc[f]

(* The document, and all that callers and requests have taken from it.     *)
DocType ==
    /\ document \in [Fields -> Values]
    /\ version \in Nat
    /\ changed \in [Fields -> 0..version]

CallType ==
    /\ kind \in [Callers -> {"none", "read", "write"}]
    /\ runs \in [Callers -> Nat]
    /\ at \in [Callers -> {"idle", "client", "sent"}]
    /\ DOMAIN body = Callers /\ DOMAIN reply = Callers
    /\ DOMAIN copy = Callers /\ DOMAIN scan = Callers
    /\ \A c \in Callers : /\ at[c] = "idle" <=> kind[c] = "none"
                          /\ kind[c] = "none" => reply[c].said = "none"

DocInv ==
    /\ DocType
    /\ \A c \in Callers : Fits(body[c], document, changed, version)
    /\ \A b \in late : Fits(b, document, changed, version)
    /\ \A c \in Callers : copy[c].document # <<>> =>
          Views(copy[c].document, copy[c].base, document, changed, version)
    /\ \A c \in Callers : reply[c].said # "none" =>
          Views(reply[c].document, body[c].base, document, changed, version)

(* A step of the server: a field keeps its value and its date, or gets a   *)
(* new date.                                                               *)
Moves(doc, chg, ver, doc2, chg2, ver2) ==
    /\ ver \in Nat /\ ver2 \in Nat /\ ver <= ver2
    /\ doc2 \in [Fields -> Values] /\ chg2 \in [Fields -> 0..ver2]
    /\ \A f \in Fields : \/ doc2[f] = doc[f] /\ chg2[f] = chg[f]
                         \/ chg2[f] > ver

(* What was taken from the document stays true of it when it moves on.     *)
LEMMA ViewsStay ==
  ASSUME NEW doc, NEW chg, NEW ver, NEW doc2, NEW chg2, NEW ver2, NEW d, NEW base,
         Moves(doc, chg, ver, doc2, chg2, ver2), Views(d, base, doc, chg, ver)
  PROVE  Views(d, base, doc2, chg2, ver2)
<1>1. base \in Nat /\ base <= ver /\ ver \in Nat /\ ver2 \in Nat /\ ver <= ver2
  BY DEF Moves, Views
<1>2. \A f \in Fields : chg2[f] <= base => d[f] = doc2[f]
  BY <1>1 DEF Moves, Views
<1> QED
  BY <1>1, <1>2 DEF Views

(* A body stays one that was made from a view, when the document moves on. *)
LEMMA FitsStays ==
  ASSUME NEW doc, NEW chg, NEW ver, NEW doc2, NEW chg2, NEW ver2, NEW b,
         Moves(doc, chg, ver, doc2, chg2, ver2), Fits(b, doc, chg, ver)
  PROVE  Fits(b, doc2, chg2, ver2)
<1>1. b.base \in Nat /\ b.base <= ver /\ ver \in Nat /\ ver2 \in Nat /\ ver <= ver2
  BY DEF Moves, Fits
<1>2. ASSUME b.op = "Accounts.SaveRefreshPlan", NEW f \in Fields \ b.edits,
             chg2[f] <= b.base
      PROVE  b.fields[f] = doc2[f]
  BY <1>1, <1>2 DEF Moves, Fits
<1> QED
  BY <1>1, <1>2 DEF Fits

(* The fields of the JSON get its values, the others keep theirs.          *)
LEMMA OverlayFields ==
  ASSUME NEW D, D \subseteq Fields, NEW x \in [D -> Values], NEW doc \in [Fields -> Values]
  PROVE  /\ Overlay(x, doc) \in [Fields -> Values]
         /\ \A f \in D : Overlay(x, doc)[f] = x[f]
         /\ \A f \in Fields \ D : Overlay(x, doc)[f] = doc[f]
<1>1. DOMAIN x \cup DOMAIN doc = Fields /\ DOMAIN x = D
  OBVIOUS
<1> QED
  BY <1>1 DEF Overlay

(* A write: it has the fields D, among them those it is about; the others  *)
(* it has are as they were, if they have not changed since.                *)
LEMMA WriteFields ==
  ASSUME NEW b, Writes(b), Fits(b, document, changed, version)
  PROVE  \E D \in SUBSET Fields :
            /\ b.fields \in [D -> Values] /\ b.edits \subseteq D /\ ~Incomplete(b)
            /\ \A f \in b.edits : b.in[f] = b.fields[f]
            /\ \A f \in D \ b.edits : /\ b.op = "Accounts.SaveRefreshPlan"
                                      /\ changed[f] <= b.base => b.fields[f] = document[f]
<1>1. CASE b.op = "Keys.Update"
  <2>1. b.op # "Accounts.SaveRefreshPlan"
    BY <1>1
  <2>2. b.edits \in SUBSET Fields /\ ~Incomplete(b)
    BY <1>1, <2>1 DEF Fits, Incomplete
  <2> QED
    BY <1>1, <2>2 DEF Fits
<1>2. CASE b.op = "Accounts.SaveRefreshPlan"
  <2>1. b.fields \in [Fields -> Values] /\ ~Incomplete(b)
    BY <1>2 DEF Fits, Incomplete
  <2> QED
    BY <1>2, <2>1 DEF Fits
<1> QED
  BY <1>1, <1>2 DEF Writes

(* The server handles a request that fits: it makes the changes that the   *)
(* caller gave, changes only what the request has in it, and what it       *)
(* changes is newer.                                                       *)
LEMMA HandleMoves ==
  ASSUME DocType, NEW b, Fits(b, document, changed, version), Handle(b)
  PROVE  /\ DocType'
         /\ Moves(document, changed, version, document', changed', version')
         /\ \A f \in Fields : document'[f] # document[f] =>
               \/ f \in b.edits
               \/ b.op = "Accounts.SaveRefreshPlan" /\ b.base < changed[f]
         /\ Writes(b) => \A f \in b.edits : /\ f \in Fields /\ b.in[f] \in Values
                                            /\ document'[f] = b.in[f]
<1>1. /\ document' = IF Writes(b) /\ ~Incomplete(b) THEN Overlay(b.fields, document)
                                                    ELSE document
      /\ version' = IF Writes(b) THEN version + 1 ELSE version
      /\ changed' = [f \in Fields |->
           IF document'[f] # document[f] THEN version' ELSE changed[f]]
  BY DEF Handle
<1>2. CASE ~Writes(b)
  BY <1>1, <1>2 DEF DocType, Moves
<1>3. CASE Writes(b)
  <2>1. PICK D \in SUBSET Fields :
            /\ b.fields \in [D -> Values] /\ b.edits \subseteq D /\ ~Incomplete(b)
            /\ \A f \in b.edits : b.in[f] = b.fields[f]
            /\ \A f \in D \ b.edits : /\ b.op = "Accounts.SaveRefreshPlan"
                                      /\ changed[f] <= b.base => b.fields[f] = document[f]
    BY <1>3, WriteFields
  <2>2. document' = Overlay(b.fields, document) /\ version' = version + 1
    BY <1>1, <1>3, <2>1
  <2>3. /\ document' \in [Fields -> Values]
        /\ \A f \in D : document'[f] = b.fields[f]
        /\ \A f \in Fields \ D : document'[f] = document[f]
    <3>1. D \subseteq Fields /\ b.fields \in [D -> Values] /\ document \in [Fields -> Values]
      BY <2>1 DEF DocType
    <3>2. /\ Overlay(b.fields, document) \in [Fields -> Values]
          /\ \A f \in D : Overlay(b.fields, document)[f] = b.fields[f]
          /\ \A f \in Fields \ D : Overlay(b.fields, document)[f] = document[f]
      BY <3>1, OverlayFields
    <3> QED
      BY <2>2, <3>2
  <2>4. /\ changed' \in [Fields -> 0..version'] /\ version \in Nat /\ version' \in Nat
        /\ \A f \in Fields : \/ document'[f] = document[f] /\ changed'[f] = changed[f]
                             \/ changed'[f] = version'
    BY <1>1, <2>2 DEF DocType
  <2>5. b.base \in Nat /\ \A f \in Fields : changed[f] \in Nat
    BY DEF Fits, DocType
  <2>6. DocType' /\ Moves(document, changed, version, document', changed', version')
    BY <2>2, <2>3, <2>4 DEF DocType, Moves
  <2> QED
    BY <2>1, <2>3, <2>5, <2>6
<1> QED
  BY <1>2, <1>3

(* A fresh client has taken nothing yet.                                   *)
LEMMA CallTypeInit == Init => CallType
  BY DEF Init, CallsInit, CallType, NoReply

(* The invariant of the document holds before the first call.              *)
LEMMA DocInvInit == Init => DocInv
<1> SUFFICES ASSUME Init PROVE DocInv
  OBVIOUS
<1>1. DocType
  BY DEF Init, DocType, Values
<1>2. \A c \in Callers : Fits(body[c], document, changed, version)
  BY DEF Init, NoBody, Fits
<1>3. late = {} /\ \A c \in Callers : copy[c].document = <<>> /\ reply[c].said = "none"
  BY DEF Init, NoReply
<1> QED
  BY <1>1, <1>2, <1>3 DEF DocInv

(* The beginning of a call.                                                *)
LEMMA BeginCall ==
  ASSUME CallType, NEW c \in Callers, NEW b, Begin(c, b)
  PROVE  /\ CallType'
         /\ kind[c] = "none" /\ runs'[c] = 0 /\ at'[c] = "client"
         /\ calls' = calls + 1
         /\ body' = [body EXCEPT ![c] = [b EXCEPT !.call = calls']]
         /\ UNCHANGED <<reply, late, scan, copy, realm, resource, serverVars, historyVars>>
         /\ \A d \in Callers \ {c} : kind'[d] = kind[d] /\ runs'[d] = runs[d] /\ at'[d] = at[d]
         /\ kind'[c] = IF CallNamed(b.op).method = "GET" THEN "read" ELSE "write"
<1>1. /\ kind[c] = "none" /\ runs' = [runs EXCEPT ![c] = 0]
      /\ \E k \in {"read", "write"} : kind' = [kind EXCEPT ![c] = k]
  BY DEF Begin, Ask
<1>2. /\ at' = [at EXCEPT ![c] = "client"]
      /\ calls' = calls + 1
      /\ body' = [body EXCEPT ![c] = [b EXCEPT !.call = calls']]
      /\ UNCHANGED <<reply, late, scan, copy, realm, resource, serverVars, historyVars>>
      /\ kind'[c] = IF CallNamed(b.op).method = "GET" THEN "read" ELSE "write"
  BY DEF Begin, clientVars
<1> QED
  BY <1>1, <1>2 DEF CallType

(* The end of a call.                                                      *)
LEMMA FinishCall ==
  ASSUME CallType, NEW c \in Callers, Finish(c)
  PROVE  CallType'
<1>1. /\ kind' = [kind EXCEPT ![c] = "none"] /\ UNCHANGED runs
      /\ at' = [at EXCEPT ![c] = "idle"]
      /\ body' = [body EXCEPT ![c] = NoBody]
      /\ reply' = [reply EXCEPT ![c] = NoReply]
  BY DEF Finish, Return
<1>2. DOMAIN scan' = Callers /\ DOMAIN copy' = Callers
  BY DEF Finish, CallType
<1> QED
  BY <1>1, <1>2 DEF CallType, NoReply

(* Steps of the calls keep their types.                                    *)
LEMMA CallTypeStep == CallType /\ [Next]_vars => CallType'
<1> SUFFICES ASSUME CallType, [Next]_vars PROVE CallType'
  OBVIOUS
<1>1. CASE UNCHANGED vars
  BY <1>1 DEF vars, callsVars, callVars, clientVars, CallType
<1>2. ASSUME NEW c \in Callers, NEW b, Begin(c, b) PROVE CallType'
  BY <1>2, BeginCall
<1>3. ASSUME NEW c \in Callers, Finish(c) PROVE CallType'
  BY <1>3, FinishCall
<1>4. ASSUME NEW c \in Callers, FirstRequest(c) \/ Close(c) PROVE CallType'
  BY <1>4 DEF FirstRequest, Close, callsVars, callVars, clientVars, CallType
<1>5. ASSUME NEW c \in Callers, Send(c) PROVE CallType'
  BY <1>5 DEF Send, callsVars, clientVars, CallType
<1>6. ASSUME NEW c \in Callers, Serve(c) PROVE CallType'
  <2>1. /\ kind[c] # "none" /\ UNCHANGED <<kind, at, body, scan, copy>>
        /\ runs' = [runs EXCEPT ![c] = @ + 1]
    <3>1. Execute(c) /\ UNCHANGED <<at, body, scan, copy>>
      BY <1>6 DEF Serve, Handle, clientVars
    <3> QED
      BY <3>1 DEF Execute
  <2>2. PICK r : reply' = [reply EXCEPT ![c] = r]
    BY <1>6 DEF Serve
  <2>3. DOMAIN reply' = Callers
    BY <2>2 DEF CallType
  <2>4. \A d \in Callers : kind'[d] = "none" => reply'[d].said = "none"
    BY <2>1, <2>2 DEF CallType
  <2> QED
    BY <2>1, <2>3, <2>4 DEF CallType
<1>7. ASSUME NEW b \in late, ServeLate(b) PROVE CallType'
  BY <1>7 DEF ServeLate, Handle, callsVars, clientVars, CallType
<1>8. ASSUME NEW r \in Realms, SetRealm(r) PROVE CallType'
  BY <1>8 DEF SetRealm, callsVars, callVars, CallType
<1> QED
  BY <1>1, <1>2, <1>3, <1>4, <1>5, <1>6, <1>7, <1>8
     DEF Next, Create, StartAuth, PollAuth, RefreshPlan, SaveRefreshPlan, Update

(* The document stands still, and so does what was taken from it.          *)
LEMMA DocStays ==
  ASSUME DocInv, CallType, CallType',
         UNCHANGED <<document, version, changed, late>>,
         \A c \in Callers :
            /\ body'[c] = body[c] \/ Fits(body'[c], document, changed, version)
            /\ \/ copy'[c] = copy[c]
               \/ Views(copy'[c].document, copy'[c].base, document, changed, version)
            /\ \/ reply'[c] = reply[c] /\ body'[c] = body[c]
               \/ reply'[c].said = "none"
  PROVE  DocInv'
  BY DEF DocInv, DocType

(* The server handles a request, of a call under way or of one that gave   *)
(* up on it.                                                               *)
LEMMA DocHandled ==
  ASSUME DocInv, NEW b, Fits(b, document, changed, version), Handle(b),
         late' \subseteq late,
         \A c \in Callers : \/ reply'[c] = reply[c]
                            \/ reply'[c].document = document'
  PROVE  DocInv'
<1>1. /\ DocType'
      /\ Moves(document, changed, version, document', changed', version')
  BY HandleMoves DEF DocInv
<1>2. UNCHANGED <<body, copy>>
  BY DEF Handle, clientVars
<1>3. ASSUME NEW x, Fits(x, document, changed, version)
      PROVE  Fits(x, document', changed', version')
  BY <1>1, <1>3, FitsStays
<1>4. ASSUME NEW d, NEW base, Views(d, base, document, changed, version)
      PROVE  Views(d, base, document', changed', version')
  BY <1>1, <1>4, ViewsStay
<1>5. ASSUME NEW c \in Callers
      PROVE  Views(document', body[c].base, document', changed', version')
  BY <1>1 DEF DocInv, Fits, Views, Moves
<1> QED
  BY <1>1, <1>2, <1>3, <1>4, <1>5 DEF DocInv

(* What Update sends are the fields that its caller gave.                  *)
LEMMA PatchFits ==
  ASSUME NEW p \in Patches
  PROVE  /\ PatchJSON(p) \in [Given(p) -> Values]
         /\ \A f \in Given(p) : p[f] = PatchJSON(p)[f]
         /\ Given(p) \subseteq Fields
<1>1. {g \in DOMAIN p : p[g] # Nil} = Given(p)
  BY DEF Patches, Given
<1>2. \A f \in Given(p) : p[f] \in Values
  BY DEF Patches, Given
<1> QED
  BY <1>1, <1>2 DEF PatchJSON, Given

(* Every call begins with a request that fits.                             *)
LEMMA BeginDoc ==
  ASSUME DocInv, CallType, NEW c \in Callers, NEW b, Begin(c, b),
         Fits([b EXCEPT !.call = calls'], document, changed, version)
  PROVE  DocInv'
<1>1. /\ CallType' /\ kind[c] = "none"
      /\ body' = [body EXCEPT ![c] = [b EXCEPT !.call = calls']]
      /\ UNCHANGED <<reply, late, copy, document, version, changed>>
  BY BeginCall DEF serverVars, historyVars
<1>2. body'[c] = [b EXCEPT !.call = calls'] /\ \A d \in Callers \ {c} : body'[d] = body[d]
  BY <1>1 DEF CallType
<1>3. reply'[c].said = "none"
  BY <1>1 DEF CallType
<1> QED
  BY <1>1, <1>2, <1>3, DocStays

(* A call that begins makes its body from what its caller has seen.        *)
LEMMA CallsBeginFitting ==
  ASSUME DocInv, CallType, NEW c \in Callers,
         \/ Create(c) \/ RefreshPlan(c)
         \/ \E r \in Realms : StartAuth(c, r) \/ PollAuth(c, r)
         \/ \E f \in Fields, v \in Values : SaveRefreshPlan(c, f, v)
         \/ \E p \in Patches : Update(c, p)
  PROVE  DocInv'
<1>0. version \in Nat /\ 0 \in 0..version /\ version \in 0..version
  BY DEF DocInv, DocType
<1>1. ASSUME NEW b, Begin(c, b), b.op \notin {"Keys.Update", "Accounts.SaveRefreshPlan"},
             b.base \in 0..version, DOMAIN b = DOMAIN NoBody
      PROVE  DocInv'
  <2>1. /\ [b EXCEPT !.call = calls'].op = b.op
        /\ [b EXCEPT !.call = calls'].base = b.base
    BY <1>1 DEF NoBody
  <2>2. Fits([b EXCEPT !.call = calls'], document, changed, version)
    BY <1>1, <2>1 DEF Fits
  <2> QED
    BY <1>1, <2>2, BeginDoc
<1>2. CASE Create(c)
  <2> DEFINE b == [NoBody EXCEPT !.op = "Keys.Create"]
  <2>1. b.op = "Keys.Create" /\ b.base = 0 /\ DOMAIN b = DOMAIN NoBody
    BY DEF NoBody
  <2>2. Begin(c, b)
    BY <1>2 DEF Create
  <2> HIDE DEF b
  <2> QED
    BY <1>0, <1>1, <2>1, <2>2
<1>3. CASE RefreshPlan(c)
  <2> DEFINE b == [NoBody EXCEPT !.op = "Accounts.RefreshPlan", !.base = version]
  <2>1. b.op = "Accounts.RefreshPlan" /\ b.base = version /\ DOMAIN b = DOMAIN NoBody
    BY DEF NoBody
  <2>2. Begin(c, b)
    BY <1>3 DEF RefreshPlan
  <2> HIDE DEF b
  <2> QED
    BY <1>0, <1>1, <2>1, <2>2
<1>4. ASSUME NEW r \in Realms, StartAuth(c, r) PROVE DocInv'
  <2> DEFINE b == [NoBody EXCEPT !.op = "Accounts.StartAuth",
                                 !.realm = effectiveRealm(r), !.arg = r]
  <2>1. b.op = "Accounts.StartAuth" /\ b.base = 0 /\ DOMAIN b = DOMAIN NoBody
    BY DEF NoBody
  <2>2. Begin(c, b)
    BY <1>4 DEF StartAuth
  <2> HIDE DEF b
  <2> QED
    BY <1>0, <1>1, <2>1, <2>2
<1>5. ASSUME NEW r \in Realms, PollAuth(c, r) PROVE DocInv'
  <2> DEFINE b == [NoBody EXCEPT !.op = "Accounts.PollAuth", !.realm = r, !.arg = r]
  <2>1. b.op = "Accounts.PollAuth" /\ b.base = 0 /\ DOMAIN b = DOMAIN NoBody
    BY DEF NoBody
  <2>2. Begin(c, b)
    BY <1>5 DEF PollAuth
  <2> HIDE DEF b
  <2> QED
    BY <1>0, <1>1, <2>1, <2>2
<1>6. ASSUME NEW f \in Fields, NEW v \in Values, SaveRefreshPlan(c, f, v) PROVE DocInv'
  <2> DEFINE in == [copy[c].document EXCEPT ![f] = v]
             b == [NoBody EXCEPT !.op = "Accounts.SaveRefreshPlan",
                                 !.fields = PlanJSON(in), !.in = in,
                                 !.edits = {f}, !.base = copy[c].base]
  <2>1. Begin(c, b) /\ copy[c].document # <<>>
    BY <1>6 DEF SaveRefreshPlan
  <2>2. Views(copy[c].document, copy[c].base, document, changed, version)
    BY <2>1 DEF DocInv
  <2>3. /\ in \in [Fields -> Values]
        /\ \A g \in Fields \ {f} : in[g] = copy[c].document[g]
    BY <2>2 DEF Views
  <2> HIDE DEF in
  <2>4. LET x == [b EXCEPT !.call = calls']
        IN /\ x.op = "Accounts.SaveRefreshPlan" /\ x.fields = in /\ x.in = in
           /\ x.edits = {f} /\ x.base = copy[c].base
    BY DEF NoBody, PlanJSON
  <2> HIDE DEF b
  <2>5. Fits([b EXCEPT !.call = calls'], document, changed, version)
    BY <2>2, <2>3, <2>4 DEF Fits, Views
  <2> QED
    BY <2>1, <2>5, BeginDoc
<1>7. ASSUME NEW p \in Patches, Update(c, p) PROVE DocInv'
  <2> DEFINE b == [NoBody EXCEPT !.op = "Keys.Update", !.fields = PatchJSON(p),
                                 !.in = p, !.edits = Given(p)]
  <2>1. Begin(c, b)
    BY <1>7 DEF Update
  <2>2. LET x == [b EXCEPT !.call = calls']
        IN /\ x.op = "Keys.Update" /\ x.fields = PatchJSON(p) /\ x.in = p
           /\ x.edits = Given(p) /\ x.base = 0
    BY DEF NoBody
  <2> HIDE DEF b
  <2>3. Fits([b EXCEPT !.call = calls'], document, changed, version)
    BY <1>0, <2>2, PatchFits DEF Fits
  <2> QED
    BY <2>1, <2>3, BeginDoc
<1> QED
  BY <1>2, <1>3, <1>4, <1>5, <1>6, <1>7

(* Each step preserves what was taken from the document.                   *)
LEMMA DocInvStep == DocInv /\ CallType /\ CallType' /\ [Next]_vars => DocInv'
<1> SUFFICES ASSUME DocInv, CallType, CallType', [Next]_vars PROVE DocInv'
  OBVIOUS
<1>1. ASSUME UNCHANGED <<body, copy, reply, late, serverVars, version, changed>>
      PROVE  DocInv'
  BY <1>1, DocStays DEF serverVars
<1>2. CASE UNCHANGED vars
  BY <1>1, <1>2 DEF vars, callVars, clientVars, historyVars
<1>3. ASSUME NEW c \in Callers, FirstRequest(c) \/ Close(c) \/ Send(c) PROVE DocInv'
  BY <1>1, <1>3 DEF FirstRequest, Close, Send, callVars, clientVars, historyVars
<1>4. ASSUME NEW r \in Realms, SetRealm(r) PROVE DocInv'
  BY <1>1, <1>4 DEF SetRealm, callVars, historyVars
<1>5. ASSUME NEW c \in Callers, Serve(c) PROVE DocInv'
  <2>1. Handle(body[c]) /\ UNCHANGED late
    BY <1>5 DEF Serve
  <2>2. \A d \in Callers : reply'[d] = reply[d] \/ reply'[d].document = document'
    BY <1>5 DEF Serve, CallType
  <2> QED
    BY <2>1, <2>2, DocHandled DEF DocInv
<1>6. ASSUME NEW b \in late, ServeLate(b) PROVE DocInv'
  <2>1. Handle(b) /\ late' \subseteq late /\ UNCHANGED reply
    BY <1>6 DEF ServeLate
  <2> QED
    BY <2>1, DocHandled DEF DocInv
<1>7. ASSUME NEW c \in Callers, Finish(c) PROVE DocInv'
  <2>1. /\ UNCHANGED <<document, version, changed>>
        /\ body' = [body EXCEPT ![c] = NoBody]
        /\ reply' = [reply EXCEPT ![c] = NoReply]
        /\ late' \subseteq late \cup {body[c]}
    BY <1>7 DEF Finish, serverVars
  <2>2. Fits(NoBody, document, changed, version)
    BY DEF Fits, NoBody, DocInv, DocType
  <2>3. \A d \in Callers : \/ copy'[d] = copy[d]
                           \/ Views(copy'[d].document, copy'[d].base,
                                    document, changed, version)
    <3>1. CASE UNCHANGED copy
      BY <3>1
    <3>2. CASE copy' = [copy EXCEPT ![c] = [document |-> Copy(c), base |-> body[c].base]]
               /\ answer'[c] = "ok"
      <4>1. reply[c].said = "ok"
        BY <1>7, <3>2 DEF Finish
      <4>2. Views(reply[c].document, body[c].base, document, changed, version)
        BY <4>1 DEF DocInv
      <4>3. /\ copy'[c].document = reply[c].document /\ copy'[c].base = body[c].base
            /\ \A d \in Callers \ {c} : copy'[d] = copy[d]
        BY <3>2 DEF Copy, CallType
      <4> QED
        BY <4>2, <4>3
    <3> QED
      BY <1>7, <3>1, <3>2 DEF Finish, Succeeds
  <2>4. \A d \in Callers :
           /\ d # c => body'[d] = body[d] /\ reply'[d] = reply[d]
           /\ d = c => body'[d] = NoBody /\ reply'[d].said = "none"
    BY <2>1 DEF CallType, NoReply
  <2>5. /\ DocType'
        /\ \A d \in Callers : Fits(body'[d], document, changed, version)
        /\ \A b \in late' : Fits(b, document, changed, version)
        /\ \A d \in Callers : copy'[d].document # <<>> =>
              Views(copy'[d].document, copy'[d].base, document, changed, version)
        /\ \A d \in Callers : reply'[d].said # "none" =>
              Views(reply'[d].document, body'[d].base, document, changed, version)
    BY <2>1, <2>2, <2>3, <2>4 DEF DocInv, DocType
  <2> QED
    BY <2>1, <2>5 DEF DocInv
<1> QED
  BY <1>2, <1>3, <1>4, <1>5, <1>6, <1>7, CallsBeginFitting DEF Next

(* What callers hold of the document is true of it in every reachable      *)
(* state.                                                                  *)
LEMMA DocInvariant == Spec => [](CallType /\ DocInv)
  BY CallTypeInit, CallTypeStep, DocInvInit, DocInvStep, PTL DEF Spec

(* Field f got the value v when the version was since, and has it still or *)
(* has changed since.                                                      *)
Kept(f, v, since, doc, chg, ver) ==
    /\ f \in Fields /\ v \in Values /\ since \in 0..ver
    /\ doc[f] = v \/ chg[f] > since

(* What callers were told, and what the answer of a call under way tells.  *)
KeptInv ==
    /\ promised \subseteq [field : Fields, value : Values, since : Nat]
    /\ \A p \in promised : Kept(p.field, p.value, p.since, document, changed, version)
    /\ \A c \in Callers : reply[c].said = "ok" /\ Writes(body[c]) =>
          \A f \in body[c].edits :
             Kept(f, body[c].in[f], reply[c].version, document, changed, version)

(* A change stays, or is seen to be followed by another one.               *)
LEMMA KeptStays ==
  ASSUME NEW doc, NEW chg, NEW ver, NEW doc2, NEW chg2, NEW ver2,
         NEW f, NEW v, NEW since,
         Moves(doc, chg, ver, doc2, chg2, ver2), Kept(f, v, since, doc, chg, ver)
  PROVE  Kept(f, v, since, doc2, chg2, ver2)
<1>1. /\ since \in Nat /\ since <= ver /\ ver \in Nat /\ ver2 \in Nat /\ ver <= ver2
      /\ f \in Fields /\ chg2[f] \in Nat
  BY DEF Moves, Kept
<1>2. \/ doc2[f] = doc[f] /\ chg2[f] = chg[f]
      \/ chg2[f] > ver
  BY <1>1 DEF Moves
<1>3. doc2[f] = v \/ chg2[f] > since
  BY <1>1, <1>2 DEF Kept
<1> QED
  BY <1>1, <1>3 DEF Kept

(* Nobody has been told anything.                                          *)
LEMMA KeptInvInit == Init => KeptInv
  BY DEF Init, NoReply, KeptInv

(* The server handles a request, and answers it or not.                    *)
LEMMA KeptHandled ==
  ASSUME KeptInv, DocType, NEW b, Fits(b, document, changed, version), Handle(b),
         \A c \in Callers :
            \/ reply'[c] = reply[c]
            \/ body[c] = b /\ reply'[c].version = version'
  PROVE  KeptInv'
<1>1. /\ DocType'
      /\ Moves(document, changed, version, document', changed', version')
      /\ Writes(b) => \A f \in b.edits : /\ f \in Fields /\ b.in[f] \in Values
                                         /\ document'[f] = b.in[f]
  BY HandleMoves
<1>2. UNCHANGED <<body, promised>>
  BY DEF Handle
<1>3. ASSUME NEW f, NEW v, NEW since, Kept(f, v, since, document, changed, version)
      PROVE  Kept(f, v, since, document', changed', version')
  BY <1>1, <1>3, KeptStays
<1>4. Writes(b) => \A f \in b.edits :
         Kept(f, b.in[f], version', document', changed', version')
  BY <1>1 DEF Kept, DocType
<1>5. ASSUME NEW c \in Callers, reply'[c].said = "ok", Writes(body[c]),
             NEW f \in body[c].edits
      PROVE  Kept(f, body[c].in[f], reply'[c].version, document', changed', version')
  BY <1>3, <1>4, <1>5 DEF KeptInv
<1>6. \A p \in promised' : Kept(p.field, p.value, p.since, document', changed', version')
  BY <1>2, <1>3 DEF KeptInv
<1> QED
  BY <1>2, <1>5, <1>6 DEF KeptInv, Writes

(* A call returns, and tells its caller what the server told it.           *)
LEMMA KeptReturned ==
  ASSUME KeptInv, DocType, CallType, NEW c \in Callers, Finish(c)
  PROVE  KeptInv'
<1> DEFINE new == {[field |-> f, value |-> body[c].in[f], since |-> reply[c].version] :
                     f \in body[c].edits}
<1>1. /\ UNCHANGED <<document, version, changed>>
      /\ reply' = [reply EXCEPT ![c] = NoReply] /\ body' = [body EXCEPT ![c] = NoBody]
  BY DEF Finish, serverVars
<1>2. \/ promised' = promised
      \/ promised' = promised \cup new /\ reply[c].said = "ok" /\ Writes(body[c])
  BY DEF Finish, Succeeds
<1>3. ASSUME reply[c].said = "ok", Writes(body[c]), NEW p \in new
      PROVE  /\ p \in [field : Fields, value : Values, since : Nat]
             /\ Kept(p.field, p.value, p.since, document, changed, version)
  <2>1. PICK f \in body[c].edits :
            p = [field |-> f, value |-> body[c].in[f], since |-> reply[c].version]
    BY <1>3
  <2>2. Kept(f, body[c].in[f], reply[c].version, document, changed, version)
    BY <1>3 DEF KeptInv
  <2>3. f \in Fields /\ body[c].in[f] \in Values /\ reply[c].version \in Nat
    BY <2>2 DEF Kept, DocType
  <2> QED
    BY <2>1, <2>2, <2>3
<1> HIDE DEF new
<1>4. \A p \in promised' :
         /\ p \in [field : Fields, value : Values, since : Nat]
         /\ Kept(p.field, p.value, p.since, document, changed, version)
  BY <1>2, <1>3 DEF KeptInv
<1>5. \A d \in Callers : \/ reply'[d] = reply[d] /\ body'[d] = body[d]
                         \/ reply'[d].said = "none"
  BY <1>1 DEF CallType, NoReply
<1> QED
  BY <1>1, <1>4, <1>5 DEF KeptInv, Writes

(* Each step preserves what callers were told.                             *)
LEMMA KeptInvStep == KeptInv /\ DocInv /\ CallType /\ [Next]_vars => KeptInv'
<1> SUFFICES ASSUME KeptInv, DocInv, CallType, [Next]_vars PROVE KeptInv'
  OBVIOUS
<1>1. ASSUME UNCHANGED <<document, version, changed, promised>>,
             \A c \in Callers : \/ reply'[c] = reply[c] /\ body'[c] = body[c]
                                \/ reply'[c].said = "none"
      PROVE  KeptInv'
  BY <1>1 DEF KeptInv, Writes
<1>2. ASSUME NEW c \in Callers, NEW b, Begin(c, b) PROVE KeptInv'
  <2>1. \A d \in Callers : \/ reply'[d] = reply[d] /\ body'[d] = body[d]
                           \/ reply'[d].said = "none"
    BY <1>2, BeginCall DEF CallType
  <2> QED
    BY <1>1, <1>2, <2>1, BeginCall DEF serverVars, historyVars
<1>3. ASSUME NEW c \in Callers, FirstRequest(c) \/ Close(c) \/ Send(c) PROVE KeptInv'
  BY <1>1, <1>3 DEF FirstRequest, Close, Send, callVars, serverVars, historyVars
<1>4. ASSUME NEW r \in Realms, SetRealm(r) PROVE KeptInv'
  BY <1>1, <1>4 DEF SetRealm, callVars, serverVars, historyVars
<1>5. ASSUME NEW c \in Callers, Serve(c) PROVE KeptInv'
  <2>1. Handle(body[c])
    BY <1>5 DEF Serve
  <2>2. \A d \in Callers : \/ reply'[d] = reply[d]
                           \/ body[d] = body[c] /\ reply'[d].version = version'
    BY <1>5 DEF Serve, CallType
  <2> QED
    BY <2>1, <2>2, KeptHandled DEF DocInv
<1>6. ASSUME NEW b \in late, ServeLate(b) PROVE KeptInv'
  <2>1. Handle(b) /\ UNCHANGED reply
    BY <1>6 DEF ServeLate
  <2> QED
    BY <2>1, KeptHandled DEF DocInv
<1>7. CASE UNCHANGED vars
  BY <1>1, <1>7 DEF vars, callVars, serverVars, historyVars
<1> QED
  BY <1>2, <1>3, <1>4, <1>5, <1>6, <1>7, KeptReturned
     DEF Next, DocInv, Create, StartAuth, PollAuth, RefreshPlan, SaveRefreshPlan, Update

(* For any fields, callers, lost answers and requests that come late: a    *)
(* change that a caller was told is made was made, and the document keeps  *)
(* it until that field is changed again (src/types.go:295-306,             *)
(* src/types_admin_bulk.go:165-174).                                       *)
THEOREM AcknowledgedChangesAreKept == Spec => []AcknowledgedIsKept
<1>1. KeptInv => AcknowledgedIsKept
  BY DEF KeptInv, Kept, AcknowledgedIsKept
<1>2. DocInv /\ CallType /\ KeptInv /\ [Next]_vars => KeptInv'
  BY KeptInvStep
<1> QED
  BY <1>1, <1>2, DocInvariant, KeptInvInit, PTL DEF Spec

(* No step but the server's changes the document.                          *)
LEMMA OnlyServerWrites ==
  ASSUME CallType, [Next]_vars
  PROVE  \/ UNCHANGED document
         \/ \E c \in Callers : Serve(c)
         \/ \E b \in late : ServeLate(b)
<1>1. ASSUME NEW c \in Callers, NEW b, Begin(c, b) PROVE UNCHANGED document
  BY <1>1, BeginCall DEF serverVars
<1>2. ASSUME NEW c \in Callers, Finish(c) \/ FirstRequest(c) \/ Close(c) \/ Send(c)
      PROVE  UNCHANGED document
  BY <1>2 DEF Finish, FirstRequest, Close, Send, serverVars
<1>3. ASSUME NEW r \in Realms, SetRealm(r) PROVE UNCHANGED document
  BY <1>3 DEF SetRealm, serverVars
<1>4. CASE UNCHANGED vars
  BY <1>4 DEF vars, serverVars
<1> QED
  BY <1>1, <1>2, <1>3, <1>4
     DEF Next, Create, StartAuth, PollAuth, RefreshPlan, SaveRefreshPlan, Update

(* A change is undone only by a request about the same field, or by a plan *)
(* that was read before the change, for any number of editors.             *)
THEOREM ChangesAreUndoneByOverlapOnly == Spec => UndoneByOverlapOnly
<1> DEFINE Step == \A f \in Fields : document'[f] # document[f] =>
                      \E b \in Executed :
                         \/ f \in b.edits
                         \/ b.op = "Accounts.SaveRefreshPlan" /\ b.base < changed[f]
<1>1. ASSUME CallType, DocInv, [Next]_vars PROVE Step
  <2>1. ASSUME NEW b, b \in Executed, Fits(b, document, changed, version), Handle(b)
        PROVE  Step
    <3>1. \A f \in Fields : document'[f] # document[f] =>
             \/ f \in b.edits
             \/ b.op = "Accounts.SaveRefreshPlan" /\ b.base < changed[f]
      <4>1. DocType
        BY <1>1 DEF DocInv
      <4> QED
        BY <2>1, <4>1, HandleMoves
    <3> QED
      BY <2>1, <3>1
  <2>2. ASSUME NEW c \in Callers, Serve(c) PROVE Step
    <3>1. Execute(c) /\ Handle(body[c])
      BY <2>2 DEF Serve
    <3>2. runs'[c] = runs[c] + 1
      BY <1>1, <3>1 DEF Execute, CallType
    <3>3. body[c] \in Executed
      BY <3>2 DEF Executed
    <3>4. Fits(body[c], document, changed, version)
      BY <1>1 DEF DocInv
    <3> QED
      BY <2>1, <3>1, <3>3, <3>4
  <2>3. ASSUME NEW b \in late, ServeLate(b) PROVE Step
    <3>1. late' = late \ {b} /\ Handle(b)
      BY <2>3 DEF ServeLate
    <3>2. b \in Executed
      BY <3>1 DEF Executed
    <3>3. Fits(b, document, changed, version)
      BY <1>1 DEF DocInv
    <3> QED
      BY <2>1, <3>1, <3>2, <3>3
  <2>4. CASE UNCHANGED document
    BY <2>4
  <2> QED
    BY <1>1, <2>2, <2>3, <2>4, OnlyServerWrites
<1>2. [](CallType /\ DocInv) /\ [][Next]_vars => [][Step]_vars
  BY <1>1, PTL
<1> QED
  BY <1>2, DocInvariant, PTL DEF Spec, UndoneByOverlapOnly

-----------------------------------------------------------------------------
(* Realms                                                                  *)

(* A scan is begun in a realm, the one the caller gave if it gave one.     *)
Begun(b) == b.realm \in {"cn", "global"} /\ (b.arg # "any" => b.realm = b.arg)

(* A poll names the realm that the caller gives, or none.                  *)
Polls(b) == b.arg \in Realms /\ b.realm = b.arg

Begins(c) ==
    \/ Create(c) \/ RefreshPlan(c)
    \/ \E r \in Realms : StartAuth(c, r) \/ PollAuth(c, r)
    \/ \E f \in Fields, v \in Values : SaveRefreshPlan(c, f, v)
    \/ \E p \in Patches : Update(c, p)

(* What the request of a new call says, apart from its fields.             *)
LEMMA RequestSays ==
  ASSUME CallType, realm \in Realms, NEW c \in Callers, Begins(c)
  PROVE  \E b : /\ Begin(c, b)
                /\ body'[c].call = calls' /\ body'[c].op = b.op
                /\ b.op = "Accounts.StartAuth" => Begun(body'[c])
                /\ b.op = "Accounts.PollAuth" => Polls(body'[c])
                /\ b.op = "Keys.Create" <=> resource = "secret"
<1>1. ASSUME NEW b, Begin(c, b) PROVE body'[c] = [b EXCEPT !.call = calls']
  BY <1>1, BeginCall DEF CallType
<1>2. CASE Create(c)
  <2> DEFINE b == [NoBody EXCEPT !.op = "Keys.Create"]
  <2>1. Begin(c, b) /\ resource = "secret"
    BY <1>2 DEF Create
  <2>2. b.op = "Keys.Create" /\ [b EXCEPT !.call = calls'].call = calls'
        /\ [b EXCEPT !.call = calls'].op = b.op
    BY DEF NoBody
  <2> HIDE DEF b
  <2> QED
    BY <1>1, <2>1, <2>2
<1>3. CASE RefreshPlan(c)
  <2> DEFINE b == [NoBody EXCEPT !.op = "Accounts.RefreshPlan", !.base = version]
  <2>1. Begin(c, b) /\ resource = "plan"
    BY <1>3 DEF RefreshPlan
  <2>2. b.op = "Accounts.RefreshPlan" /\ [b EXCEPT !.call = calls'].call = calls'
        /\ [b EXCEPT !.call = calls'].op = b.op
    BY DEF NoBody
  <2> HIDE DEF b
  <2> QED
    BY <1>1, <2>1, <2>2
<1>4. ASSUME NEW r \in Realms, StartAuth(c, r)
      PROVE \E b : /\ Begin(c, b)
                   /\ body'[c].call = calls' /\ body'[c].op = b.op
                   /\ Begun(body'[c]) /\ b.op = "Accounts.StartAuth"
                   /\ resource = "scan"
  <2> DEFINE b == [NoBody EXCEPT !.op = "Accounts.StartAuth",
                                 !.realm = effectiveRealm(r), !.arg = r]
             x == [b EXCEPT !.call = calls']
  <2>1. Begin(c, b) /\ resource = "scan"
    BY <1>4 DEF StartAuth
  <2>2. /\ b.op = "Accounts.StartAuth" /\ x.call = calls' /\ x.op = b.op
        /\ x.realm = effectiveRealm(r) /\ x.arg = r
    BY DEF NoBody
  <2>3. effectiveRealm(r) \in {"cn", "global"} /\ (r # "any" => effectiveRealm(r) = r)
    BY DEF effectiveRealm, Realms
  <2>4. body'[c] = x
    BY <1>1, <2>1
  <2> HIDE DEF b, x
  <2> QED
    BY <2>1, <2>2, <2>3, <2>4 DEF Begun
<1>5. ASSUME NEW r \in Realms, PollAuth(c, r)
      PROVE \E b : /\ Begin(c, b)
                   /\ body'[c].call = calls' /\ body'[c].op = b.op
                   /\ Polls(body'[c]) /\ b.op = "Accounts.PollAuth"
                   /\ resource = "scan"
  <2> DEFINE b == [NoBody EXCEPT !.op = "Accounts.PollAuth", !.realm = r, !.arg = r]
             x == [b EXCEPT !.call = calls']
  <2>1. Begin(c, b) /\ resource = "scan"
    BY <1>5 DEF PollAuth
  <2>2. /\ b.op = "Accounts.PollAuth" /\ x.call = calls' /\ x.op = b.op
        /\ x.realm = r /\ x.arg = r
    BY DEF NoBody
  <2>3. body'[c] = x
    BY <1>1, <2>1
  <2> HIDE DEF b, x
  <2> QED
    BY <2>1, <2>2, <2>3 DEF Polls
<1>6. ASSUME NEW f \in Fields, NEW v \in Values, SaveRefreshPlan(c, f, v)
      PROVE \E b : /\ Begin(c, b)
                   /\ body'[c].call = calls' /\ body'[c].op = b.op
                   /\ b.op = "Accounts.SaveRefreshPlan" /\ resource = "plan"
  <2> DEFINE in == [copy[c].document EXCEPT ![f] = v]
             b == [NoBody EXCEPT !.op = "Accounts.SaveRefreshPlan",
                                 !.fields = PlanJSON(in), !.in = in,
                                 !.edits = {f}, !.base = copy[c].base]
             x == [b EXCEPT !.call = calls']
  <2>1. Begin(c, b) /\ resource = "plan"
    BY <1>6 DEF SaveRefreshPlan
  <2>2. b.op = "Accounts.SaveRefreshPlan" /\ x.call = calls' /\ x.op = b.op
    BY DEF NoBody
  <2>3. body'[c] = x
    BY <1>1, <2>1
  <2> HIDE DEF b, x
  <2> QED
    BY <2>1, <2>2, <2>3
<1>7. ASSUME NEW p \in Patches, Update(c, p)
      PROVE \E b : /\ Begin(c, b)
                   /\ body'[c].call = calls' /\ body'[c].op = b.op
                   /\ b.op = "Keys.Update" /\ resource = "key"
  <2> DEFINE b == [NoBody EXCEPT !.op = "Keys.Update", !.fields = PatchJSON(p),
                                 !.in = p, !.edits = Given(p)]
             x == [b EXCEPT !.call = calls']
  <2>1. Begin(c, b) /\ resource = "key"
    BY <1>7 DEF Update
  <2>2. b.op = "Keys.Update" /\ x.call = calls' /\ x.op = b.op
    BY DEF NoBody
  <2>3. body'[c] = x
    BY <1>1, <2>1
  <2> HIDE DEF b, x
  <2> QED
    BY <2>1, <2>2, <2>3
<1> QED
  BY <1>2, <1>3, <1>4, <1>5, <1>6, <1>7 DEF Begins

RealmInv ==
    /\ realm \in Realms
    /\ \A c \in Callers :
          /\ body[c].op = "Accounts.StartAuth" => Begun(body[c])
          /\ body[c].op = "Accounts.PollAuth" => Polls(body[c])
          /\ scan[c] # NoScan => Begun(scan[c])
          /\ reply[c].said # "none" => reply[c].realm = ServerRealm(body[c].realm)

(* A client has a default realm, or none, and no scan yet.                 *)
LEMMA RealmInvInit == Init => RealmInv
<1> SUFFICES ASSUME Init PROVE RealmInv
  OBVIOUS
<1>1. /\ realm \in Realms
      /\ \A c \in Callers : body[c] = NoBody /\ scan[c] = NoScan /\ reply[c] = NoReply
  BY DEF Init, Realms
<1> QED
  BY <1>1 DEF RealmInv, NoBody, NoReply

(* Each step keeps scans and polls in their realms.                        *)
LEMMA RealmInvStep == RealmInv /\ CallType /\ [Next]_vars => RealmInv'
<1> SUFFICES ASSUME RealmInv, CallType, [Next]_vars PROVE RealmInv'
  OBVIOUS
<1> USE DEF Begun, Polls
<1>1. ASSUME NEW c \in Callers, Begins(c) PROVE RealmInv'
  <2>1. PICK b : /\ Begin(c, b)
                 /\ body'[c].op = b.op
                 /\ b.op = "Accounts.StartAuth" => Begun(body'[c])
                 /\ b.op = "Accounts.PollAuth" => Polls(body'[c])
    BY <1>1, RequestSays DEF RealmInv
  <2>2. /\ UNCHANGED <<realm, scan, reply>> /\ \A d \in Callers \ {c} : body'[d] = body[d]
        /\ reply[c].said = "none"
    BY <2>1, BeginCall DEF CallType
  <2> QED
    BY <2>1, <2>2 DEF RealmInv
<1>2. ASSUME NEW c \in Callers, Finish(c) PROVE RealmInv'
  <2>1. /\ UNCHANGED realm
        /\ body'[c] = NoBody /\ \A d \in Callers \ {c} : body'[d] = body[d]
        /\ reply'[c] = NoReply /\ \A d \in Callers \ {c} : reply'[d] = reply[d]
    BY <1>2 DEF Finish, CallType
  <2>2. /\ \A d \in Callers \ {c} : scan'[d] = scan[d]
        /\ \/ scan'[c] = scan[c]
           \/ /\ scan'[c] = [arg |-> body[c].arg, realm |-> reply[c].realm]
              /\ body[c].op = "Accounts.StartAuth" /\ reply[c].said = "ok"
    BY <1>2 DEF Finish, Succeeds, CallType
  <2>3. body[c].op = "Accounts.StartAuth" /\ reply[c].said = "ok" =>
           reply[c].realm = body[c].realm /\ Begun(body[c])
    BY DEF RealmInv, ServerRealm
  <2>4. scan'[c] # NoScan => Begun(scan'[c])
    BY <2>2, <2>3 DEF RealmInv
  <2>5. NoBody.op = "none" /\ NoReply.said = "none"
    BY DEF NoBody, NoReply
  <2> QED
    BY <2>1, <2>2, <2>4, <2>5 DEF RealmInv
<1>3. ASSUME NEW r \in Realms, SetRealm(r) PROVE RealmInv'
  BY <1>3 DEF SetRealm, callVars, RealmInv
<1>4. CASE UNCHANGED vars
  BY <1>4 DEF vars, callVars, clientVars, RealmInv
<1>5. ASSUME NEW c \in Callers, FirstRequest(c) \/ Send(c) \/ Close(c) PROVE RealmInv'
  BY <1>5 DEF FirstRequest, Send, Close, callVars, clientVars, RealmInv
<1>6. ASSUME NEW b, Handle(b),
             \A c \in Callers : \/ reply'[c] = reply[c]
                                \/ reply'[c].realm = ServerRealm(body[c].realm)
      PROVE  RealmInv'
  <2>1. UNCHANGED <<realm, body, scan>>
    BY <1>6 DEF Handle, clientVars
  <2> QED
    BY <1>6, <2>1 DEF RealmInv
<1>7. ASSUME NEW c \in Callers, Serve(c) PROVE RealmInv'
  <2>1. Handle(body[c]) /\ \A d \in Callers :
           reply'[d] = reply[d] \/ reply'[d].realm = ServerRealm(body[d].realm)
    BY <1>7 DEF Serve, CallType
  <2> QED
    BY <1>6, <2>1
<1>8. ASSUME NEW b \in late, ServeLate(b) PROVE RealmInv'
  BY <1>6, <1>8 DEF ServeLate
<1> QED
  BY <1>1, <1>2, <1>3, <1>4, <1>5, <1>7, <1>8 DEF Next, Begins

(* However often the default realm changes, the server reads scan and poll *)
(* as of one realm when their caller gave both the same one, but for the   *)
(* empty one and a default "global" as the scan began                      *)
(* (src/admin_accounts.go:20-28, 40-64).                                   *)
THEOREM ScansArePolledInTheirRealm == Spec => []PollFitsScan
<1>1. ASSUME RealmInv, NEW c \in Callers,
             body[c].op = "Accounts.PollAuth", reply[c].said = "ok",
             body[c].arg = scan[c].arg, reply[c].realm # scan[c].realm
      PROVE  body[c].arg = "any" /\ scan[c].realm = "global"
  <2>1. reply[c].realm = ServerRealm(body[c].arg) /\ body[c].arg \in Realms
    BY <1>1 DEF RealmInv, Polls
  <2>2. scan[c] # NoScan
    BY <1>1, <2>1 DEF NoScan, Realms
  <2>3. Begun(scan[c])
    BY <1>1, <2>2 DEF RealmInv
  <2> QED
    BY <1>1, <2>1, <2>3 DEF Begun, ServerRealm
<1>2. RealmInv => PollFitsScan
  BY <1>1 DEF PollFitsScan
<1> QED
  BY <1>2, CallTypeInit, CallTypeStep, RealmInvInit, RealmInvStep, PTL DEF Spec

-----------------------------------------------------------------------------
(* Types, and the secrets                                                  *)

(* Calls are numbered; who builds the http.Client is about to send.        *)
CountInv ==
    /\ resource \in Resources
    /\ calls \in 0..MaxCalls[resource]
    /\ IsFiniteSet(created)
    /\ known \subseteq Nat
    /\ acknowledged \subseteq 1..calls
    /\ \A c \in building : at[c] = "client"
    /\ \A c \in Callers : /\ at[c] # "idle" => body[c].call \in 1..calls
                          /\ reply[c].said # "none" => reply[c].secret \in Nat

(* Nothing has been called.                                                *)
LEMMA CountInvInit == Init => CountInv
<1> SUFFICES ASSUME Init PROVE CountInv
  OBVIOUS
<1>1. MaxCalls[resource] \in Nat /\ resource \in Resources
  BY ManagementAssumption DEF Init
<1>2. IsFiniteSet(created)
  BY FS_EmptySet DEF Init
<1> QED
  BY <1>1, <1>2 DEF Init, LazyInit, CountInv, NoReply

(* A created object has the next secret.                                   *)
LEMMA HandleCreates ==
  ASSUME IsFiniteSet(created), NEW b, Handle(b)
  PROVE  /\ IsFiniteSet(created') /\ Cardinality(created') \in Nat
         /\ b.op # "Keys.Create" => created' = created
         /\ b.op = "Keys.Create" =>
               LET o == [call |-> b.call, secret |-> Cardinality(created) + 1]
               IN  /\ created' = created \cup {o}
                   /\ o \notin created => Cardinality(created') = Cardinality(created) + 1
<1>1. created' = IF b.op # "Keys.Create" THEN created
                 ELSE created \cup {[call |-> b.call, secret |-> Cardinality(created) + 1]}
  BY DEF Handle
<1>2. ASSUME NEW o PROVE /\ IsFiniteSet(created \cup {o})
                         /\ o \notin created =>
                               Cardinality(created \cup {o}) = Cardinality(created) + 1
  BY FS_AddElement
<1>3. IsFiniteSet(created')
  BY <1>1, <1>2
<1> QED
  BY <1>1, <1>2, <1>3, FS_CardinalityType

(* Each step keeps the numbers in their ranges.                            *)
LEMMA CountInvStep ==
  CountInv /\ LazyInv /\ RealmInv /\ CallType /\ [Next]_vars => CountInv'
<1> SUFFICES ASSUME CountInv, LazyInv, RealmInv, CallType, [Next]_vars PROVE CountInv'
  OBVIOUS
<1>0. /\ MaxCalls[resource] \in Nat /\ calls \in Nat
      /\ building \subseteq Callers
  BY ManagementAssumption DEF CountInv, LazyInv, LazyTypeOK
<1>1. ASSUME NEW c \in Callers, Begins(c) PROVE CountInv'
  <2>1. PICK b : Begin(c, b) /\ body'[c].call = calls'
    BY <1>1, RequestSays DEF RealmInv
  <2>2. /\ calls' = calls + 1 /\ calls < MaxCalls[resource]
        /\ UNCHANGED <<resource, created, known, acknowledged, building, reply>>
        /\ at[c] = "idle" /\ at' = [at EXCEPT ![c] = "client"]
        /\ \A d \in Callers \ {c} : body'[d] = body[d]
    <3>1. Begin(c, b) /\ UNCHANGED building
      BY <2>1 DEF Begin, httpVars
    <3>2. calls < MaxCalls[resource] /\ at' = [at EXCEPT ![c] = "client"]
      BY <2>1 DEF Begin
    <3> QED
      BY <3>1, <3>2, BeginCall DEF CallType, serverVars, historyVars
  <2>3. \A d \in Callers : at'[d] # "idle" => body'[d].call \in 1..calls'
    BY <1>0, <2>1, <2>2 DEF CountInv, CallType
  <2> QED
    BY <1>0, <2>2, <2>3 DEF CountInv, CallType
<1>2. ASSUME NEW c \in Callers, Finish(c) PROVE CountInv'
  <2>1. /\ UNCHANGED <<resource, calls, created, building>> /\ c \notin building
        /\ at[c] # "idle" /\ at' = [at EXCEPT ![c] = "idle"]
        /\ body' = [body EXCEPT ![c] = NoBody] /\ reply' = [reply EXCEPT ![c] = NoReply]
        /\ known' \subseteq known \cup {reply[c].secret}
        /\ known' # known => answer'[c] = "ok"
        /\ acknowledged' \subseteq acknowledged \cup {body[c].call}
        /\ answer'[c] = "ok" => reply[c].said = "ok"
    BY <1>2 DEF Finish, Succeeds, httpVars, serverVars
  <2>2. known' \subseteq Nat /\ acknowledged' \subseteq 1..calls
    BY <2>1 DEF CountInv
  <2>3. \A d \in Callers : /\ at'[d] # "idle" => d # c /\ body'[d] = body[d]
                           /\ reply'[d].said # "none" => d # c /\ reply'[d] = reply[d]
    BY <2>1 DEF CallType, NoReply
  <2> QED
    BY <1>0, <2>1, <2>2, <2>3 DEF CountInv, CallType
<1>3. ASSUME NEW c \in Callers, FirstRequest(c) \/ Close(c) PROVE CountInv'
  BY <1>3 DEF FirstRequest, Close, Enter, CloseIdleConnections, callVars, serverVars,
              historyVars, CountInv
<1>4. ASSUME NEW c \in Callers, Send(c) PROVE CountInv'
  <2>1. /\ UNCHANGED <<resource, calls, body, reply, created, known, acknowledged>>
        /\ at[c] = "client" /\ at' = [at EXCEPT ![c] = "sent"]
        /\ building' \subseteq building \ {c}
    BY <1>4 DEF Send, httpClient, Build, Reuse, serverVars, historyVars
  <2> QED
    BY <1>0, <2>1 DEF CountInv, CallType
<1>5. ASSUME NEW c \in Callers, Serve(c) PROVE CountInv'
  <2>1. /\ Handle(body[c])
        /\ UNCHANGED <<resource, calls, at, body, building, known, acknowledged>>
    BY <1>5 DEF Serve, Handle, httpVars
  <2>2. /\ reply'[c].secret = Cardinality(created')
        /\ \A d \in Callers \ {c} : reply'[d] = reply[d]
    BY <1>5 DEF Serve, CallType
  <2>3. IsFiniteSet(created') /\ Cardinality(created') \in Nat
    BY <2>1, HandleCreates DEF CountInv
  <2> QED
    BY <2>1, <2>2, <2>3 DEF CountInv
<1>6. ASSUME NEW b \in late, ServeLate(b) PROVE CountInv'
  <2>1. /\ Handle(b)
        /\ UNCHANGED <<resource, calls, at, body, reply, building, known, acknowledged>>
    BY <1>6 DEF ServeLate, Handle, httpVars
  <2>2. IsFiniteSet(created')
    BY <2>1, HandleCreates DEF CountInv
  <2> QED
    BY <2>1, <2>2 DEF CountInv
<1>7. CASE UNCHANGED vars
  BY <1>7 DEF vars, httpVars, callVars, serverVars, historyVars, CountInv
<1>8. ASSUME NEW r \in Realms, SetRealm(r) PROVE CountInv'
  BY <1>8 DEF SetRealm, httpVars, callVars, serverVars, historyVars, CountInv
<1> QED
  BY <1>1, <1>2, <1>3, <1>4, <1>5, <1>6, <1>7, <1>8 DEF Next, Begins

(* All that the invariants above say together.                             *)
AllInv == CallType /\ DocInv /\ KeptInv /\ LazyInv /\ RealmInv /\ CountInv

(* All of it, in every reachable state.                                    *)
LEMMA AllInvariant == Spec => []AllInv
<1>1. Init => AllInv
  BY CallTypeInit, DocInvInit, KeptInvInit, LazyInvInit, RealmInvInit, CountInvInit DEF AllInv, Init
<1>2. AllInv /\ [Next]_vars => AllInv'
  <2> SUFFICES ASSUME AllInv, [Next]_vars PROVE AllInv'
    OBVIOUS
  <2>1. CallType' /\ LazyInv'
    BY CallTypeStep, LazyInvStep, StepUsesLazyClient DEF AllInv
  <2>2. DocInv' /\ KeptInv' /\ RealmInv' /\ CountInv'
    BY <2>1, DocInvStep, KeptInvStep, RealmInvStep, CountInvStep DEF AllInv
  <2> QED
    BY <2>1, <2>2 DEF AllInv
<1> QED
  BY <1>1, <1>2, PTL DEF Spec

(* Every variable of the services keeps its type.                          *)
THEOREM ManagementTypes == Spec => []TypeOK
<1>1. AllInv => TypeOK
  BY DEF AllInv, TypeOK, CallType, DocInv, DocType, KeptInv, LazyInv, RealmInv, CountInv
<1> QED
  BY <1>1, AllInvariant, PTL

(* c's Create was executed once, and then its reply has the secret, or not *)
(* yet.                                                                    *)
Pending(c) ==
    /\ body[c].op = "Keys.Create" /\ kind[c] = "write"
    /\ body[c].call \notin acknowledged
    /\ runs[c] = 0 => /\ \A o \in created : o.call # body[c].call
                      /\ reply[c].said = "none"
    /\ runs[c] > 0 => \E o \in created : /\ o.call = body[c].call
                                         /\ o.secret = reply[c].secret

(* The calls under way, those that gave up on a request that may still     *)
(* come, and those that were acknowledged are different calls; no call     *)
(* makes two objects.                                                      *)
SecretInv == resource = "secret" =>
    /\ \A o, p \in created : o.call = p.call => o = p
    /\ \A o \in created : o.call \in 1..calls
    /\ \A c \in Callers : at[c] # "idle" => Pending(c)
    /\ \A c, d \in Callers :
          at[c] # "idle" /\ at[d] # "idle" /\ body[c].call = body[d].call => c = d
    /\ \A b \in late :
          /\ b.op = "Keys.Create" /\ b.call \in 1..calls /\ b.call \notin acknowledged
          /\ \A o \in created : o.call # b.call
          /\ \A c \in Callers : at[c] # "idle" => body[c].call # b.call
    /\ \A b, d \in late : b.call = d.call => b = d
    /\ \A n \in acknowledged : \E o \in created : o.call = n /\ o.secret \in known

(* Nothing has been created.                                               *)
LEMMA SecretInvInit == Init => SecretInv
  BY DEF Init, SecretInv

(* A Create takes a number that nobody has.                                *)
LEMMA SecretBegins ==
  ASSUME AllInv, SecretInv, resource = "secret", NEW c \in Callers, Begins(c)
  PROVE  SecretInv'
<1>0. calls \in Nat /\ acknowledged \subseteq 1..calls /\ calls + 1 \notin 1..calls
  BY ManagementAssumption DEF AllInv, CountInv
<1>1. PICK b : /\ Begin(c, b)
               /\ body'[c].call = calls' /\ body'[c].op = b.op
               /\ b.op = "Keys.Create" <=> resource = "secret"
  BY <1>0, RequestSays DEF AllInv, RealmInv
<1>2. /\ calls' = calls + 1
      /\ UNCHANGED <<created, known, acknowledged, late, reply>>
      /\ at[c] = "idle" /\ runs'[c] = 0 /\ kind'[c] = "write"
      /\ body'[c].call = calls + 1 /\ body'[c].op = "Keys.Create"
      /\ reply[c].said = "none"
  BY <1>1, BeginCall, CreateIsPost DEF AllInv, CallType, serverVars, historyVars
<1>3. \A d \in Callers \ {c} : /\ body'[d] = body[d] /\ at'[d] = at[d]
                               /\ kind'[d] = kind[d] /\ runs'[d] = runs[d]
  BY <1>1, BeginCall DEF AllInv, CallType
<1>4. \A o \in created : o.call # calls + 1
  BY <1>0 DEF SecretInv
<1>5. Pending(c)'
  BY <1>0, <1>2, <1>4 DEF Pending
<1>6. \A d \in Callers \ {c} : at'[d] # "idle" => Pending(d)'
  BY <1>2, <1>3 DEF SecretInv, Pending
<1>7. \A d \in Callers \ {c} : at'[d] # "idle" => body'[d].call # calls + 1
  BY <1>0, <1>3 DEF AllInv, CountInv
<1>8. \A d \in late : d.call # calls + 1
  BY <1>0 DEF SecretInv
<1>9. 1..calls \subseteq 1..calls'
  BY <1>0, <1>2
<1> QED
  BY <1>2, <1>3, <1>5, <1>6, <1>7, <1>8, <1>9 DEF SecretInv

(* The server creates the object of a call under way, which has none yet.  *)
LEMMA SecretServed ==
  ASSUME AllInv, SecretInv, resource = "secret", NEW c \in Callers, Serve(c)
  PROVE  SecretInv'
<1>1. /\ Execute(c) /\ Handle(body[c]) /\ at[c] = "sent"
      /\ UNCHANGED <<late, at, body, calls, known, acknowledged, kind>>
      /\ reply'[c].secret = Cardinality(created')
      /\ \A d \in Callers \ {c} : reply'[d] = reply[d]
  BY DEF Serve, Execute, Handle, AllInv, CallType
<1>2. Pending(c)
  BY <1>1 DEF SecretInv
<1>3. runs[c] = 0 /\ runs' = [runs EXCEPT ![c] = 1]
  <2>1. runs[c] \in Nat
    BY DEF AllInv, CallType
  <2>2. runs[c] < 1 /\ runs' = [runs EXCEPT ![c] = runs[c] + 1]
    BY <1>1, <1>2 DEF Execute, Limit, Pending
  <2>3. runs[c] = 0
    BY <2>1, <2>2
  <2> QED
    BY <2>2, <2>3
<1>4. PICK o : /\ o = [call |-> body[c].call, secret |-> Cardinality(created) + 1]
               /\ created' = created \cup {o}
               /\ o \notin created => Cardinality(created') = Cardinality(created) + 1
  BY <1>1, <1>2, HandleCreates DEF Pending, AllInv, CountInv
<1>5. o.call = body[c].call /\ o.secret = Cardinality(created) + 1
  BY <1>4
<1>6. \A p \in created : p.call # body[c].call
  BY <1>2, <1>3 DEF Pending
<1>7. o.secret = reply'[c].secret
  BY <1>1, <1>4, <1>5, <1>6
<1>8. Pending(c)'
  BY <1>1, <1>2, <1>3, <1>4, <1>5, <1>7 DEF Pending, AllInv, CallType
<1>9. \A d \in Callers \ {c} : at[d] # "idle" => body[d].call # body[c].call
  BY <1>1 DEF SecretInv
<1>10. \A d \in Callers \ {c} : at[d] # "idle" => Pending(d)'
  BY <1>1, <1>3, <1>4, <1>5, <1>9 DEF SecretInv, Pending, AllInv, CallType
<1>11. body[c].call \in 1..calls
  BY <1>1 DEF AllInv, CountInv
<1>12. \A b \in late : b.call # body[c].call
  BY <1>1 DEF SecretInv
<1> QED
  BY <1>1, <1>4, <1>5, <1>6, <1>8, <1>10, <1>11, <1>12 DEF SecretInv

(* A request that comes late creates the object of a call that returned an *)
(* error.                                                                  *)
LEMMA SecretServedLate ==
  ASSUME AllInv, SecretInv, resource = "secret", NEW b \in late, ServeLate(b)
  PROVE  SecretInv'
<1>1. /\ Handle(b) /\ late' = late \ {b}
      /\ UNCHANGED <<at, body, calls, known, acknowledged, kind, runs, reply>>
  BY DEF ServeLate, Handle, callsVars
<1>2. /\ b.op = "Keys.Create" /\ b.call \in 1..calls /\ b.call \notin acknowledged
      /\ \A o \in created : o.call # b.call
      /\ \A c \in Callers : at[c] # "idle" => body[c].call # b.call
      /\ \A d \in late' : d.call # b.call
  BY <1>1 DEF SecretInv
<1>3. PICK o : /\ o = [call |-> b.call, secret |-> Cardinality(created) + 1]
               /\ created' = created \cup {o}
  BY <1>1, <1>2, HandleCreates DEF AllInv, CountInv
<1>4. o.call = b.call
  BY <1>3
<1>5. \A c \in Callers : at[c] # "idle" => Pending(c)'
  BY <1>1, <1>2, <1>3, <1>4 DEF SecretInv, Pending
<1> QED
  BY <1>1, <1>2, <1>3, <1>4, <1>5 DEF SecretInv

(* A call returns: with the secret, or with an error and perhaps a request *)
(* on its way.                                                             *)
LEMMA SecretReturned ==
  ASSUME AllInv, SecretInv, resource = "secret", NEW c \in Callers, Finish(c)
  PROVE  SecretInv'
<1>1. /\ UNCHANGED <<created, calls, runs>> /\ at[c] # "idle"
      /\ at' = [at EXCEPT ![c] = "idle"]
      /\ kind' = [kind EXCEPT ![c] = "none"]
      /\ body' = [body EXCEPT ![c] = NoBody] /\ reply' = [reply EXCEPT ![c] = NoReply]
  BY DEF Finish, Return, serverVars
<1>2. Pending(c) /\ body[c].call \in 1..calls
  BY <1>1 DEF SecretInv, AllInv, CountInv
<1>3. \A d \in Callers : at'[d] # "idle" =>
         /\ d # c /\ at[d] # "idle" /\ body'[d] = body[d] /\ kind'[d] = kind[d]
         /\ reply'[d] = reply[d] /\ body[d].call # body[c].call
  BY <1>1 DEF SecretInv, AllInv, CallType
<1>4. CASE answer'[c] = "ok"
  <2>1. /\ known' = known \cup {reply[c].secret}
        /\ acknowledged' = acknowledged \cup {body[c].call}
        /\ late' = late
    BY <1>2, <1>4 DEF Finish, Succeeds, Pending
  <2>2. \E a \in Answers : Honest(c, a) /\ answer' = [answer EXCEPT ![c] = a]
    BY DEF Finish, Return
  <2>3. answer'[c] = reply[c].said
    BY <1>4 DEF Finish
  <2>4. runs[c] > 0
    BY <1>2, <1>4, <2>3 DEF Pending, AllInv, CallType
  <2>5. PICK o \in created : o.call = body[c].call /\ o.secret = reply[c].secret
    BY <1>2, <2>4 DEF Pending
  <2>6. \A n \in acknowledged' : \E p \in created : p.call = n /\ p.secret \in known'
    BY <2>1, <2>5 DEF SecretInv
  <2>7. \A d \in Callers : at'[d] # "idle" => Pending(d)'
    BY <1>1, <1>3, <2>1 DEF SecretInv, Pending
  <2>8. \A b \in late : b.call # body[c].call
    BY <1>1 DEF SecretInv
  <2> QED
    BY <1>1, <1>3, <2>1, <2>6, <2>7, <2>8 DEF SecretInv
<1>5. CASE answer'[c] # "ok"
  <2>1. /\ UNCHANGED <<known, acknowledged>>
        /\ late' = late \/ (late' = late \cup {body[c]} /\ runs[c] = 0)
    BY <1>5 DEF Finish, Succeeds, Underway
  <2>2. \A d \in Callers : at'[d] # "idle" => Pending(d)'
    BY <1>1, <1>3, <2>1 DEF SecretInv, Pending
  <2>3. \A b \in late : b.call # body[c].call
    BY <1>1 DEF SecretInv
  <2>4. runs[c] = 0 => /\ body[c].op = "Keys.Create"
                       /\ body[c].call \notin acknowledged
                       /\ \A o \in created : o.call # body[c].call
    BY <1>2 DEF Pending
  <2>5. \A b \in late' :
          /\ b.op = "Keys.Create" /\ b.call \in 1..calls /\ b.call \notin acknowledged
          /\ \A o \in created : o.call # b.call
          /\ \A d \in Callers : at'[d] # "idle" => body'[d].call # b.call
    BY <1>2, <1>3, <2>1, <2>4 DEF SecretInv
  <2>6. \A b, d \in late' : b.call = d.call => b = d
    BY <2>1, <2>3 DEF SecretInv
  <2> QED
    BY <1>1, <1>3, <2>1, <2>2, <2>5, <2>6 DEF SecretInv
<1> QED
  BY <1>4, <1>5

(* Each step keeps account of the secrets.                                 *)
LEMMA SecretInvStep == AllInv /\ SecretInv /\ [Next]_vars => SecretInv'
<1> SUFFICES ASSUME AllInv, SecretInv, [Next]_vars, resource' = "secret" PROVE SecretInv'
  BY DEF SecretInv
<1>1. resource = "secret"
  <2>1. ASSUME NEW c \in Callers, NEW b, Begin(c, b) PROVE UNCHANGED resource
    BY <2>1, BeginCall DEF AllInv
  <2>2. ASSUME NEW b, Handle(b) PROVE UNCHANGED resource
    BY <2>2 DEF Handle
  <2> QED
    BY <2>1, <2>2
       DEF Next, vars, callVars, Create, StartAuth, PollAuth, SetRealm, RefreshPlan,
           SaveRefreshPlan, Update, FirstRequest, Send, Close, Serve, ServeLate, Finish
<1>2. ASSUME UNCHANGED <<calls, body, reply, late, kind, runs, created, known, acknowledged>>,
             \A c \in Callers : (at'[c] = "idle") <=> (at[c] = "idle")
      PROVE  SecretInv'
  BY <1>1, <1>2 DEF SecretInv, Pending
<1>3. ASSUME NEW c \in Callers, FirstRequest(c) \/ Send(c) \/ Close(c) PROVE SecretInv'
  BY <1>2, <1>3
     DEF FirstRequest, Send, Close, callsVars, callVars, serverVars, historyVars,
         AllInv, CallType
<1>4. CASE UNCHANGED vars
  BY <1>2, <1>4 DEF vars, callsVars, callVars, serverVars, historyVars
<1>5. ASSUME NEW r \in Realms, SetRealm(r) PROVE SecretInv'
  BY <1>2, <1>5 DEF SetRealm, callsVars, callVars, serverVars, historyVars
<1> QED
  BY <1>1, <1>3, <1>4, <1>5, SecretBegins, SecretServed, SecretServedLate, SecretReturned
     DEF Next, Begins

(* However many callers create, and though answers are lost and requests   *)
(* come late, a call that returns a secret has made one object, and an     *)
(* object whose secret nobody has is that of a call that told so.          *)
THEOREM NoSecretIsLostInSilence == Spec => []NoSilentOrphan
<1>1. SecretInv => NoSilentOrphan
  <2> SUFFICES ASSUME SecretInv, resource = "secret", NEW n \in acknowledged
               PROVE  LET Made == {o \in created : o.call = n}
                      IN Cardinality(Made) = 1 /\ \A o \in Made : o.secret \in known
    BY DEF NoSilentOrphan
  <2>1. PICK o \in created : o.call = n /\ o.secret \in known
    BY DEF SecretInv
  <2>2. {p \in created : p.call = n} = {o}
    BY <2>1 DEF SecretInv
  <2> QED
    BY <2>1, <2>2, FS_Singleton
<1> QED
  BY <1>1, AllInvariant, SecretInvInit, SecretInvStep, PTL DEF Spec

=============================================================================
