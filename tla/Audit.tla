------------------------------- MODULE Audit -------------------------------
(***************************************************************************)
(* The endpoint audit (src/scripts/audit_endpoints.py), which the release  *)
(* check runs: it compares the endpoints that the server's routers declare *)
(* with the path literals in the SDK's source, segment by segment.  Here   *)
(* the SDK is a set of calls of Endpoints, and its literals are what its   *)
(* Go source spells: the path of a call without a parameter, the part      *)
(* before and the part after the parameter otherwise.  The server's        *)
(* routers are external: they declare what they like.                      *)
(***************************************************************************)
EXTENDS Naturals, Endpoints, SequencesExt

CONSTANTS Foreign,          \* endpoints the server may have besides the SDK's
          Dropped           \* calls that a release may lack

ASSUME AuditAssumption == Foreign \subseteq Seq(STRING) /\ Dropped \subseteq API

(* Literals that classify paths, in the order of src/transport.go:117-131, *)
(* and the two that belong to no call of a service.                        *)
NOISE == {<<>>, <<"api">>, <<"v1">>, <<"v2">>, <<"responses">>}
OtherLiterals == {<<"api", "claim">>, <<"api", "login">>}

KNOWN_ALIASES == {<<"v2", "chat", "completions">>, <<"responses">>}

-----------------------------------------------------------------------------
is_param(s) == s \in Parameters

(* How the Go source spells a path: "prefix/" + escaped value + "/tail".   *)
Spelled(path) ==
    LET At == {i \in DOMAIN path : is_param(path[i])}
    IN IF At = {} THEN {path}
       ELSE LET i == CHOOSE i \in At : TRUE
            IN {SubSeq(path, 1, i - 1), SubSeq(path, i + 1, Len(path))}

collect_sdk_literals(calls) ==
    ((UNION {Spelled(r.path) : r \in calls}) \cup OtherLiterals) \ NOISE

(* Variant: a run is not closed when the next parameter comes.             *)
ScanSegmentOpen(state, s) ==
    IF is_param(s) THEN [state EXCEPT !.seen_param = TRUE]
    ELSE IF state.seen_param THEN [state EXCEPT !.run = Append(@, s)]
    ELSE [state EXCEPT !.prefix = Append(@, s)]

(* The loop of split_endpoint, one segment at a time.                      *)
ScanSegment(state, s) ==
    IF is_param(s)
    THEN [state EXCEPT
            !.runs = IF state.seen_param /\ state.run # <<>>
                     THEN Append(@, state.run) ELSE @,
            !.run = <<>>,
            !.seen_param = TRUE]
    ELSE IF state.seen_param THEN [state EXCEPT !.run = Append(@, s)]
    ELSE [state EXCEPT !.prefix = Append(@, s)]

BeforeScan == [prefix |-> <<>>, runs |-> <<>>, seen_param |-> FALSE, run |-> <<>>]

(* What the loop has found after so many segments.                         *)
scan(path) ==
    LET after[i \in 0..Len(path)] ==
            IF i = 0 THEN BeforeScan ELSE ScanSegment(after[i - 1], path[i])
    IN after

split_endpoint(path) ==
    LET end == scan(path)[Len(path)]
    IN [prefix |-> end.prefix,
        runs |-> IF end.run = <<>> THEN end.runs ELSE Append(end.runs, end.run)]

(* Variant: the second rule, a literal that starts with the prefix.        *)
missing_reasonsPrefix(path, lits) ==
    LET parts == split_endpoint(path)
    IN {p \in {parts.prefix} \ {<<>>} : ~\E l \in lits : IsPrefix(p, l)} \cup
       (ToSet(parts.runs) \ lits)

(* Variant: the whole path has to be spelled, parameters and all.          *)
missing_reasonsWhole(path, lits) == {path} \ lits

(* What an endpoint lacks: its static prefix, or a run behind a parameter. *)
missing_reasons(path, lits) ==
    LET parts == split_endpoint(path)
    IN ((({parts.prefix} \ {<<>>}) \cup ToSet(parts.runs)) \ lits)

-----------------------------------------------------------------------------
VARIABLES sdk,          \* the calls this release of the SDK has
          lits,         \* the literals collected from its source
          upstream,     \* the endpoint the audit is at
          lacks         \* the literals it lacks; {} when it is covered
vars == <<sdk, lits, upstream, lacks>>

Declared == {r.path : r \in API} \cup Foreign

Init ==
    /\ sdk = API
    /\ lits = collect_sdk_literals(API)
    /\ upstream = <<>>
    /\ lacks = {}

(* Another release, which may lack a call.                                 *)
Release ==
    /\ upstream = <<>>
    /\ sdk' \in {API} \cup {API \ {r} : r \in Dropped}
    /\ lits' = collect_sdk_literals(sdk')
    /\ UNCHANGED <<upstream, lacks>>

(* One of the endpoints that the routers declare; what the audit says of   *)
(* it does not depend on the others.                                       *)
Compare ==
    /\ upstream = <<>>
    /\ \E path \in Declared :
          /\ upstream' = path
          /\ lacks' = missing_reasons(path, lits)
    /\ UNCHANGED <<sdk, lits>>

(* The audit ends; its exit code has said what it found.                   *)
Return ==
    /\ upstream # <<>>
    /\ upstream' = <<>>
    /\ lacks' = {}
    /\ UNCHANGED <<sdk, lits>>

(* What makes the exit code 1.                                             *)
unexpected == lacks # {} /\ upstream \notin KNOWN_ALIASES

Next == Release \/ Compare \/ Return

Spec == Init /\ [][Next]_vars

-----------------------------------------------------------------------------
(* Properties                                                              *)

(* The same endpoint, whatever its parameters are called.                  *)
SameShape(p, q) ==
    /\ Len(p) = Len(q)
    /\ \A i \in DOMAIN p : p[i] = q[i] \/ (is_param(p[i]) /\ is_param(q[i]))

Has(path) == \E r \in sdk : SameShape(r.path, path)

(* Up to n, the fixed segments from a on end with b.                       *)
FixedTo(p, n, a, b) ==
    /\ \A i \in a..b : ~is_param(p[i])
    /\ b = n \/ is_param(p[b + 1])

(* Where, up to n, fixed segments begin behind a parameter.                *)
StartsTo(p, n) == {a \in 2..n : is_param(p[a - 1]) /\ ~is_param(p[a])}

(* What the loop should have found after n segments: the prefix before the *)
(* first parameter, and the stretches of fixed segments behind one, in the *)
(* order in which they begin.                                              *)
SplitTo(p, n, prefix, runs) ==
    /\ \A e \in 0..n : FixedTo(p, n, 1, e) => prefix = SubSeq(p, 1, e)
    /\ Len(runs) = Cardinality(StartsTo(p, n))
    /\ \A a \in StartsTo(p, n) : \A b \in a..n :
          FixedTo(p, n, a, b) => runs[Cardinality(StartsTo(p, a))] = SubSeq(p, a, b)

(* The runs of an endpoint are its longest stretches of fixed segments     *)
(* behind the first parameter, in their order, whether parameters follow   *)
(* one another, end the path or begin it (the loop of split_endpoint,      *)
(* src/scripts/audit_endpoints.py:54-78, against its docstring).           *)
SplitsByParameters ==
    LET parts == split_endpoint(upstream)
    IN SplitTo(upstream, Len(upstream), parts.prefix, parts.runs)

(* No false alarm: an endpoint that the SDK has a call for is not          *)
(* reported, though the source never spells its path in one piece.         *)
CoveredNotReported == Has(upstream) => ~unexpected

(* An endpoint under /api without a parameter that the SDK lacks is        *)
(* reported, however deep it is nested: it passes only if a call has a     *)
(* parameter right after it, since a prefix is spelled like a path         *)
(* (the third rule, src/scripts/audit_endpoints.py:15-25).                 *)
NestedReported ==
    /\ upstream # <<>> /\ Head(upstream) = "api"
    /\ \A i \in DOMAIN upstream : ~is_param(upstream[i])
    /\ ~unexpected
    => \/ Has(upstream)
       \/ \E p \in Parameters, r \in sdk : IsPrefix(Append(upstream, p), r.path)
       \/ upstream \in OtherLiterals

(* No name of a file, a route, a user or a code, not even one that is a    *)
(* word of the API, turns one call of the SDK into another: two calls of   *)
(* the same method never ask for the same path (the paths of the services, *)
(* src/admin_*.go).                                                        *)
CallsStayApart ==
    \A r \in sdk :
        \A s \in {s \in sdk : s.method = r.method /\ Len(s.path) = Len(r.path)} \ {r} :
            \E i \in DOMAIN r.path :
                /\ r.path[i] # s.path[i]
                /\ {r.path[i], s.path[i]} \cap Parameters = {}
=============================================================================
