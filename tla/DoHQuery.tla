------------------------------ MODULE DoHQuery ------------------------------
(***************************************************************************)
(* handleDoHQuery (internal/server/server.go) from the HTTP request on:    *)
(* which address is the visitor's, which subnet and which route the query  *)
(* gets under the loaded configuration, and then QueryPath.  A request is  *)
(* what its handler reads of it:                                           *)
(*   ips      the address headers in the order they are tried, then the    *)
(*            peer address; Nothing for a header that is not there         *)
(*   country  CF-IPCountry                                                 *)
(*   option, param, header   the subnet in the message, in ?ecs= and in    *)
(*            the header of the configuration                              *)
(*   cn       what IsCNDomain says of the name at that time (CNLearning)   *)
(*   ns, name the resolver namespace and the question                      *)
(***************************************************************************)
EXTENDS QueryPath, ECS, Config

CONSTANTS
    Files,     \* what config.yaml may hold
    Edges,     \* addresses of Cloudflare's edge
    China      \* private, loopback and mainland addresses

ASSUME NoUpstreamIsEmpty == NoUpstream = ""
ASSUME RoutesAssumption == \A c \in Loaded(Files) : DOMAIN c.routing = {"cn", "global"}
ASSUME UnsendableAssumption == \A q \in Queries : q.ecs \in Unsendable <=> ~Sendable(q.ecs)

VARIABLES
    http,  \* per request goroutine, its request
    cfg    \* the loaded configuration

allVars == <<http, cfg, vars>>

\* The first address header that is not empty, parseable or not, else the peer.
extractClientIP(h) ==
    LET given == {i \in DOMAIN h.ips : h.ips[i] # Nothing}
    IN  h.ips[CHOOSE i \in given : \A j \in given : i <= j]

isMainlandChinaRequest(h) == h.country = "CN" \/ Unmap(extractClientIP(h)) \in China

VisitorECS(h, c) ==
    IF Unmap(extractClientIP(h)) \in Edges THEN Nothing
    ELSE VisitorFromIP(extractClientIP(h), c.sections.visitorMask)

extractClientECS(h, c) ==
    LET max   == c.sections.clientMax
        dns   == ExtractClientFromDNS(h.option, max)
        param == NormalizeExplicit(h.param, max)
    IN  IF dns # Nothing THEN dns
        ELSE IF c.allowQueryECS /\ param # Nothing THEN param
        ELSE IF c.allowHeaderECS THEN NormalizeExplicit(h.header, max) ELSE Nothing

pickRouteForVisitor(h) == IF isMainlandChinaRequest(h) /\ h.cn THEN "cn" ELSE "global"

\* Abroad the visitor's subnet stands in for the one the route asks for.
SelectedECS(h, c) ==
    LET via      == pickRouteForVisitor(h)
        selected == Select(c.routing[via].ecsSource, VisitorECS(h, c), extractClientECS(h, c))
    IN  IF via = "global" /\ selected = Nothing /\ ~isMainlandChinaRequest(h)
        THEN VisitorECS(h, c) ELSE selected

QueryOf(h, c) ==
    LET via == pickRouteForVisitor(h)
    IN  [ns |-> h.ns, name |-> h.name, via |-> via, ecs |-> SelectedECS(h, c),
         route |-> [primary |-> c.routing[via].primary, fallback |-> c.routing[via].fallback]]

ServiceInit(requests) ==
    /\ cfg \in Loaded(Files)
    /\ http \in requests
    /\ query = [r \in Reqs |-> QueryOf(http[r], cfg)]
    /\ Init

ServiceNext == Next /\ UNCHANGED <<http, cfg>>

-----------------------------------------------------------------------------
(* Properties *)

Covers(s, a) == s.fam = a.fam /\ s.net = a.n \div 2^(Width[a.fam] - s.bits)

OfVisitor(s, h) ==
    LET a == Unmap(extractClientIP(h))
    IN  /\ a.fam # "text" /\ a \notin Edges
        /\ Covers(s, a) /\ s.bits <= MaskFor(a.fam, cfg.sections.visitorMask)

OfClient(s, h) ==
    \E v \in {h.option} \union (IF cfg.allowQueryECS THEN {h.param} ELSE {})
                        \union (IF cfg.allowHeaderECS THEN {h.header} ELSE {}) :
        /\ v # Nothing
        /\ LET a == Unmap(v.addr)
           IN  s.bits <= MaskFor(a.fam, cfg.sections.clientMax) /\ (Covers(s, a) \/ Covers(s, [a EXCEPT !.n = 0]))

Permitted(s, r) ==
    LET h == http[r]  source == cfg.routing[query[r].via].ecsSource
    IN  \/ s \in {Nothing, InvalidPrefix}
        \/ (source = "visitor" \/ ~isMainlandChinaRequest(h)) /\ OfVisitor(s, h)
        \/ source = "client" /\ OfClient(s, h)

\* Whatever request an answer was fetched by, the subnet it was fetched for contains an address
\* of the very client that gets it (or names nobody), and no more bits of an address go to an
\* upstream than the configuration allows for it; a mainland visitor's own address goes there
\* only where the route asks for it.  Upstreams that are asked exist.
SubnetIsOwn ==
    \A r \in Reqs :
        /\ pc[r] = "resolve" => Permitted(query[r].ecs, r) /\ Up!Configured(route[r]) \subseteq DOMAIN cfg.upstreams
        /\ reply[r] # None /\ reply[r].status # "ERROR" => Permitted(reply[r].answer.query.ecs, r)
=============================================================================
