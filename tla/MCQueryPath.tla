----------------------------- MODULE MCQueryPath -----------------------------
(* Two families of requests.  Three requests race for one question from two subnets   *)
(* of the visitors: a leader, a follower from another address of the same subnet, and *)
(* a third request that comes while they finish, for their key or for another one.    *)
(* Which request asks for which key makes no difference, so one assignment of each    *)
(* kind is enough.  In the other family one request comes with every kind of address, *)
(* country and subnet option, while the others stay away, under every setting of the  *)
(* ecs section, at one time.  While the first request is at work the clock moves by   *)
(* one; then it goes on, through the ttl and the stale window of the answer stored at *)
(* 0 or at 1, and past them.  The cache has room for both keys.                       *)
EXTENDS DoHQuery

CONSTANTS r1, r2, r3

MCReqs == {r1, r2, r3}

\* Addresses of three and four bits.
MCWidth       == [v4 |-> 3, v6 |-> 4]
MCDefaultBits == [v4 |-> 2, v6 |-> 2]
Addr(fam, n)  == [fam |-> fam, n |-> n]
Subnet(addr, bits) == [addr |-> addr, bits |-> bits]
Option(addr, bits, sixteen) == [addr |-> addr, bits |-> bits, sixteen |-> sixteen]

MCEdges == {Addr("v4", 7)}
MCChina == {Addr("v4", 1)}

MCDefaults == [visitorMask |-> MCDefaultBits, clientMax |-> MCDefaultBits]

File(source, mask, max) ==
    [routing |-> [cn |-> [primary |-> "cn", fallback |-> "", ecsSource |-> "none"],
                  global |-> [primary |-> "global", fallback |-> "", ecsSource |-> source]],
     upstreams |-> [u \in {"cn", "global"} |-> [type |-> "doh_wire"]],
     sections |-> [visitorMask |-> [v4 |-> mask, v6 |-> mask], clientMax |-> [v4 |-> max, v6 |-> max]],
     allowQueryECS |-> source = "client", allowHeaderECS |-> max = 1]

Usual == File("visitor", 0, 0)

MCFiles ==
    {Usual, File("none", 1, 0), File("client", 0, 0), File("client", -1, 1), File("client", 9, 3),
     [Usual EXCEPT !.routing.cn.fallback = "typo"], File("auto", 0, 0)}

Request(ips, country, cn, option, param, header) ==
    [ns |-> "public", name |-> "n", ips |-> ips, country |-> country, cn |-> cn,
     option |-> option, param |-> param, header |-> header]

Plain(n) == Request(<<Nothing, Addr("v4", n)>>, "US", FALSE, Nothing, Nothing, Nothing)

Racing == {[r \in MCReqs |-> IF r = r1 THEN Plain(2) ELSE IF r = r2 THEN Plain(3) ELSE third]
              : third \in {Plain(2), Plain(5)}}

Visitors == {<<Nothing, Addr("v4", 3)>>, <<Addr("mapped", 5), Addr("v4", 3)>>, <<Addr("v4", 7), Addr("v4", 3)>>,
             <<Addr("text", 0), Addr("v4", 3)>>, <<Addr("v6", 13), Nothing>>, <<Addr("v4", 1), Nothing>>}
Options  == {Nothing, Option(Addr("text", 0), 0, FALSE), Option(Addr("v4", 6), 3, FALSE), Option(Addr("v4", 6), 0, FALSE),
             Option(Addr("v4", 6), 3, TRUE), Option(Addr("v6", 11), 4, FALSE), Option(Addr("mapped", 6), 4, FALSE)}
Explicit == {Nothing, Subnet(Addr("v4", 6), Bare), Subnet(Addr("mapped", 6), 4), Subnet(Addr("v6", 11), 3)}

Alone == Request(<<Addr("v4", 2)>>, "US", FALSE, Nothing, Nothing, Nothing)

Visiting ==
    {Request(ips, country, cn, option, Nothing, Nothing) :
        ips \in Visitors, country \in {"", "CN"}, cn \in BOOLEAN, option \in {Nothing, Option(Addr("v4", 6), 3, FALSE)}}
Choosing ==
    {Request(<<Addr("v4", 3)>>, "", FALSE, option, param, header) :
        option \in Options, param \in Explicit, header \in {Nothing, Subnet(Addr("v6", 11), 3)}}

Single == {[r \in MCReqs |-> IF r = r1 THEN h ELSE Alone] : h \in Visiting \union Choosing}

\* A constant that a .cfg replaces by a name is evaluated once only if that name stands for
\* another definition.
AllQueries == {QueryOf(f[r], c) : f \in Racing \union Single, r \in MCReqs, c \in Loaded(MCFiles)}

MCQueries == AllQueries

MCUnsendable == {InvalidPrefix}

\* The race is run under the usual settings, and the lone requests stay alone.
MCInit ==
    /\ ServiceInit(Racing \union Single)
    /\ http \in Racing => cfg = applyDefaults(Usual)
    /\ http \in Single => caching

\* The third client stays.  Time goes beyond 1 only after the first request, which may
\* have stored an answer.  Requests for one key arrive in order.
MCNext ==
    /\ ServiceNext
    /\ http \in Single => clock' = 0 /\ pc'[r2] = "idle" /\ pc'[r3] = "idle"
    /\ http \in Racing /\ clock' > 1 => pc'[r1] = "done"
    /\ ~gone'[r3] \/ pc'[r3] = "done"
    /\ pc'[r2] # "idle" => pc'[r1] # "idle"
    /\ pc'[r3] # "idle" /\ http[r3] = Plain(2) => pc'[r2] # "idle"

MCSpec == MCInit /\ [][MCNext]_allVars /\ Fairness
=============================================================================
