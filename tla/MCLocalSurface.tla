--------------------------- MODULE MCLocalSurface ---------------------------
(***************************************************************************)
(* LocalSurface for TLC: a name that is updated, revoked and runs out, an  *)
(* alias of it, a pointer beside a snapshot, one site with a manifest and  *)
(* one without.                                                            *)
(***************************************************************************)
EXTENDS LocalSurface, TLC

CONSTANTS shop, link, c1, c2, ptr

OneTld == [n \in Names |-> "tld"]
OneBit == [n \in Names |-> 1]

\* TTLs scaled down; what cache.ts never caches is never cached here.
Ttl ==
  [e \in {"NAME_NOT_FOUND"} |-> 1]
    @@ [e \in {"NAME_EXPIRED", "NAME_QUARANTINED", "NAME_REVOKED"} |-> 2]
    @@ [e \in {"CONTENT_UNAVAILABLE", "IPNS_UNRESOLVED"} |-> 1]
    @@ [e \in {"LABEL_INVALID", "REGISTRY_UNAVAILABLE", "CONTENT_INTEGRITY", "PATH_NOT_FOUND", "RESPONSE_TOO_LARGE",
               "NO_USABLE_RECORD", "ALIAS_LOOP", "BLOCKED_BY_POLICY"} |-> Never]

TheSites ==
  [c \in Cids |->
     IF c = c1
     THEN [files |-> {ManifestPath, <<"home.html">>, <<"404.html">>, <<"refresh.html">>,
                     <<"film.webm">>},
           tooLarge |-> {<<"film.webm">>},
           refused |-> {<<"refresh.html">>},
           manifest |-> [index |-> "home.html", notFound |-> "404.html", fallback |-> Missing]]
     ELSE [files |-> {<<"index.html">>, <<"film.webm">>}, tooLarge |-> {<<"film.webm">>},
           refused |-> {}, manifest |-> Missing]]

Rec(op, start, end, entries) ==
  [op |-> op, notBefore |-> start, notAfter |-> end, entries |-> entries]

Live == Rec("REGISTER", 0, 2, [t \in {"ipns"} |-> ptr] @@ [t \in {"cid"} |-> c2])

TheAppends ==
  {[name |-> shop, record |-> r] : r \in
     {Live, Rec("UPDATE", 1, 2, [t \in {"cid"} |-> c1]), Rec("REVOKE", 1, 2, [t \in {} |-> 0])}}
    \cup {[name |-> link, record |-> Rec("REGISTER", 0, 3, [t \in {"alias"} |-> shop])]}

Get1(host, segments, slash) ==
  [method |-> "GET", form |-> "origin", host |-> host, authority |-> Missing,
   path |-> [segments |-> segments, slash |-> slash]]

TheRequests ==
  {Get1(shop, <<>>, TRUE), Get1(shop, <<"refresh.html">>, FALSE),
   Get1(shop, <<"film.webm">>, FALSE), Get1(link, <<"gone">>, FALSE),
   Get1(Malformed, <<>>, TRUE), [Get1(shop, <<>>, TRUE) EXCEPT !.method = "CONNECT"]}

\* A port that tells, over two sites of which one fails its hash.
TellingPort == {[holds |-> {c1, c2}, corrupt |-> {c1}, tells |-> TRUE]}

TheLimits == [f \in Fields |-> IF f = "manifestEntries" THEN 1 ELSE 2]
TheSizes == {[f \in {"negativeEntries"} |-> 1], [f \in Fields |-> 9]}
=============================================================================
