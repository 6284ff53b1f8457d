---------------------------- MODULE LocalSurface ----------------------------
(***************************************************************************)
(* The process behind `vayuweb-registry serve`: the browsing proxy and the *)
(* control API over one resolution cache, one pin set and one registry     *)
(* (cmdServe in cli.ts, serveProxy and serveControl in serve.ts,           *)
(* handleControlRequest in control.ts, PinSet in pins.ts).                 *)
(*                                                                         *)
(* Requests are served one at a time on the event loop, in any order.      *)
(* cmdServe reads its log once; RegistryAppend is the registry of an       *)
(* embedder whose log grows while the proxy runs, which is what            *)
(* `generation` in ProxyServerOptions is for.  The content port is chosen  *)
(* once, at the start.  SitePort is the one of cmdServe: it holds the root *)
(* it imported, whose blocks are the ones it hashed, and does not tell why *)
(* a traversal failed.  OtherPorts are ports no build has: what an         *)
(* embedder may pass to handleRequest as a ContentPort, whose contract is  *)
(* a numbered failure (proxy.ts), as the tests of proxy.ts do.  One        *)
(* declared pointer can be resolved.                                       *)
(***************************************************************************)
EXTENDS Resolver

CONSTANTS
  Requests,               \* requests a browser makes
  Appends,                \* [name, record]: records the registry may come to hold
  Sizes,                  \* bodies of PATCH /v1/config: a map from fields to sizes
  InitialLimits,          \* CACHE_LIMITS
  CACHE_CEILINGS,
  PIN_LIMIT,              \* PIN_LIMITS.entries
  OtherPorts,             \* content ports of embedders, which tell why they fail
  Pointer, PointsTo,      \* --pointer and the root it stands for
  MaxTime, MaxAppends, MaxTokens   \* bounds of the model

Fields == {"negativeEntries", "positiveEntries", "manifestEntries"}

\* What the registry may hold: entries of the known types, a cid entry and an alias that
\* parse or do not.
ASSUME AppendsAssumption ==
  \A a \in Appends :
    /\ a.name \in Names
    /\ a.record # Missing
    /\ a.record.op \in Operations
    /\ {a.record.notBefore, a.record.notAfter} \subseteq Nat
    /\ DOMAIN a.record.entries \subseteq {"ipns", "cid", "alias"}
    /\ "cid" \in DOMAIN a.record.entries =>
         a.record.entries["cid"] \in Cids \cup {Malformed}
    /\ "alias" \in DOMAIN a.record.entries =>
         a.record.entries["alias"] \in Names \cup {Malformed}

\* No name is written like the key of a content source.
ASSUME NamesAssumption ==
  /\ \A cid \in Cids : contentCacheKey("cid", cid) \notin Names
  /\ contentCacheKey("ipns", Pointer) \notin Names

ASSUME SurfaceAssumption ==
  /\ \A request \in Requests : requestHost(request) \in Names \cup {Missing, Malformed}
  /\ InitialLimits \in [Fields -> Nat \ {0}]
  /\ CACHE_CEILINGS \in [Fields -> Nat]
  /\ PointsTo \in Cids
  /\ \A p \in OtherPorts : p.tells /\ PointsTo \in p.holds
  /\ PIN_LIMIT \in Nat \ {0}
  /\ {MaxTime, MaxAppends} \subseteq Nat
  /\ MaxTokens \in Nat \ {0}

VARIABLES
  registry,               \* [records, length]
  cache,                  \* ResolutionCache
  pinned,                 \* PinSet
  port,                   \* ContentPort: [holds, corrupt, tells]
  token,                  \* rotatingToken: which of the tokens made so far
  diagnostics,            \* whether the proxy adds its diagnostic headers to an answer
  now,
  answer                  \* of the request just served, NoAnswer after any other step

vars == <<registry, cache, pinned, port, token, diagnostics, now, answer>>

NoAnswer == [error |-> "none"]

\* The one pointer this build can resolve: the declared one, to the root it published.
pointerFor == [p \in {Pointer} |-> PointsTo]

\* siteContentOf: the port over the directory that was published.
SitePort == [holds |-> {PointsTo}, corrupt |-> {}, tells |-> FALSE]

\* What the content and pointer ports answer from.
Content == [pinned |-> pinned, port |-> port, pointers |-> pointerFor]

\* Records the registry may hold, and what its entries may say.
Recorded == {a.record : a \in Appends}
Values == UNION {{r.entries[type] : type \in DOMAIN r.entries} : r \in Recorded}

NegativeEntry ==
  [key : Names \cup ({"content"} \X {"ipns", "cid"} \X Values),
   error : ResolveErrorName, expires : Nat]
PositiveEntry == [key : Names, record : Recorded, expires : Nat]
ManifestEntry == [key : Cids, manifest : {Missing} \cup {Site[c].manifest : c \in Cids}]

Caches ==
  [negatives : Seq(NegativeEntry), positives : Seq(PositiveEntry),
   manifests : Seq(ManifestEntry), limits : [Fields -> Nat \ {0}],
   generation : Nat \cup {NoGeneration}]

TypeOK ==
  /\ registry.length \in 0..MaxAppends
  /\ registry.records \in [Names -> Recorded \cup {Missing}]
  /\ cache \in Caches
  /\ pinned \subseteq port.holds \cap Cids /\ IsFiniteSet(pinned) /\ Cardinality(pinned) <= PIN_LIMIT
  /\ port \in {SitePort} \cup OtherPorts
  /\ token \in 1..MaxTokens
  /\ diagnostics \in BOOLEAN
  /\ now \in 0..MaxTime

Init ==
  /\ registry = [records |-> [n \in Names |-> Missing], length |-> 0]
  /\ cache = EmptyCache(InitialLimits)
  /\ pinned = {PointsTo}                \* publishing a site pins it
  /\ port \in {SitePort} \cup OtherPorts
  /\ token = 1
  /\ diagnostics = FALSE
  /\ now = 0
  /\ answer = NoAnswer

-----------------------------------------------------------------------------
(***************************************************************************)
(* The browsing proxy.                                                     *)
(***************************************************************************)
ProxyRequest(request) ==
  LET served == handleRequest(request, registry, Content, now,
                              setGeneration(cache, registry.length))
  IN  /\ cache' = served.cache
      /\ answer' = served.answer
      /\ UNCHANGED <<registry, pinned, port, token, diagnostics, now>>

-----------------------------------------------------------------------------
(***************************************************************************)
(* The control API.  A request that is shaped like a browser's, or that    *)
(* does not carry the token in force, is denied before it is routed.       *)
(***************************************************************************)
tokenMatches(presented, expected) == presented = expected

Control(presented) ==
  /\ tokenMatches(presented, token)
  /\ answer' = NoAnswer

\* POST /v1/resolve and GET /v1/records: the proxy's cache without its generation.
ControlResolve(presented, name) ==
  /\ Control(presented)
  /\ cache' = resolveName(name, registry, now, cache).cache
  /\ UNCHANGED <<registry, pinned, port, token, diagnostics, now>>

\* The sources whose cached failure a pin decides: the CID, and the declared
\* pointer if it stands for it.
\* Mutant: only the CID's own entry.
relatedSourcesForCidOnly(cid) == {contentCacheKey("cid", cid)}
relatedSourcesFor(cid) ==
  {contentCacheKey("cid", cid)} \cup
  (IF PointsTo = cid THEN {contentCacheKey("ipns", Pointer)} ELSE {})

\* PinSet.add
PinOutcome(cid) ==
  IF cid \in pinned THEN "already"
  ELSE IF cid \notin port.holds THEN "not_held"
  ELSE IF Cardinality(pinned) >= PIN_LIMIT THEN "full"
  ELSE "pinned"

\* Mutant: a pin is an intention, taken for any CID.
PinAnything(presented, cid) ==
  /\ Control(presented)
  /\ cid \notin pinned
  /\ pinned' = pinned \cup {cid}
  /\ cache' = forget(cache, relatedSourcesFor(cid))
  /\ UNCHANGED <<registry, port, token, diagnostics, now>>

\* POST /v1/pin that takes the pin; any other outcome changes nothing.
Pin(presented, cid) ==
  /\ Control(presented)
  /\ PinOutcome(cid) = "pinned"
  /\ pinned' = pinned \cup {cid}
  /\ cache' = forget(cache, relatedSourcesFor(cid))
  /\ UNCHANGED <<registry, port, token, diagnostics, now>>

\* DELETE /v1/pin/{cid}
Unpin(presented, cid) ==
  /\ Control(presented)
  /\ cid \in pinned
  /\ pinned' = pinned \ {cid}
  /\ cache' = forget(cache, relatedSourcesFor(cid))
  /\ UNCHANGED <<registry, port, token, diagnostics, now>>

\* DELETE /v1/cache
FlushAll(presented) ==
  /\ Control(presented)
  /\ cache' = clear(cache)
  /\ UNCHANGED <<registry, pinned, port, token, diagnostics, now>>

\* The keys of the content sources of a record, those that do not parse apart.
sourcesOf(record) ==
  IF record = Missing THEN {}
  ELSE {contentCacheKey(type, record.entries[type]) :
          type \in {t \in DOMAIN record.entries : record.entries[t] # Malformed}}

\* DELETE /v1/cache/{name}: the name and the sources its record has now.
FlushName(presented, name) ==
  /\ Control(presented)
  /\ cache' = forget(cache, {name} \cup sourcesOf(registry.records[name]))
  /\ UNCHANGED <<registry, pinned, port, token, diagnostics, now>>

\* PATCH /v1/config: every size is looked at before any is applied.
PatchSizes(presented, sizes) ==
  /\ Control(presented)
  /\ DOMAIN sizes \subseteq Fields
  /\ \A field \in DOMAIN sizes : sizes[field] \in 1..CACHE_CEILINGS[field]
  /\ cache' = setLimits(cache, sizes)
  /\ UNCHANGED <<registry, pinned, port, token, diagnostics, now>>

\* POST /v1/token/rotate
RotateToken(presented) ==
  /\ Control(presented)
  /\ token < MaxTokens
  /\ token' = token + 1
  /\ UNCHANGED <<registry, cache, pinned, port, diagnostics, now>>

\* POST /v1/diagnostics/on and off
SetDiagnostics(presented, on) ==
  /\ Control(presented)
  /\ diagnostics' = on
  /\ UNCHANGED <<registry, cache, pinned, port, token, now>>

ControlRequest(presented) ==
  \/ \E name \in Names : ControlResolve(presented, name) \/ FlushName(presented, name)
  \/ \E cid \in Cids : Pin(presented, cid) \/ Unpin(presented, cid)
  \/ FlushAll(presented)
  \/ \E sizes \in Sizes : PatchSizes(presented, sizes)
  \/ RotateToken(presented)
  \/ \E on \in BOOLEAN : SetDiagnostics(presented, on)

-----------------------------------------------------------------------------
\* The registry's log grows by a record that its rules admit after the one in
\* force, and that takes its place.
Admits(previous, record) ==
  IF previous = Missing THEN record.op = "REGISTER"
  ELSE IF record.op = "REGISTER" THEN isFullyReleased(previous, now)
  ELSE acceptsSuccessor(previous, now, record.op)

RegistryAppend(append) ==
  /\ registry.length < MaxAppends
  /\ Admits(registry.records[append.name], append.record)
  /\ registry' = [records |-> [registry.records EXCEPT ![append.name] = append.record],
                  length |-> registry.length + 1]
  /\ answer' = NoAnswer
  /\ UNCHANGED <<cache, pinned, port, token, diagnostics, now>>

Tick ==
  /\ now < MaxTime
  /\ now' = now + 1
  /\ answer' = NoAnswer
  /\ UNCHANGED <<registry, cache, pinned, port, token, diagnostics>>

Next ==
  \/ \E request \in Requests : ProxyRequest(request)
  \/ \E presented \in 1..MaxTokens : ControlRequest(presented)
  \/ \E append \in Appends : RegistryAppend(append)
  \/ Tick

Spec == Init /\ [][Next]_vars

-----------------------------------------------------------------------------
(***************************************************************************)
(* Properties.                                                             *)
(***************************************************************************)

\* A page is served only from the record that holds its name at this moment,
\* and only while that record is live: neither a cached record that was
\* superseded or revoked, nor one whose term has ended, answers a browser
\* (cache.ts, setGeneration and putPositive; resolve.ts, step 8).
PagesAreCurrent ==
  answer.error = "ok" =>
    /\ registry.records[answer.name] = answer.record
    /\ stateAt(answer.record, now) = "LIVE"

\* A refusal that says something of a name (not found, expired, on hold,
\* revoked) was true of the registry as it is now at some moment within the
\* error's own time to live: nothing cached under an earlier registry is
\* repeated, and nothing for longer than the table says.  Aliases are followed
\* first, so the refusal may be about any name.
RefusalsWereTrue ==
  answer.error \in NameErrors =>
    \E name \in Names, at \in 0..now :
      /\ at > now - NEGATIVE_TTL_SECONDS[answer.error] \/ at = now
      /\ RegistryVerdict(registry, name, at) = answer.error

\* Whether a failure kept under this key decides whether a CID is served.
About(key, cid) ==
  \/ key = contentCacheKey("cid", cid)
  \/ cid = PointsTo /\ key = contentCacheKey("ipns", Pointer)

\* Re-pinning takes effect at once: no cached failure that a reader could still
\* be answered with says that content is unavailable while the node serves it
\* (cli.ts, pinPorts and relatedSourcesFor).
NoStaleOutage ==
  \A i \in DOMAIN cache.negatives :
    cache.negatives[i].error = "CONTENT_UNAVAILABLE" =>
      \A cid \in pinned : ~About(cache.negatives[i].key, cid)

\* Bytes that fail their hash are never a reason to serve something else: if
\* the source a record prefers is pinned and corrupt, no page of that record
\* comes from another source (proxy.ts, the fallback loop).  It is a property of
\* handleRequest over a port that tells; the blocks of SitePort cannot fail their
\* hash, and if they could it would not say so.
NoDowngrade ==
  answer.error = "ok" =>
    LET preferred == sourceCandidates(answer.record)[1]
        value == answer.record.entries[preferred]
    IN  value # Malformed => Addressed(Content, answer.record, preferred) \notin port.corrupt \cap pinned

Bounded(map, limit) ==
  /\ Len(map) <= limit
  /\ \A i, j \in DOMAIN map : map[i].key = map[j].key => i = j

\* Nothing is held beyond the bounds in force, also right after a bound was
\* lowered, and no key twice (cache.ts, evictFor and setLimits).
CacheIsBounded ==
  /\ Bounded(cache.negatives, cache.limits.negativeEntries)
  /\ Bounded(cache.positives, cache.limits.positiveEntries)
  /\ Bounded(cache.manifests, cache.limits.manifestEntries)

\* What a kept record promises: it holds its name, and goes on being live for as long as
\* it may be answered with.
Vouched(e) ==
  /\ registry.records[e.key] = e.record
  /\ \A at \in now..(e.expires - 1) : stateAt(e.record, at) = "LIVE"

\* What a kept refusal of a name promises: it was true when it was kept.
TrueWhenKept(e) ==
  e.error \in NameErrors =>
    \E name \in Names, at \in 0..now :
      /\ e.expires = at + NEGATIVE_TTL_SECONDS[e.error]
      /\ RegistryVerdict(registry, name, at) = e.error

\* What a kept failure of a source promises: content said to be unavailable is not
\* pinned, and content that failed in another way does not fail its hash.
StillFails(e) ==
  \A cid \in Cids : About(e.key, cid) =>
    IF e.error = "CONTENT_UNAVAILABLE" THEN cid \notin pinned ELSE cid \notin port.corrupt

\* What every cache of this process satisfies: its bounds and, when it was told of the
\* registry as it is, the truth of what it keeps of names.
Faithful(c) ==
  /\ c \in Caches
  /\ Bounded(c.negatives, c.limits.negativeEntries)
  /\ Bounded(c.positives, c.limits.positiveEntries)
  /\ Bounded(c.manifests, c.limits.manifestEntries)
  /\ \A i \in DOMAIN c.negatives : StillFails(c.negatives[i])
  /\ c.generation = registry.length =>
       /\ \A i \in DOMAIN c.positives : Vouched(c.positives[i])
       /\ \A i \in DOMAIN c.negatives : TrueWhenKept(c.negatives[i])

\* The inductive invariant of the proofs: the registry is never behind what the cache was
\* told, the cache is faithful, and so was the answer just given.
SurfaceInv ==
  /\ TypeOK
  /\ cache.generation <= registry.length
  /\ Faithful(cache)
  /\ PagesAreCurrent
  /\ RefusalsWereTrue
  /\ NoDowngrade

\* What is remembered of a CID's manifest is what the CID says: cache.ts keeps
\* it without expiry because "an entry keyed by one cannot go stale".
ManifestIsTrue ==
  \A i \in DOMAIN cache.manifests :
    LET cid == cache.manifests[i].key
    IN  cache.manifests[i].manifest =
          IF ManifestPath \in Site[cid].files THEN parseManifest(cid) ELSE Missing

\* A file that is larger than a request may load is not answered for with another
\* page of its site: the site's own 404 page would say that the link is wrong
\* (proxy.ts serveStep13 over the port of cli.ts).
TooLargeIsNotMissing ==
  [][\A request \in Requests :
       ProxyRequest(request) /\ answer'.error = "ok" =>
         request.path.segments \notin Site[answer'.cid].tooLarge]_vars
=============================================================================
