------------------------------ MODULE Resolver ------------------------------
(***************************************************************************)
(* The resolver of registry/src as pure operators: the bounded caches of   *)
(* cache.ts, the resolution algorithm of resolve.ts, and the request       *)
(* handler of proxy.ts with its path mapping (step 13).  The code of these *)
(* files is synchronous, so one call is one step.                          *)
(*                                                                         *)
(* A Map is the sequence of its entries in insertion order: eviction takes *)
(* the oldest.  A record carries, beside what its lifecycle needs, its     *)
(* known entries: a function from the types present to the first value of  *)
(* each.  A path is its segments and whether it ends in a slash; a site is *)
(* the set of its files, those over a limit of a request, the ones the     *)
(* scan refuses, and its manifest.  A call that changes the cache returns  *)
(* the cache beside its answer.                                            *)
(***************************************************************************)
EXTENDS RegistryRules

CONSTANTS
  Cids,                   \* content identifiers
  Missing,                \* null or undefined: no record, manifest, field or CID
  Malformed,              \* a host, alias, entry value or manifest that does not parse
  Site,                   \* what a CID addresses: [files, tooLarge, refused, manifest]
  ALIAS_BUDGET,           \* resolve.ts
  POSITIVE_TTL_SECONDS,   \* cache.ts
  NEGATIVE_TTL_SECONDS    \* cache.ts: an error name to seconds, or Never

Never == -1               \* NEGATIVE_TTL_SECONDS: null

\* What a name is refused for, and every error this model answers with.
NameErrors == {"NAME_NOT_FOUND", "NAME_EXPIRED", "NAME_QUARANTINED", "NAME_REVOKED"}
ResolveErrorName ==
  NameErrors \cup
  {"CONTENT_UNAVAILABLE", "IPNS_UNRESOLVED", "LABEL_INVALID", "REGISTRY_UNAVAILABLE",
   "CONTENT_INTEGRITY", "RESPONSE_TOO_LARGE", "PATH_NOT_FOUND", "NO_USABLE_RECORD",
   "ALIAS_LOOP", "BLOCKED_BY_POLICY"}

ASSUME ResolverAssumption ==
  /\ ALIAS_BUDGET \in Nat
  /\ POSITIVE_TTL_SECONDS \in Nat
  /\ NEGATIVE_TTL_SECONDS \in [ResolveErrorName -> Nat \cup {Never}]
  /\ Malformed \notin Names
  /\ Missing \notin Cids

NoGeneration == -1        \* generation null
None == [error |-> "none"]

-----------------------------------------------------------------------------
(***************************************************************************)
(* cache.ts                                                                *)
(***************************************************************************)
Held(map, key) == \E i \in DOMAIN map : map[i].key = key
Get(map, key) == map[CHOOSE i \in DOMAIN map : map[i].key = key]

\* The map after delete was called with each of the keys.
Without(map, keys) ==
  LET kept[i \in 0..Len(map)] ==
        IF i = 0 THEN <<>>
        ELSE IF map[i].key \in keys THEN kept[i - 1]
        ELSE Append(kept[i - 1], map[i])
  IN  kept[Len(map)]

Put(map, e) ==
  IF Held(map, e.key)
  THEN [i \in DOMAIN map |-> IF map[i].key = e.key THEN e ELSE map[i]]
  ELSE Append(map, e)

trimTo(map, limit) ==
  IF Len(map) > limit THEN SubSeq(map, Len(map) - limit + 1, Len(map)) ELSE map

evictFor(map, key, limit) ==
  IF Len(map) < limit \/ Held(map, key) THEN map ELSE Tail(map)

EmptyCache(limits) ==
  [negatives |-> <<>>, positives |-> <<>>, manifests |-> <<>>,
   limits |-> limits, generation |-> NoGeneration]

Resized(limits, asked) ==
  [field \in DOMAIN limits |-> IF field \in DOMAIN asked THEN asked[field] ELSE limits[field]]

\* Mutant: a resize that governs only the next insertion.
setLimitsWithoutTrimming(c, asked) == [c EXCEPT !.limits = Resized(@, asked)]

setLimits(c, asked) ==
  LET limits == Resized(c.limits, asked)
  IN  [c EXCEPT !.limits = limits,
                !.negatives = trimTo(@, limits.negativeEntries),
                !.positives = trimTo(@, limits.positiveEntries),
                !.manifests = trimTo(@, limits.manifestEntries)]

clear(c) == [c EXCEPT !.negatives = <<>>, !.positives = <<>>, !.manifests = <<>>]

\* forget, called with each of the keys.
forget(c, keys) == [c EXCEPT !.negatives = Without(@, keys), !.positives = Without(@, keys)]

\* Mutant: only the positive half goes when the registry moves.
setGenerationKeepsRefusals(c, generation) ==
  IF c.generation = generation THEN c
  ELSE [c EXCEPT !.generation = generation, !.positives = <<>>]

setGeneration(c, generation) ==
  IF c.generation = generation THEN c
  ELSE [c EXCEPT !.generation = generation, !.negatives = <<>>, !.positives = <<>>]

\* The cached error for a key, or Missing; an expired entry goes as it is found.
negative(c, key, now) ==
  IF ~Held(c.negatives, key) THEN [cache |-> c, error |-> Missing]
  ELSE IF Get(c.negatives, key).expires <= now
  THEN [cache |-> [c EXCEPT !.negatives = Without(@, {key})], error |-> Missing]
  ELSE [cache |-> c, error |-> Get(c.negatives, key).error]

putNegative(c, key, error, now) ==
  IF NEGATIVE_TTL_SECONDS[error] = Never THEN c
  ELSE [c EXCEPT !.negatives =
          Put(evictFor(@, key, c.limits.negativeEntries),
              [key |-> key, error |-> error,
               expires |-> now + NEGATIVE_TTL_SECONDS[error]])]

positive(c, key, now) ==
  IF ~Held(c.positives, key) THEN [cache |-> c, record |-> Missing]
  ELSE IF Get(c.positives, key).expires <= now
  THEN [cache |-> [c EXCEPT !.positives = Without(@, {key})], record |-> Missing]
  ELSE [cache |-> c, record |-> Get(c.positives, key).record]

\* Mutant: a record is kept for the whole TTL, past the end of its term.
putPositiveUncapped(c, key, record, now) ==
  [c EXCEPT !.positives =
     Put(evictFor(@, key, c.limits.positiveEntries),
         [key |-> key, record |-> record, expires |-> now + POSITIVE_TTL_SECONDS])]

putPositive(c, key, record, now) ==
  LET ttl == now + POSITIVE_TTL_SECONDS
      expires == IF ttl < record.notAfter THEN ttl ELSE record.notAfter
  IN  IF expires <= now THEN c
      ELSE [c EXCEPT !.positives =
              Put(evictFor(@, key, c.limits.positiveEntries),
                  [key |-> key, record |-> record, expires |-> expires])]

rememberManifest(c, cid, manifest) ==
  [c EXCEPT !.manifests =
     Put(evictFor(@, cid, c.limits.manifestEntries),
         [key |-> cid, manifest |-> manifest])]

-----------------------------------------------------------------------------
(***************************************************************************)
(* resolve.ts.  The registry is what the ports answer: the record in force *)
(* per name (Missing if none) and the length of the log.                   *)
(***************************************************************************)
\* The content sources of a record in order of preference; an alias only alone.
sourceCandidates(record) ==
  LET Present(type) == IF type \in DOMAIN record.entries THEN <<type>> ELSE <<>>
      fetchable == Present("ipns") \o Present("cid")
  IN  IF fetchable # <<>> THEN fetchable ELSE Present("alias")

\* Steps 7 and 8: what the registry says of a name, LIVE being no refusal.
RegistryVerdict(registry, name, now) ==
  IF registry.length = 0                        THEN "REGISTRY_UNAVAILABLE"
  ELSE IF registry.records[name] = Missing      THEN "NAME_NOT_FOUND"
  ELSE LET record == registry.records[name]
           state == stateAt(record, now)
       IN  IF lifecycleOf(record).revoked /\ state # "FREE" THEN "NAME_REVOKED"
           ELSE IF state = "GRACE"      THEN "NAME_EXPIRED"
           ELSE IF state = "QUARANTINE" THEN "NAME_QUARANTINED"
           ELSE IF state # "LIVE"       THEN "NAME_NOT_FOUND"
           ELSE "LIVE"

Fail(walk, error) == [walk EXCEPT !.outcome = [error |-> error]]

\* Steps 9 and 10, with the record established.
SelectFrom(walk, record) ==
  LET sources == sourceCandidates(record)
      target == record.entries["alias"]
  IN  IF sources = <<>> THEN Fail(walk, "NO_USABLE_RECORD")
      ELSE IF sources[1] # "alias"
      THEN [walk EXCEPT !.outcome = [error |-> "ok", record |-> record, name |-> walk.current]]
      ELSE IF target = Malformed THEN Fail(walk, "NO_USABLE_RECORD")
      ELSE [walk EXCEPT !.current = target, !.seen = @ \cup {walk.current}]

\* One round of the alias loop: steps 1 to 10 for the name the walk is at.
Hop(walk, registry, now) ==
  LET name == walk.current
      hit == positive(walk.cache, name, now)
      miss == negative(hit.cache, name, now)
      looked == [walk EXCEPT !.cache = miss.cache]
      verdict == RegistryVerdict(registry, name, now)
  IN  IF name = Malformed                 THEN Fail(walk, "LABEL_INVALID")
      ELSE IF name \in walk.seen          THEN Fail(walk, "ALIAS_LOOP")
      ELSE IF hit.record # Missing        THEN SelectFrom(walk, hit.record)
      ELSE IF miss.error # Missing        THEN Fail(looked, miss.error)
      ELSE IF verdict = "REGISTRY_UNAVAILABLE" THEN Fail(looked, verdict)
      ELSE IF verdict # "LIVE"
      THEN Fail([looked EXCEPT !.cache = putNegative(@, name, verdict, now)], verdict)
      ELSE SelectFrom([looked EXCEPT !.cache =
                         putPositive(@, name, registry.records[name], now)],
                      registry.records[name])

\* The error, or "ok" with the record and the name it was found under.
resolveName(host, registry, now, cache) ==
  LET start == [current |-> host, seen |-> {}, cache |-> cache, outcome |-> None]
      walk[hop \in 0..ALIAS_BUDGET + 1] ==
        IF hop = 0 THEN start
        ELSE IF walk[hop - 1].outcome # None THEN walk[hop - 1]
        ELSE Hop(walk[hop - 1], registry, now)
      end == walk[ALIAS_BUDGET + 1]
  IN  IF end.outcome = None THEN Fail(end, "ALIAS_LOOP") ELSE end

-----------------------------------------------------------------------------
(***************************************************************************)
(* proxy.ts.  Content is what a request is served from: the pin set, the   *)
(* content port behind it, and the pointers that can be resolved.  Of a    *)
(* port it matters which CIDs it holds, which of them fail their hash, and *)
(* whether it tells why a traversal failed.                                *)
(***************************************************************************)
ManifestPath == <<".vayu", "manifest.json">>

\* fetchPath of fetch.ts over the blocks of a port: bytes, or why there are none.
Traversal(port, cid, segments) ==
  IF cid \in port.corrupt                  THEN "CONTENT_INTEGRITY"
  ELSE IF segments \notin Site[cid].files  THEN "PATH_NOT_FOUND"
  ELSE IF segments \in Site[cid].tooLarge  THEN "RESPONSE_TOO_LARGE"
  ELSE "ok"

\* The port over a published directory answers every failure of a traversal with a
\* missing path; one that tells hands the failure on.
PortAnswer(port, cid, segments) ==
  LET code == Traversal(port, cid, segments)
  IN  IF cid \notin port.holds THEN "CONTENT_UNAVAILABLE"
      ELSE IF code = "ok" \/ port.tells THEN code
      ELSE "PATH_NOT_FOUND"

\* pinGated over the port: bytes for an exact path, or a failure.
fetch(content, cid, segments) ==
  IF cid \notin content.pinned THEN "CONTENT_UNAVAILABLE"
  ELSE PortAnswer(content.port, cid, segments)

\* parseManifest: a manifest that cannot be used is none at all.
parseManifest(cid) ==
  IF Site[cid].manifest = Malformed THEN Missing ELSE Site[cid].manifest

contentCacheKey(type, value) == <<"content", type, value>>

\* site() of step 13: the manifest as remembered, or as read now.
ReadManifest(cache, content, cid) ==
  IF Held(cache.manifests, cid)
  THEN [cache |-> cache, manifest |-> Get(cache.manifests, cid).manifest]
  ELSE LET manifest == IF fetch(content, cid, ManifestPath) = "ok"
                       THEN parseManifest(cid) ELSE Missing
       IN  [cache |-> rememberManifest(cache, cid, manifest), manifest |-> manifest]

Declared(manifest, field) == IF manifest = Missing THEN Missing ELSE manifest[field]

\* The files a directory path answers with, in the order they are asked for.
indexCandidates(manifest) ==
  LET index == Declared(manifest, "index")
  IN  IF index \in {Missing, "index.html"} THEN <<"index.html">>
      ELSE <<index, "index.html">>

\* What the code asks the port for, in turn: the first answer that is not a
\* missing path decides.
FirstAnswer(content, cid, paths) ==
  LET Decides(i) == fetch(content, cid, paths[i]) # "PATH_NOT_FOUND"
      first == CHOOSE i \in DOMAIN paths :
                 Decides(i) /\ \A j \in DOMAIN paths : Decides(j) => i <= j
  IN  IF \E i \in DOMAIN paths : Decides(i)
      THEN [error |-> fetch(content, cid, paths[first]), path |-> paths[first], status |-> 200]
      ELSE [error |-> "PATH_NOT_FOUND", path |-> <<>>, status |-> 404]

\* notFound answers with 404 and fallback with 200; neither is reported missing.
DeclaredPage(content, cid, manifest, otherwise) ==
  LET Usable(field) == /\ Declared(manifest, field) # Missing
                       /\ fetch(content, cid, <<Declared(manifest, field)>>) = "ok"
      Page(field, status) ==
        [error |-> "ok", path |-> <<Declared(manifest, field)>>, status |-> status]
  IN  IF Usable("notFound") THEN Page("notFound", 404)
      ELSE IF Usable("fallback") THEN Page("fallback", 200)
      ELSE otherwise

serveStep13(content, cid, path, cache) ==
  LET read == ReadManifest(cache, content, cid)
      indexes == [i \in DOMAIN indexCandidates(read.manifest) |->
                    Append(path.segments, indexCandidates(read.manifest)[i])]
      asGiven == <<path.segments>>
      direct == FirstAnswer(content, cid, asGiven)
      mapped == FirstAnswer(content, cid,
                  IF path.slash THEN indexes \o asGiven ELSE asGiven \o indexes)
      answer == IF mapped.error = "PATH_NOT_FOUND"
                THEN DeclaredPage(content, cid, read.manifest, mapped) ELSE mapped
      \* The manifest is read only for a directory or after a miss.
      untouched == ~path.slash /\ direct.error # "PATH_NOT_FOUND"
  IN  [cache |-> IF untouched THEN cache ELSE read.cache, answer |-> answer]

\* An entry's value as a string, or Malformed.
sourceValueOf(record, type) == record.entries[type]

\* Step 10 for one source: the CID it stands for, or Missing.
Addressed(content, record, type) ==
  LET value == sourceValueOf(record, type)
  IN  IF type = "cid" THEN value
      ELSE IF value \in DOMAIN content.pointers THEN content.pointers[value]
      ELSE Missing

Abandon(try, failure, cache) ==
  [try EXCEPT !.cache = cache, !.failure = failure, !.fallbacks = Append(@, try.type)]

\* Bytes that fail their hash end the request: no other source is tried.
\* Mutant: they are one more source that failed.
EndsTheRequestNever(error) == FALSE
EndsTheRequest(error) == error = "CONTENT_INTEGRITY"

AfterFetch(try, fetched, cid, key, now) ==
  IF fetched.answer.error = "ok"
  THEN [try EXCEPT !.cache = fetched.cache, !.done = TRUE, !.cid = cid,
                   !.page = fetched.answer]
  ELSE IF EndsTheRequest(fetched.answer.error)
  THEN [try EXCEPT !.cache = fetched.cache, !.done = TRUE,
                   !.failure = fetched.answer.error]
  ELSE Abandon(try, fetched.answer.error,
               putNegative(fetched.cache, key, fetched.answer.error, now))

\* One source of the fallback loop.
TrySource(before, type, record, path, content, now) ==
  LET try == [before EXCEPT !.type = type]
      value == sourceValueOf(record, type)
      key == contentCacheKey(type, value)
      known == negative(try.cache, key, now)
      cid == Addressed(content, record, type)
  IN  IF value = Malformed THEN Abandon(try, "NO_USABLE_RECORD", try.cache)
      ELSE IF known.error # Missing THEN Abandon(try, known.error, known.cache)
      ELSE IF cid = Missing
      THEN Abandon(try, "IPNS_UNRESOLVED",
                   putNegative(known.cache, key, "IPNS_UNRESOLVED", now))
      ELSE AfterFetch(try, serveStep13(content, cid, path, known.cache), cid, key, now)

Refusal(error) == [error |-> error]

\* The answer the last try leads to: its failure, or its page unless the scan
\* refuses it.
Reply(end, outcome) ==
  [cache |-> end.cache,
   answer |-> IF end.cid = Missing THEN Refusal(end.failure)
              ELSE IF end.page.path \in Site[end.cid].refused
              THEN Refusal("BLOCKED_BY_POLICY")
              ELSE [error |-> "ok", status |-> end.page.status, cid |-> end.cid,
                    source |-> end.type, name |-> outcome.name,
                    record |-> outcome.record, fallbacks |-> end.fallbacks]]

\* Steps 11 to 13 over the sources of a record that resolved.
ServeRecord(outcome, path, content, now, cache) ==
  LET sources == sourceCandidates(outcome.record)
      start == [cache |-> cache, type |-> Missing, failure |-> "NO_USABLE_RECORD",
                fallbacks |-> <<>>, done |-> FALSE, cid |-> Missing, page |-> Missing]
      try[i \in 0..Len(sources)] ==
        IF i = 0 THEN start
        ELSE IF try[i - 1].done THEN try[i - 1]
        ELSE TrySource(try[i - 1], sources[i], outcome.record, path, content, now)
  IN  Reply(try[Len(sources)], outcome)

ServeResolved(resolved, path, content, now) ==
  IF resolved.outcome.error # "ok"
  THEN [cache |-> resolved.cache, answer |-> Refusal(resolved.outcome.error)]
  ELSE ServeRecord(resolved.outcome, path, content, now, resolved.cache)

\* requestHost and normaliseHost: the host of an absolute http target, or the
\* Host header; anything else is refused before it is looked at.
requestHost(request) ==
  IF request.form = "http" THEN request.authority
  ELSE IF request.form = "origin" THEN request.host
  ELSE Missing

handleRequest(request, registry, content, now, cache) ==
  LET host == requestHost(request)
  IN  IF request.method \notin {"GET", "HEAD"} \/ host = Missing
      THEN [cache |-> cache, answer |-> Refusal("BLOCKED_BY_POLICY")]
      ELSE IF host = Malformed
      THEN [cache |-> cache, answer |-> Refusal("LABEL_INVALID")]
      ELSE ServeResolved(resolveName(host, registry, now, cache), request.path, content, now)
=============================================================================
