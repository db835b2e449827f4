---------------------------- MODULE TenantSources ----------------------------
(***************************************************************************)
(* How a request of a LARGE tenant finds its database: the configuration   *)
(* of the tenant, cached for a while; the pool with one data source of the *)
(* tenant; the initialisation several requests may wait for; and the       *)
(* eviction of a data source nobody has asked for lately.                  *)
(*                                                                         *)
(* The tenant cache depends on a repository of request scope, so every     *)
(* HTTP request has a new one, and so has the update that invalidates it.  *)
(* Only the editing gateway, resolved once at the start, keeps its cache   *)
(* from one call to the next; nothing but the TTL ends an entry there.     *)
(*                                                                         *)
(* There is one tenant.  A configuration is the number of updates it has   *)
(* seen.  Time is known by what it does: a cached entry passes its TTL, a  *)
(* data source its idle time.                                              *)
(***************************************************************************)
EXTENDS Naturals, FiniteSets

CONSTANTS
    Requests,     \* requests of the tenant
    Editing,      \* those that come through the editing gateway
    Sources,      \* data sources, used once each
    NoSource,
    MaxUpdates    \* bound on the updates of the tenant

VARIABLES
    config,       \* tenants.db_config
    cache,        \* the gateway's TenantCacheService: an entry with its freshness
    pool,         \* DynamicDataSourceService.pool
    askedLately,  \* lastUsedAt is younger than the idle limit
    pending,      \* pendingInitializations
    source,       \* every data source: its state and its configuration
    request       \* requests in flight

sourceVars == <<config, cache, pool, askedLately, pending, source, request>>

ASSUME SourcesAssumption ==
    /\ Editing \subseteq Requests
    /\ NoSource \notin Sources
    /\ MaxUpdates \in Nat

NoCacheEntry == [config |-> 0, fresh |-> FALSE, there |-> FALSE]
CacheEntry(c) == [config |-> c, fresh |-> TRUE, there |-> TRUE]
Waiting == [pc |-> "idle", config |-> 0, source |-> NoSource, lately |-> FALSE]

Ready(s) == s # NoSource /\ source[s].state = "ready"

(***************************************************************************)
(* TenantCacheService.getIsolationConfig.                                  *)
(***************************************************************************)
RouteTo(r, c) == request' = [request EXCEPT ![r].pc = "route", ![r].config = c]

\* A fresh entry answers at once; an expired one is thrown away.
LookUpForever(r) ==  \* a cache that does not look at the time
    /\ request[r].pc = "idle"
    /\ IF r \in Editing /\ cache.there THEN RouteTo(r, cache.config)
       ELSE request' = [request EXCEPT ![r].pc = "lookup"]
    /\ UNCHANGED <<config, cache, pool, askedLately, pending, source>>
LookUp(r) ==
    /\ request[r].pc = "idle"
    /\ IF r \in Editing /\ cache.there /\ cache.fresh
       THEN RouteTo(r, cache.config) /\ UNCHANGED cache
       ELSE /\ request' = [request EXCEPT ![r].pc = "lookup"]
            /\ cache' = IF r \in Editing THEN NoCacheEntry ELSE cache
    /\ UNCHANGED <<config, pool, askedLately, pending, source>>

\* The row is read in the database,
ReadConfig(r) ==
    /\ request[r].pc = "lookup"
    /\ request' = [request EXCEPT ![r].pc = "found", ![r].config = config]
    /\ UNCHANGED <<config, cache, pool, askedLately, pending, source>>

\* and when the answer is back, it goes into the cache, whatever became of the
\* row meanwhile.
StoreConfig(r) ==
    /\ request[r].pc = "found"
    /\ cache' = IF r \in Editing THEN CacheEntry(request[r].config) ELSE cache
    /\ RouteTo(r, request[r].config)
    /\ UNCHANGED <<config, pool, askedLately, pending, source>>

\* The TTL passes.
Expire ==
    /\ cache.there /\ cache.fresh
    /\ cache' = [cache EXCEPT !.fresh = FALSE]
    /\ UNCHANGED <<config, pool, askedLately, pending, source, request>>

\* update: the row is written; the cache it then invalidates is its own.
UpdateTenant ==
    /\ config < MaxUpdates
    /\ config' = config + 1
    /\ UNCHANGED <<cache, pool, askedLately, pending, source, request>>

(***************************************************************************)
(* getTenantDataSource.                                                    *)
(***************************************************************************)
Use(r, s) == request' = [request EXCEPT ![r].pc = "using", ![r].source = s, ![r].lately = TRUE]
Fresh == {s \in Sources : source[s].state \in {"none", "gone"} /\ \A r \in Requests : request[r].source # s}

ReuseUntimed(r) ==  \* a reuse that does not renew lastUsedAt
    /\ request[r].pc = "route" /\ Ready(pool)
    /\ Use(r, pool)
    /\ UNCHANGED <<config, cache, pool, askedLately, pending, source>>
Reuse(r) ==
    /\ request[r].pc = "route" /\ Ready(pool)
    /\ askedLately' = TRUE
    /\ Use(r, pool)
    /\ UNCHANGED <<config, cache, pool, pending, source>>

\* Nothing usable in the pool: wait for who initialises one, or do it.  The
\* pool keeps a data source only while it is initialised.
Initiate(r, s) ==
    /\ source' = [source EXCEPT ![s] = [state |-> "starting", config |-> request[r].config]]
    /\ pending' = s
    /\ request' = [request EXCEPT ![r].pc = "waiting", ![r].source = s]

ConnectEach(r) ==  \* a request that does not ask who else connects
    /\ request[r].pc = "route" /\ ~Ready(pool)
    /\ pool' = NoSource
    /\ \E s \in Fresh : Initiate(r, s)
    /\ UNCHANGED <<config, cache, askedLately>>
Connect(r) ==
    /\ request[r].pc = "route" /\ ~Ready(pool)
    /\ pool' = NoSource
    /\ IF pending # NoSource
       THEN /\ request' = [request EXCEPT ![r].pc = "waiting", ![r].source = pending]
            /\ UNCHANGED <<source, pending>>
       ELSE \E s \in Fresh : Initiate(r, s)
    /\ UNCHANGED <<config, cache, askedLately>>

\* The initialisation ends: in the pool, or with an error.
ConnectedOr(s, state) ==
    /\ source[s].state = "starting"
    /\ source' = [source EXCEPT ![s].state = state]
    /\ request' = [r \in Requests |->
          IF request[r].pc # "waiting" \/ request[r].source # s THEN request[r]
          ELSE IF state = "ready" THEN [request[r] EXCEPT !.pc = "using", !.lately = TRUE]
          ELSE Waiting]
    /\ UNCHANGED <<config, cache>>

Connected(s) ==
    /\ ConnectedOr(s, "ready")
    /\ pool' = s /\ askedLately' = TRUE
    /\ pending' = NoSource

Refused(s) ==
    /\ ConnectedOr(s, "gone")
    /\ pending' = NoSource
    /\ UNCHANGED <<pool, askedLately>>

\* The request is answered, or its queries fail with the data source.
Finish(r) ==
    /\ request[r].pc = "using"
    /\ request' = [request EXCEPT ![r] = Waiting]
    /\ UNCHANGED <<config, cache, pool, askedLately, pending, source>>

(***************************************************************************)
(* evictIdleTenants.                                                       *)
(***************************************************************************)
\* The idle limit passes without anybody asking for the data source.
Age ==
    /\ askedLately
    /\ askedLately' = FALSE
    /\ request' = [r \in Requests |-> [request[r] EXCEPT !.lately = FALSE]]
    /\ UNCHANGED <<config, cache, pool, pending, source>>

Evict ==
    /\ Ready(pool) /\ ~askedLately
    /\ source' = [source EXCEPT ![pool].state = "gone"]
    /\ pool' = NoSource
    /\ UNCHANGED <<config, cache, askedLately, pending, request>>

(***************************************************************************)
(* The specification.                                                      *)
(***************************************************************************)
SourcesInit ==
    /\ config = 0 /\ cache = NoCacheEntry
    /\ pool = NoSource /\ askedLately = FALSE /\ pending = NoSource
    /\ source = [s \in Sources |-> [state |-> "none", config |-> 0]]
    /\ request = [r \in Requests |-> Waiting]

Serve(r) == LookUp(r) \/ ReadConfig(r) \/ StoreConfig(r) \/ Reuse(r) \/ Connect(r) \/ Finish(r)
Opening(s) == Connected(s) \/ Refused(s)

SourcesNext ==
    \/ \E r \in Requests : Serve(r)
    \/ \E s \in Sources : Opening(s)
    \/ Expire \/ UpdateTenant \/ Age \/ Evict

\* Time passes; nothing else is certain to happen.
SourcesSpec == SourcesInit /\ [][SourcesNext]_sourceVars /\ WF_sourceVars(Expire)

(***************************************************************************)
(* Properties.                                                             *)
(***************************************************************************)
Places == {"idle", "lookup", "found", "route", "waiting", "using"}

SourcesTypeOK ==
    /\ config \in 0..MaxUpdates
    /\ cache \in [config : 0..MaxUpdates, fresh : BOOLEAN, there : BOOLEAN]
    /\ pool \in Sources \cup {NoSource} /\ pending \in Sources \cup {NoSource}
    /\ askedLately \in BOOLEAN
    /\ source \in [Sources -> [state : {"none", "starting", "ready", "gone"}, config : 0..MaxUpdates]]
    /\ request \in [Requests -> [pc : Places, config : 0..MaxUpdates,
                                 source : Sources \cup {NoSource}, lately : BOOLEAN]]

\* However many requests find the pool empty together, and however their
\* initialisations end: every data source that is open is the one in the pool,
\* every one being opened the one that others wait for, so that none is left
\* open with nobody to close it and no failed one is handed out again.
NoSourceLost ==
    /\ \A s \in Sources : source[s].state = "ready" <=> s = pool
    /\ \A s \in Sources : source[s].state = "starting" <=> s = pending

\* A data source is not closed while a request uses it that has asked for it
\* within the idle limit.
SourcesInUseStay ==
    [][\A r \in Requests : request[r].pc = "using" /\ request[r].lately
          => source'[request[r].source].state = source[request[r].source].state]_sourceVars

\* Nothing tells the gateway's cache of an update, and a lookup that overlaps
\* one stores the old configuration after it: while editors keep coming, the
\* entry is nevertheless replaced.
EditorsKeepComing == []<><<\E r \in Editing : LookUp(r)>>_sourceVars
CacheCatchesUp ==
    EditorsKeepComing =>
        (cache.there /\ cache.config # config ~> ~cache.there \/ cache.config = config)
=============================================================================
