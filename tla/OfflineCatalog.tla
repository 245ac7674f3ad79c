--------------------------- MODULE OfflineCatalog ---------------------------
(***************************************************************************)
(* The service worker of a visitor's browser (public/sw.js) between the    *)
(* pages, Cache Storage and GET /api/offline/catalog                       *)
(* (lib/catalog/offline.ts).  Every await is a point where the other calls *)
(* of the worker, the database and the clock go on.                        *)
(*                                                                         *)
(* A revision of the catalogue stands for its body, its X-Catalog-Revision *)
(* and its ETag, which are one digest; None is a body that is no           *)
(* catalogue.  The cache maps keys to entries and has an order of its own, *)
(* the key put last being the last.                                        *)
(***************************************************************************)
EXTENDS Naturals, Sequences, FiniteSets, SequencesExt

CONSTANTS
    Calls,      \* the requests the worker may be answering at once
    Shell,      \* PRECACHE
    Assets,     \* the public assets of the releases visited
    MaxEntries, \* MAX_ENTRIES
    MaxAge,     \* MAX_AGE_MS
    Revisions,  \* what the current editions of the database may be
    MaxNow,     \* bound on the clock
    None

VARIABLES
    now,
    catalog,  \* the current editions in the database, None without any
    worker,   \* "absent", "installing" or "active"
    cache,    \* Cache Storage: of each key rev, the stamp at, and known, a history
              \* of when the server last said that this is its catalogue
    order,    \* the keys of the cache as cache.keys() lists them
    call      \* the calls of the worker

storage == <<cache, order>>
catalogVars == <<now, catalog, worker, storage, call>>

CATALOG == "catalog"
Keys == Shell \cup Assets \cup {CATALOG}

ASSUME OfflineAssumption ==
    /\ None \notin Revisions /\ CATALOG \notin Shell \cup Assets
    /\ MaxEntries \in Nat /\ Cardinality(Shell) < MaxEntries

Entry(rev, at, known) == [rev |-> rev, at |-> at, known |-> known]

\* A call that is doing nothing.  seen is a history of the catalogues the
\* database had during the call.
NoCall == [pc |-> "idle", key |-> None, cached |-> <<>>, store |-> FALSE, etag |-> None,
           got |-> <<>>, old |-> {}, seen |-> {}, answer |-> <<>>]

CatalogInit ==
    /\ now = 0 /\ catalog \in Revisions \cup {None} /\ worker = "absent"
    /\ cache = [key \in {} |-> None] /\ order = <<>> /\ call = [c \in Calls |-> NoCall]

----------------------------------------------------------------------------
(* Cache Storage.                                                          *)

Fresh(e) == now - e.at <= MaxAge

\* The order of the keys without some of them.
Left(keys) == SelectSeq(order, LAMBDA k : k \notin keys)

Delete(keys) ==
    /\ cache' = [k \in DOMAIN cache \ keys |-> cache[k]]
    /\ order' = Left(keys)

\* A put replaces the entry of its key and becomes the newest.
Stored(key, e) ==
    /\ cache' = [k \in DOMAIN cache \cup {key} |-> IF k = key THEN e ELSE cache[k]]
    /\ order' = Append(Left({key}), key)

\* trim: the keys it is about to delete, the oldest beyond MAX_ENTRIES.
Oldest == {order[i] : i \in {j \in DOMAIN order : j + MaxEntries <= Len(order)}}

----------------------------------------------------------------------------
(* The life of the worker.                                                 *)

Begun(c, key) == [NoCall EXCEPT !.pc = "match", !.key = key,
                              !.seen = IF key = CATALOG THEN {catalog} ELSE {}]

\* install: the shell, then an attempt to warm the catalogue.  A page of the
\* shell that cannot be had leaves the worker uninstalled.
Install(c) ==
    /\ worker = "absent" /\ call[c].pc = "idle"
    /\ order' \in SetToSeqs(Shell)
    /\ cache' = [key \in Shell |-> Entry(None, now, 0)]
    /\ worker' = "installing"
    /\ call' = [call EXCEPT ![c] = Begun(c, CATALOG)]
    /\ UNCHANGED <<now, catalog>>

\* activate, once the warming has ended in whatever way.
Activate ==
    /\ worker = "installing" /\ \A c \in Calls : call[c].pc \in {"idle", "done"}
    /\ worker' = "active"
    /\ UNCHANGED <<now, catalog, storage, call>>

\* fetch: a page, or the registration of a page that opens, asks for the
\* catalogue, or a page for an asset.
Request(c) ==
    /\ worker = "active" /\ call[c].pc = "idle"
    /\ \E key \in Keys : call' = [call EXCEPT ![c] = Begun(c, key)]
    /\ UNCHANGED <<now, catalog, worker, storage>>

----------------------------------------------------------------------------
(* Reading the cache.                                                      *)

Asking(c, cached, store) ==
    call' = [call EXCEPT ![c].pc = "ask", ![c].cached = cached, ![c].store = store,
                         ![c].etag = IF cached = <<>> THEN None ELSE cached[1].rev]

Ended(c, status, rev, known) ==
    [call EXCEPT ![c] = [NoCall EXCEPT !.pc = "done", !.key = call[c].key,
         !.seen = IF status = "network" THEN call[c].seen ELSE {},
         !.answer = <<status, rev, IF status = "cached" THEN now - known ELSE 0>>]]

\* Storage that cannot be read does not keep the catalogue from the network;
\* an asset fails with it.
MatchCache(c) ==
    /\ call[c].pc = "match"
    /\ \E readable \in BOOLEAN :
         IF ~readable
         THEN IF call[c].key = CATALOG THEN Asking(c, <<>>, FALSE)
              ELSE call' = Ended(c, "failed", None, 0)
         ELSE LET key == call[c].key IN
              CASE key \notin DOMAIN cache -> Asking(c, <<>>, TRUE)
                [] key \in DOMAIN cache /\ ~Fresh(cache[key]) ->
                     call' = [call EXCEPT ![c].pc = "expired"]
                [] OTHER -> IF key = CATALOG THEN Asking(c, <<cache[key]>>, TRUE)
                            ELSE call' = Ended(c, "cached", None, now)
    /\ UNCHANGED <<now, catalog, worker, storage>>

DeleteExpired(c) ==
    /\ call[c].pc = "expired"
    /\ Delete({call[c].key})
    /\ Asking(c, <<>>, TRUE)
    /\ UNCHANGED <<now, catalog, worker>>

----------------------------------------------------------------------------
(* The network.                                                            *)

\* serveOfflineCatalog: the database is read before the validator.
Served(etag) ==
    IF catalog = None THEN <<503, None>>
    ELSE <<IF etag = catalog THEN 304 ELSE 200, catalog>>

\* Besides the server's answer: the database that cannot be read, a page of
\* somebody else (no catalogue, never saved) and a 304 of a cache on the way,
\* for another revision than the one asked about.
Replies(etag) ==
    {Served(etag), <<503, None>>, <<200, None>>} \cup {<<304, r>> : r \in Revisions \ {etag}}

RevalidatedMutant(c, reply) ==  \* Mutant: any 304 renews what is saved.
    /\ reply[1] = 304 /\ call[c].etag # None

\* Answers and exceptions of the catalogue's fetch.  The retry is without a
\* validator; a second 304 is answered 502.
Revalidated(c, reply) ==
    /\ reply[1] = 304 /\ call[c].etag # None
    /\ reply[2] = call[c].cached[1].rev

Saving(c, rev) ==
    IF call[c].store
    THEN [call EXCEPT ![c].pc = "save", ![c].cached = <<>>, ![c].etag = None,
                      ![c].got = <<Entry(rev, 0, now)>>]
    ELSE Ended(c, "network", rev, now)

Catalog(c) ==
    /\ call[c].pc \in {"ask", "again"} /\ call[c].key = CATALOG
    /\ \E reply \in Replies(IF call[c].pc = "ask" THEN call[c].etag ELSE None) :
         call' = CASE call[c].pc = "ask" /\ Revalidated(c, reply) ->
                        Saving(c, call[c].cached[1].rev)
                   [] call[c].pc = "ask" /\ reply[1] = 304 /\ ~Revalidated(c, reply) ->
                        [call EXCEPT ![c].pc = "again"]
                   [] call[c].pc = "again" /\ reply[1] = 304 -> Ended(c, "failed", None, 0)
                   [] reply[1] = 200 /\ reply[2] # None -> Saving(c, reply[2])
                   [] OTHER -> Ended(c, "failed", None, 0)
    /\ UNCHANGED <<now, catalog, worker, storage>>

\* No connection: what was read of the cache before, or an exception.
Offline(c) ==
    IF call[c].key = CATALOG /\ call[c].cached # <<>>
    THEN Ended(c, "cached", call[c].cached[1].rev, call[c].cached[1].known)
    ELSE Ended(c, "failed", None, 0)

Unreachable(c) ==
    /\ call[c].pc \in {"ask", "again"}
    /\ call' = Offline(c)
    /\ UNCHANGED <<now, catalog, worker, storage>>

Asset(c) ==
    /\ call[c].pc = "ask" /\ call[c].key # CATALOG
    /\ \E cacheable \in BOOLEAN :
         call' = IF cacheable
                 THEN [call EXCEPT ![c].pc = "save",
                                   ![c].got = <<Entry(None, 0, 0)>>]
                 ELSE Ended(c, "network", None, 0)
    /\ UNCHANGED <<now, catalog, worker, storage>>

----------------------------------------------------------------------------
(* Saving: the stamp is of the put, and the keys to trim are read after it *)
(* and deleted later.  Storage may fail; the answer of the catalogue is    *)
(* given nevertheless, that of an asset is lost.                           *)

Answered(c) == Ended(c, "network", call[c].got[1].rev, call[c].got[1].known)

StorageFails(c) ==
    /\ call[c].pc \in {"save", "keys"}
    /\ call' = IF call[c].key = CATALOG THEN Answered(c) ELSE Ended(c, "failed", None, 0)
    /\ UNCHANGED <<now, catalog, worker, storage>>

Save(c) ==
    /\ call[c].pc = "save"
    /\ Stored(call[c].key, [call[c].got[1] EXCEPT !.at = now])
    /\ call' = [call EXCEPT ![c].pc = "keys"]
    /\ UNCHANGED <<now, catalog, worker>>

TrimKeys(c) ==
    /\ call[c].pc = "keys"
    /\ call' = [call EXCEPT ![c].pc = "trim", ![c].old = Oldest]
    /\ UNCHANGED <<now, catalog, worker, storage>>

Trim(c) ==
    /\ call[c].pc = "trim"
    /\ Delete(call[c].old)
    /\ call' = Answered(c)
    /\ UNCHANGED <<now, catalog, worker>>

Return(c) ==
    /\ call[c].pc = "done"
    /\ call' = [call EXCEPT ![c] = NoCall]
    /\ UNCHANGED <<now, catalog, worker, storage>>

----------------------------------------------------------------------------
(* The database and the clock.                                             *)

Change ==
    /\ \E r \in (Revisions \cup {None}) \ {catalog} :
         /\ catalog' = r
         /\ call' = [c \in Calls |-> IF call[c].pc \in {"idle", "done"} \/ call[c].key # CATALOG THEN call[c]
                                     ELSE [call[c] EXCEPT !.seen = @ \cup {r}]]
    /\ UNCHANGED <<now, worker, storage>>

\* A call is short beside the retention of seven days.
Later ==
    /\ now < MaxNow
    /\ \A c \in Calls : call[c].pc \in {"idle", "done"}
    /\ now' = now + 1
    /\ UNCHANGED <<catalog, worker, storage, call>>

Step(c) ==
    \/ Install(c) \/ Request(c) \/ MatchCache(c) \/ DeleteExpired(c)
    \/ Catalog(c) \/ Unreachable(c) \/ Asset(c)
    \/ StorageFails(c) \/ Save(c) \/ TrimKeys(c) \/ Trim(c) \/ Return(c)

CatalogNext == Activate \/ Change \/ Later \/ \E c \in Calls : Step(c)

CatalogSpec == CatalogInit /\ [][CatalogNext]_catalogVars

----------------------------------------------------------------------------
(* Properties.                                                             *)

\* What a page gets from the network as the catalogue is what the database had
\* at some moment of the call, also when a 304 turned it into the saved body:
\* a 304 for another revision is never taken for it.
AnswerCurrent ==
    \A c \in Calls : LET a == call[c].answer IN
        call[c].pc = "done" /\ a[1] = "network" /\ call[c].key = CATALOG => a[2] \in call[c].seen

\* What a page gets without a connection was the server's own catalogue within
\* the retention, however often it was read, renewed, trimmed or overwritten by
\* calls that overlapped.
RetainedHonest ==
    \A c \in Calls : LET a == call[c].answer IN
        call[c].pc = "done" /\ a[1] = "cached" /\ call[c].key = CATALOG
        => a[2] \in Revisions /\ a[3] <= MaxAge

\* What a page gets as the catalogue is what the database had during the call or, without a
\* connection, within the retention (public/sw.js, api/catalog).
CatalogHonest == AnswerCurrent /\ RetainedHonest
=============================================================================
