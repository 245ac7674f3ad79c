------------------------- MODULE ArtistEnrichment -------------------------
(***************************************************************************)
(* What is published of an artist without a reviewer.  Two scripts share   *)
(* one lease: enrich-artists.mjs asks MusicBrainz for every artist of the  *)
(* catalogue, checkpoints each answer and each decision in the lease row   *)
(* and publishes what the row holds; refresh-spotify-stats.mjs links the   *)
(* Spotify identities that a third script (resolve-artist-identities.mjs)  *)
(* has found.  A run may die or outlive its lease anywhere.                *)
(*                                                                         *)
(* An artist stands for its slug and name.  Of the provider's profile the  *)
(* identity and one fill-only field are kept; both name the MusicBrainz    *)
(* artist they were taken from.                                            *)
(***************************************************************************)
EXTENDS Naturals, FiniteSets, Sequences, Functions

CONSTANTS
    Order,      \* the artists there may be, in the order of the catalogue
    Early,      \* those the catalogue has from the start
    Namesakes,  \* pairs of artists of which one bears the other's name
    Answers,    \* Answers[a]: what MusicBrainz may return for the artist's name
    Relations,  \* Relations[a]: sets of pairs the resolver may find for its artists
    Payloads,   \* what the lease row may hold at first, Empty or Imported
    Protected,  \* <<artist, field>> administrators may draft a change of
    Enrichers, Absent, Dead,
    MaxDays,    \* bound: days that pass
    MaxCrashes  \* bound: crashes, expiries under a live run, failed requests

Artists == Range(Order)
Rank(a) == CHOOSE n \in DOMAIN Order : Order[n] = a
NothingFound == [a \in Artists |-> Absent]

VARIABLES
    known,      \* the artists of the catalogue
    artist,     \* their rows: identities, field, protection, statistics
    lease,      \* owner of the row "artist-enrichment", and whether it has expired
    payload,    \* its payload
    resolver,   \* the payload of the row "artist-identities"
    enricher,   \* the runs
    clock,      \* the day
    crashes     \* faults so far

enrichmentVars == <<known, artist, lease, payload, resolver, enricher, clock, crashes>>

EmptyPayload == [profiles |-> NothingFound, cache |-> NothingFound, reviews |-> {}, day |-> Absent,
          work |-> Absent, nextRun |-> 0, receipt |-> Absent]

\* A flat import becomes a result without any search to prove it.
Imported(profiles, reviews) ==
    [EmptyPayload EXCEPT !.profiles = profiles, !.reviews = reviews, !.day = 0]

\* What is assumed of the constants: "Absent" is neither a run nor an answer, a
\* payload is one that no run has written yet, and the resolver finds pairs.
ASSUME EnrichmentAssumption ==
    /\ Order \in Seq(Artists) /\ IsFiniteSet(Artists) /\ Early \subseteq Artists
    /\ Absent \notin Enrichers /\ Dead \notin Enrichers
    /\ \A a \in Artists : Absent \notin Answers[a]
    /\ \A p \in Payloads :
        /\ p.profiles = [a \in Artists |-> p.profiles[a]]
        /\ p = [EmptyPayload EXCEPT !.profiles = p.profiles, !.reviews = p.reviews, !.day = p.day]
    /\ \A a \in DOMAIN Relations : \A linked \in Relations[a] :
        /\ IsFiniteSet(linked)
        /\ \A pair \in linked : pair.spotify # Absent /\ pair = [spotify |-> pair.spotify, mb |-> pair.mb]
    /\ MaxDays \in Nat /\ MaxCrashes \in Nat

Idle == [pc |-> "idle", state |-> Absent, names |-> {}, left |-> {}]

EnrichmentInit ==
    /\ known = Early
    /\ artist = [a \in Artists |-> [mb |-> Absent, field |-> Absent, spotify |-> Absent,
                                    linked |-> FALSE, guarded |-> {}, stats |-> Absent]]
    /\ lease = [owner |-> Absent, live |-> FALSE]
    /\ payload \in Payloads
    /\ resolver = [a \in DOMAIN Relations |-> [phase |-> "base", due |-> 0, linked |-> {}]]
    /\ enricher = [w \in Enrichers |-> Idle]
    /\ clock = 0 /\ crashes = 0

----------------------------------------------------------------------------
(* The lease (lib/catalog/operational-state.ts).                           *)

Holds(w) == lease.owner = w /\ lease.live

Free == lease.owner = Absent \/ ~lease.live

\* A run keeps the payload its claim returned: the later saves build on it.
ClaimLease(w, pc) ==
    /\ enricher[w].pc = "idle" /\ Free
    /\ lease' = [owner |-> w, live |-> TRUE]
    /\ enricher' = [enricher EXCEPT ![w] = [Idle EXCEPT !.pc = pc, !.state = payload]]

\* A save or a transaction of a run that lost its lease ends the run.
Lost(w) ==
    /\ enricher[w].pc \notin {"idle", "release"} /\ ~Holds(w)
    /\ enricher' = [enricher EXCEPT ![w] = [Idle EXCEPT !.pc = "release"]]
    /\ UNCHANGED <<known, artist, lease, payload, resolver, clock, crashes>>

ReleaseLease(w) ==
    /\ enricher[w].pc = "release"
    /\ lease' = IF lease.owner = w THEN [owner |-> Absent, live |-> FALSE] ELSE lease
    /\ enricher' = [enricher EXCEPT ![w] = Idle]
    /\ UNCHANGED <<known, artist, payload, resolver, clock, crashes>>

Mishap == crashes < MaxCrashes /\ crashes' = crashes + 1

Crash(w) ==
    /\ enricher[w].pc # "idle" /\ Mishap
    /\ enricher' = [enricher EXCEPT ![w] = Idle]
    /\ lease' = IF lease.owner = w THEN [lease EXCEPT !.owner = Dead] ELSE lease
    /\ UNCHANGED <<known, artist, payload, resolver, clock>>

Expire ==
    /\ lease.live
    /\ IF lease.owner = Dead THEN UNCHANGED crashes ELSE Mishap
    /\ lease' = [lease EXCEPT !.live = FALSE]
    /\ UNCHANGED <<known, artist, payload, resolver, enricher, clock>>

----------------------------------------------------------------------------
(* Publication (lib/catalog/artist-enrichment-publication.ts).             *)

\* What a search proves: complete, and exactly one candidate of the name.
Proves(search, id) ==
    search # Absent /\ search.count = search.size /\ search.ids = {id}

Evidence(p) == [profiles |-> p.profiles, cache |-> p.cache, reviews |-> p.reviews, day |-> p.day]

\* A profile is published if nobody asked for a review, the persisted search
\* proves it, no other artist has the identity and nobody protects the row.
Accepted(rows, p, a) ==
    /\ p.profiles[a] # Absent /\ a \in known \ p.reviews
    /\ \A b \in known \ {a} : {a, b} \notin Namesakes
    /\ Proves(p.cache[a], p.profiles[a])
    /\ rows[a].mb \in {Absent, p.profiles[a]}
    /\ \A b \in Artists \ {a} : rows[b].mb # p.profiles[a]
    /\ rows[a].mb = Absent => "identity" \notin rows[a].guarded /\ ~rows[a].linked

\* Only what is missing and unprotected is filled.
Filled(row, id) ==
    [row EXCEPT !.mb = id,
                !.field = IF @ = Absent /\ "field" \notin row.guarded THEN id ELSE @]

\* The profiles are taken one after the other: of several that name one identity
\* the first that is accepted gets it, and the others find it taken.
FirstOf(rows, p, a) ==
    \A b \in Artists : Accepted(rows, p, b) /\ p.profiles[b] = p.profiles[a] => Rank(a) <= Rank(b)

Published(rows, p) ==
    [a \in Artists |-> IF Accepted(rows, p, a) /\ FirstOf(rows, p, a) THEN Filled(rows[a], p.profiles[a])
                       ELSE rows[a]]

\* publishArtistEnrichment: one serializable transaction on what the row holds,
\* not on what the run remembers; nothing twice for the same evidence.
PublishRow(w, from, to) ==
    /\ enricher[w].pc = from /\ Holds(w)
    /\ IF payload.day = Absent \/ payload.receipt = Evidence(payload) THEN UNCHANGED <<artist, payload>>
       ELSE /\ artist' = Published(artist, payload)
            /\ payload' = [payload EXCEPT !.receipt = Evidence(payload)]
    /\ enricher' = [enricher EXCEPT ![w].pc = to]
    /\ UNCHANGED <<known, lease, resolver, clock, crashes>>

----------------------------------------------------------------------------
(* A run of enrich-artists.mjs.                                            *)

\* Mutant: work is never resumed.
ResumingMutant(s, names) == FALSE
Resuming(s, names) ==
    s.work # Absent /\ ~s.work.complete /\ s.work.names = names

\* The daily gate is for a complete run over this very catalogue, all of whose
\* profiles have their search.
DailyGate(s, names) ==
    /\ s.nextRun > clock
    /\ \A a \in Artists : s.profiles[a] # Absent => s.cache[a] # Absent
    /\ s.work # Absent => s.work.complete /\ s.work.names = names

\* store.save: the run's view replaces the row, the receipt of the claim included.
Checkpoint(w, s, pc, left) ==
    /\ Holds(w)
    /\ payload' = s
    /\ enricher' = [enricher EXCEPT ![w] = [@ EXCEPT !.pc = pc, !.state = s, !.left = left]]

Begin(w) ==
    LET s == enricher[w].state
        keep == Resuming(s, known) \/ s.work = Absent
        cache == IF keep THEN s.cache ELSE NothingFound
        done == IF Resuming(s, known) THEN {a \in s.work.completed : cache[a] # Absent} ELSE {}
    IN
    /\ enricher[w].pc = "begin"
    /\ IF DailyGate(s, known)
       THEN /\ enricher' = [enricher EXCEPT ![w].pc = "release"]
            /\ UNCHANGED payload
       ELSE Checkpoint(w, [s EXCEPT !.cache = cache, !.reviews = IF keep THEN s.reviews ELSE {},
                               !.day = clock, !.nextRun = 0,
                               !.work = [names |-> known, completed |-> done, complete |-> FALSE]],
                       "artist", known \ done)
    /\ UNCHANGED <<known, artist, lease, resolver, clock, crashes>>

Current(w) == CHOOSE a \in enricher[w].left : \A b \in enricher[w].left : Rank(a) <= Rank(b)

VerifiedSpotify(row) == IF row.linked THEN row.spotify ELSE Absent

\* refreshSpotifyArtistStats: the identity is read before the request and again
\* under the lease; an older observation is not written over a newer one.
Refreshed(rows, a) ==
    IF VerifiedSpotify(rows[a]) = Absent \/ rows[a].stats = clock THEN rows
    ELSE [rows EXCEPT ![a].stats = clock]

RefreshStats(w, from, to, done) ==
    /\ enricher[w].pc = from /\ enricher[w].left # {}
    /\ VerifiedSpotify(artist[Current(w)]) # Absent => Holds(w)
    /\ \E rows \in {artist, Refreshed(artist, Current(w))} : artist' = rows
    /\ enricher' = [enricher EXCEPT ![w].pc = to, ![w].left = @ \ done]
    /\ UNCHANGED <<known, lease, payload, resolver, clock, crashes>>

\* The search is asked for once and persisted before it is judged; a failure is
\* a review that the next run takes back.
Search(w) ==
    LET s == enricher[w].state
        a == Current(w)
        asked == [s EXCEPT !.reviews = @ \ {a}]
    IN
    /\ enricher[w].pc = "search"
    /\ \/ /\ s.cache[a] # Absent
          /\ enricher' = [enricher EXCEPT ![w].pc = "decide", ![w].state = asked]
          /\ UNCHANGED <<payload, crashes>>
       \/ /\ s.cache[a] = Absent
          /\ \E found \in Answers[a] :
                Checkpoint(w, [asked EXCEPT !.cache[a] = found], "decide", enricher[w].left)
          /\ UNCHANGED crashes
       \/ /\ s.cache[a] = Absent /\ Mishap
          /\ Checkpoint(w, [asked EXCEPT !.reviews = @ \cup {a}], "artist", enricher[w].left \ {a})
    /\ UNCHANGED <<known, artist, lease, resolver, clock>>

\* chooseExact and its checks: a profile, or a review for good.  The profile of
\* an earlier run is kept until another one replaces it.
Decided(s, a) ==
    LET proven == {id \in s.cache[a].ids : Proves(s.cache[a], id)}
    IN [s EXCEPT !.profiles[a] = IF proven = {} THEN @ ELSE CHOOSE id \in proven : TRUE,
                 !.reviews = IF proven = {} THEN @ \cup {a} ELSE @,
                 !.work.completed = @ \cup {a}]

Decide(w) ==
    LET a == Current(w) IN
    /\ enricher[w].pc = "decide"
    /\ Checkpoint(w, Decided(enricher[w].state, a), "artist", enricher[w].left \ {a})
    /\ UNCHANGED <<known, artist, lease, resolver, clock, crashes>>

\* The gate is closed by a run that handled every artist it was started for.
Finish(w) ==
    LET s == enricher[w].state
        complete == s.work.names \subseteq s.work.completed
    IN
    /\ enricher[w].pc = "artist" /\ enricher[w].left = {}
    /\ Checkpoint(w, [s EXCEPT !.work.complete = complete,
                               !.nextRun = IF complete THEN clock + 1 ELSE 0], "last", {})
    /\ UNCHANGED <<known, artist, lease, resolver, clock, crashes>>

----------------------------------------------------------------------------
(* The resolver and the Spotify links.                                     *)

\* A failed lookup is due again later; complete ones are never redone.
ResolveStep(a, phase, then, found) ==
    /\ resolver[a].phase = phase /\ resolver[a].due <= clock
    /\ resolver' = [resolver EXCEPT ![a] = [phase |-> then, due |-> 0, linked |-> found]]

ResolveFails(a) ==
    /\ resolver[a].phase # "complete" /\ resolver[a].due <= clock /\ Mishap
    /\ resolver' = [resolver EXCEPT ![a].due = clock + 1]
    /\ UNCHANGED <<known, artist, lease, payload, enricher, clock>>

ResolveBase(a) ==
    /\ a \in known /\ ResolveStep(a, "base", "relations", {})
    /\ UNCHANGED <<known, artist, lease, payload, enricher, clock, crashes>>

ResolveRelations(a) ==
    /\ \E found \in Relations[a] : ResolveStep(a, "relations", "complete", found)
    /\ UNCHANGED <<known, artist, lease, payload, enricher, clock, crashes>>

\* spotifyResolution: a single linked pair.
Resolution(a) ==
    IF a \in DOMAIN Relations /\ Cardinality(resolver[a].linked) = 1
    THEN CHOOSE pair \in resolver[a].linked : TRUE ELSE Absent

\* runSpotifyStats reads the artists and the evidence once, when it starts.
StartStats(w) ==
    /\ enricher[w].pc = "stats-begin"
    /\ enricher' = [enricher EXCEPT ![w].pc = "link", ![w].state = Absent,
          ![w].left = {a \in known : /\ VerifiedSpotify(artist[a]) # Absent \/ Resolution(a) # Absent
                                     /\ artist[a].stats # clock}]
    /\ UNCHANGED <<known, artist, lease, payload, resolver, clock, crashes>>

\* Mutant: the MusicBrainz identity of the row is not compared.
LinkableMutant(a, pair) ==
    /\ pair # Absent
    /\ artist[a].spotify \in {Absent, pair.spotify}
    /\ artist[a].guarded = {}
    /\ \A b \in Artists \ {a} : artist[b].spotify # pair.spotify

\* publishSpotifyIdentity: the evidence of the moment, no contradiction with an
\* identity of the row, no protection, no other owner.
Linkable(a, pair) ==
    /\ pair # Absent
    /\ artist[a].spotify \in {Absent, pair.spotify} /\ artist[a].mb \in {Absent, pair.mb}
    /\ artist[a].guarded = {}
    /\ \A b \in Artists \ {a} : artist[b].spotify # pair.spotify

Link(w) ==
    LET a == Current(w) IN
    /\ enricher[w].pc = "link" /\ enricher[w].left # {} /\ Holds(w)
    /\ \/ /\ VerifiedSpotify(artist[a]) # Absent
          /\ enricher' = [enricher EXCEPT ![w].pc = "stats"]
          /\ UNCHANGED artist
       \/ /\ VerifiedSpotify(artist[a]) = Absent /\ Linkable(a, Resolution(a))
          /\ artist' = [artist EXCEPT ![a].spotify = Resolution(a).spotify, ![a].linked = TRUE]
          /\ enricher' = [enricher EXCEPT ![w].pc = "stats"]
       \/ /\ enricher' = [enricher EXCEPT ![w].left = @ \ {a}]
          /\ UNCHANGED artist
    /\ UNCHANGED <<known, lease, payload, resolver, clock, crashes>>

RefreshLinked(w) == RefreshStats(w, "stats", "link", {Current(w)})

StatsDone(w) ==
    /\ enricher[w].pc = "link" /\ enricher[w].left = {} /\ Holds(w)
    /\ enricher' = [enricher EXCEPT ![w].pc = "release"]
    /\ UNCHANGED <<known, artist, lease, payload, resolver, clock, crashes>>

----------------------------------------------------------------------------
(* Around the runs: a publication names a new artist, an administrator     *)
(* drafts a change of one (a pending change protects its field).           *)

AddArtist(a) ==
    /\ known' = known \cup {a}
    /\ known' # known
    /\ UNCHANGED <<artist, lease, payload, resolver, enricher, clock, crashes>>

Protect(a, f) ==
    /\ <<a, f>> \in Protected
    /\ artist' = [artist EXCEPT ![a].guarded = @ \cup {f}]
    /\ UNCHANGED <<known, lease, payload, resolver, enricher, clock, crashes>>

Tick ==
    /\ clock < MaxDays
    /\ clock' = clock + 1
    /\ UNCHANGED <<known, artist, lease, payload, resolver, enricher, crashes>>

ClaimEnrichment(w) ==
    ClaimLease(w, "first") /\ UNCHANGED <<known, artist, payload, resolver, clock, crashes>>

ClaimStats(w) ==
    ClaimLease(w, "stats-begin") /\ UNCHANGED <<known, artist, payload, resolver, clock, crashes>>

PublishFirst(w) == PublishRow(w, "first", "begin")
PublishLast(w) == PublishRow(w, "last", "release")
RefreshOne(w) == RefreshStats(w, "artist", "search", {})

Run(w) ==
    \/ PublishFirst(w) \/ Begin(w) \/ RefreshOne(w) \/ Search(w) \/ Decide(w) \/ Finish(w)
    \/ PublishLast(w) \/ StartStats(w) \/ Link(w) \/ RefreshLinked(w) \/ StatsDone(w)
    \/ Lost(w) \/ ReleaseLease(w)

EnrichmentNext ==
    \/ \E w \in Enrichers : ClaimEnrichment(w) \/ ClaimStats(w) \/ Run(w) \/ Crash(w)
    \/ Expire \/ Tick
    \/ \E a \in Artists :
        AddArtist(a) \/ \E f \in {"identity", "field"} : Protect(a, f)
    \/ \E a \in DOMAIN Relations : ResolveBase(a) \/ ResolveRelations(a) \/ ResolveFails(a)

EnrichmentSpec == EnrichmentInit /\ [][EnrichmentNext]_enrichmentVars

----------------------------------------------------------------------------
(* What may be relied on.                                                  *)

EnrichmentTyped ==
    /\ known \subseteq Artists /\ clock \in 0 .. MaxDays /\ crashes \in 0 .. MaxCrashes
    /\ lease.owner \in Enrichers \cup {Absent, Dead} /\ lease.live \in BOOLEAN
    /\ \A a \in Artists : artist[a].linked => artist[a].spotify # Absent
    /\ payload.work # Absent => payload.work.completed \subseteq payload.work.names

\* An identity is published only out of a complete answer of the provider with
\* this one candidate, never out of an import alone, and no two artists get the
\* same one, whatever runs died between the request and the publication.
IdentityBacked ==
    /\ EnrichmentTyped
    /\ \A a \in Artists : artist[a].mb # Absent =>
        /\ \E found \in Answers[a] : Proves(found, artist[a].mb)
        /\ \A b \in Artists \ {a} : artist[b].mb # artist[a].mb

\* The two providers of an artist name the pair the resolver linked, whichever
\* script published first: LINKED blocks a late MusicBrainz identity, an early
\* one blocks another Spotify link.
ProvidersAgree ==
    \A a \in Artists : artist[a].spotify # Absent /\ artist[a].mb # Absent =>
        [spotify |-> artist[a].spotify, mb |-> artist[a].mb] \in resolver[a].linked

\* What the scripts say of an artist is sound (artist-enrichment-publication.ts,
\* spotify-identity-publication.ts).
IdentitiesSound == IdentityBacked /\ ProvidersAgree

\* What a run has done over one catalogue is done: a later run over it neither
\* asks the provider again nor forgets a decision, until the run was completed.
ProgressKept ==
    [][payload.work # Absent /\ payload'.work # Absent /\ ~payload.work.complete
       /\ payload.work.names = payload'.work.names =>
         /\ payload.work.completed \subseteq payload'.work.completed
         /\ \A a \in Artists : payload.cache[a] # Absent => payload'.cache[a] = payload.cache[a]]_enrichmentVars

\* Every artist of the catalogue is handled and what was found is published.
Enriched ==
    /\ payload.work # Absent /\ payload.work.complete /\ payload.work.names = known
    /\ payload.receipt = Evidence(payload)
=============================================================================
