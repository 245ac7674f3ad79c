--------------------------- MODULE CatalogReview ---------------------------
(***************************************************************************)
(* Who may change the public catalogue, and how.  One festival and its     *)
(* current edition are written by three paths that know nothing of each    *)
(* other but what the database shows them:                                 *)
(*   - the ingestion, which publishes the additions of a candidate it drew *)
(*     from the catalogue some time ago (lib/catalog/publication.ts);      *)
(*   - the administrators, who save drafts or refresh the source, and      *)
(*     approve the queued changes one by one (lib/admin-store.ts);         *)
(*   - the import agent, whose reviewed facts replace both billings.       *)
(* Each function is a serializable transaction, hence one action; what a   *)
(* path read before its transaction is kept in a variable of its own.      *)
(***************************************************************************)
EXTENDS Naturals, FiniteSets, Sequences, SequencesExt, FiniteSetsExt, TLC

CONSTANTS
    Artists,        \* the artists sources and drafts may name
    Slug,           \* artistSlug: two names may fall on one slug
    Texts,          \* values of the scalar fields
    Catalogs,       \* what the festival may be when it is first written to
    Absent,         \* an absent row, a null value
    Editors,        \* the administrators
    Pages,          \* what the official source may show
    DraftValues,    \* per kind of resource, the values a draft may carry
    Facts,          \* the decisions of the agent
    MaxChanges,     \* bound: changes ever queued
    MaxPublications \* bound: publications by the ingestion and the agent

Kinds == {"FESTIVAL", "LINK", "PLAYLIST"}
Billings == {"HEADLINER", "LINEUP"}
Scalars == {"city", "officialUrl"}
Fields == Scalars \cup {"headliners", "lineup"}
Other(b) == CHOOSE o \in Billings : o # b
BillingOf(field) == IF field = "headliners" THEN "HEADLINER" ELSE "LINEUP"

VARIABLES
    catalog,      \* the festival: its scalars, its lineup entries, the artists known
    publications, \* CatalogPublication rows, with the refresh each one requested
    resources,    \* AdminResourceState: revision and approved values
    drafts,       \* AdminDraft rows
    changes,      \* AdminChange rows, in the order of their ids; Absent when deleted
    run,          \* the parser run of refreshFestival: its status, what it read
    candidate,    \* the ingestion candidate: its page, what it was compared with
    agentSaw      \* the catalogue the agent's snapshot was taken of, or Absent

vars == <<catalog, publications, resources, drafts, changes, run, candidate, agentSaw>>

----------------------------------------------------------------------------
(* The lineup.  An entry is keyed by its artist: one per edition.          *)

Billed(entries, b) == {a \in Artists : entries[a] # Absent /\ entries[a].billing = b}

Catalog == [city : Texts, officialUrl : Texts, known : SUBSET Artists,
            entries : [Artists -> {Absent} \cup
                [billing : Billings, position : Nat, status : {"ANNOUNCED", "CANCELLED"}]]]

\* The unique keys of LineupEntry and Artist: a position of a billing is held once, an act in
\* the bill is a known artist, no two artists share a slug.
SoundLineup(cat) ==
    /\ \A a, b \in Artists : cat.entries[a] # Absent /\ cat.entries[b] # Absent /\ a # b =>
           \/ cat.entries[a].billing # cat.entries[b].billing
           \/ cat.entries[a].position # cat.entries[b].position
    /\ \A a \in Artists : cat.entries[a] # Absent => a \in cat.known
    /\ \A a, b \in cat.known : Slug[a] = Slug[b] => a = b

Bill == Seq(Artists)

\* What the constants are taken to be: the festival is first written to as the schema allows,
\* and pages, drafts and decisions have values of the fields they name.
ReviewAssumption ==
    /\ IsFiniteSet(Artists)
    /\ \A c \in Catalogs : c \in Catalog /\ SoundLineup(c)
    /\ \A p \in Pages : /\ "city" \in DOMAIN p => p.city \in Texts
                        /\ "lineup" \in DOMAIN p => p.lineup \in Bill
                        /\ p.additive \in BOOLEAN /\ p.explicitOnly \in BOOLEAN
    /\ \A k \in Kinds : \A values \in DraftValues[k] :
           /\ DOMAIN values \subseteq Fields
           /\ \A f \in DOMAIN values : values[f] \in IF f \in Scalars THEN Texts ELSE Bill
    /\ Facts \subseteq [city : Texts, headliners : Bill, lineup : Bill]
    /\ {MaxChanges, MaxPublications} \subseteq Nat
    /\ Absent \notin Catalog /\ Absent \notin Kinds \X Nat

ASSUME ReviewAssumption

\* The names of a billing by position, as the catalogue shows them.
ByPosition(positions) ==
    SetToSortSeq(DOMAIN positions, LAMBDA x, y : positions[x] < positions[y])

Names(entries, b) == ByPosition([a \in Billed(entries, b) |-> entries[a].position])

Shown(cat, field) ==
    IF field \in Scalars THEN cat[field] ELSE Names(cat.entries, BillingOf(field))

\* ensureArtist accepts every name: no two artists fall on one slug.
Identified(cat, names) ==
    \A a \in names, b \in names \cup cat.known : Slug[a] = Slug[b] => a = b

Entry(b, p) == [billing |-> b, position |-> p, status |-> "ANNOUNCED"]

\* Where a list names an artist first.
Place(names, a) ==
    CHOOSE n \in DOMAIN names : names[n] = a /\ \A m \in DOMAIN names : names[m] = a => n <= m

\* replaceLineup: nothing to do, or the billing is deleted and written anew.  A list that
\* names an artist twice was refused before (stringList).
MayReplace(cat, b, names) ==
    /\ IsInjective(names)
    /\ \/ names = Names(cat.entries, b)
       \/ /\ ToSet(names) \cap Billed(cat.entries, Other(b)) = {}
          /\ Identified(cat, ToSet(names))

Replaced(cat, b, names) ==
    IF names = Names(cat.entries, b) THEN cat
    ELSE [cat EXCEPT
        !.known = @ \cup ToSet(names),
        !.entries = [a \in Artists |->
            IF a \in ToSet(names) THEN Entry(b, Place(names, a) - 1)
            ELSE IF a \in Billed(cat.entries, b) THEN Absent ELSE cat.entries[a]]]

\* addLineupArtist, for every name that is added, in the order of the page.
MayAdd(cat, b, added) ==
    /\ Identified(cat, added)
    /\ added \cap Billed(cat.entries, Other(b)) = {}

\* The position behind the last one of a billing.
Behind(entries, b) ==
    IF Billed(entries, b) = {} THEN 0
    ELSE Max({entries[a].position : a \in Billed(entries, b)}) + 1

Extended(cat, b, names, added) ==
    LET new == {a \in added : cat.entries[a] = Absent}
        earlier(a) == {x \in new : Place(names, x) < Place(names, a)}
    IN  [cat EXCEPT
            !.known = @ \cup added,
            !.entries = [a \in Artists |->
                IF a \in new THEN Entry(b, Behind(cat.entries, b) + Cardinality(earlier(a)))
                ELSE cat.entries[a]]]

\* Mutant: strictBefore is dropped.
FreshMutant(cat, field, before, after) == TRUE

\* A scalar of a parser is written over the value it was compared with only.
Fresh(cat, field, before, after) == cat[field] \in {before, after}

\* createPublication: nothing for no change; a lineup asks for playlists
\* unless the publisher defers that.
Publish(source, fields, deferred) ==
    publications' = IF fields = {} THEN publications
        ELSE publications \cup
            {[source |-> source, fields |-> fields,
              refresh |-> ~deferred /\ fields \cap {"headliners", "lineup"} # {}]}

By(path) == {p \in publications : p.source[1] = path}

----------------------------------------------------------------------------
Init ==
    /\ catalog \in Catalogs
    /\ publications = {} /\ drafts = {} /\ changes = <<>>
    /\ resources = [k \in Kinds |-> [revision |-> 0, values |-> [f \in Fields |-> Absent]]]
    /\ run = [status |-> "none", saw |-> Absent]
    /\ candidate = Absent /\ agentSaw = Absent

----------------------------------------------------------------------------
(* Administrators.                                                         *)

\* The changes of a draft, one per field, against the values approved so far.
DraftChanges(k, base, d, values) ==
    [n \in 1 .. Cardinality(DOMAIN values) |->
        LET f == SetToSeq(DOMAIN values)[n]
        IN [kind |-> k, field |-> f, base |-> base, before |-> resources[k].values[f],
            after |-> values[f], draft |-> d, parser |-> FALSE, status |-> "PENDING"]]

\* A row of every kind and revision: @@unique([resourceKind, resourceKey, revision]).
RevisionTaken(k) == \E d \in drafts : d.kind = k /\ d.revision = resources[k].revision + 1

SaveDraft(e, k, values) ==
    /\ ~RevisionTaken(k)
    /\ Len(changes) + Cardinality(DOMAIN values) <= MaxChanges
    /\ LET d == <<k, resources[k].revision>>
       IN /\ drafts' = drafts \cup {[id |-> d, kind |-> k, by |-> e, status |-> "QUEUED",
                                     base |-> resources[k].revision,
                                     revision |-> resources[k].revision + 1]}
          /\ changes' = changes \o DraftChanges(k, resources[k].revision, d, values)
    /\ UNCHANGED <<catalog, publications, resources, run, candidate, agentSaw>>

ChangesOf(d) == {c \in DOMAIN changes : changes[c] # Absent /\ changes[c].draft = d.id}
Undecided(d) == \A c \in ChangesOf(d) : changes[c].status = "PENDING"
Without(d) == [c \in DOMAIN changes |-> IF c \in ChangesOf(d) THEN Absent ELSE changes[c]]

UpdateDraft(e, d, values) ==
    /\ d.by = e /\ Undecided(d) /\ resources[d.kind].revision = d.base
    /\ Len(changes) + Cardinality(DOMAIN values) <= MaxChanges
    /\ changes' = Without(d) \o DraftChanges(d.kind, d.base, d.id, values)
    /\ UNCHANGED <<catalog, publications, resources, drafts, run, candidate, agentSaw>>

DeleteDraft(e, d) ==
    /\ d.by = e /\ Undecided(d)
    /\ changes' = Without(d)
    /\ drafts' = drafts \ {d}
    /\ UNCHANGED <<catalog, publications, resources, run, candidate, agentSaw>>

\* The draft is closed by the last decision on one of its changes.
Close(c, status) ==
    drafts' = {IF d.id = changes[c].draft /\ \A x \in ChangesOf(d) \ {c} :
                      changes[x].status # "PENDING"
               THEN [d EXCEPT !.status = status] ELSE d : d \in drafts}

Pending(c) == changes[c] # Absent /\ changes[c].status = "PENDING"

Reject(c) ==
    /\ Pending(c)
    /\ changes' = [changes EXCEPT ![c].status = "REJECTED"]
    /\ Close(c, "REJECTED")
    /\ UNCHANGED <<catalog, publications, resources, run, candidate, agentSaw>>

\* publishAdminFestivalChange: lists replace their billing, scalars of a parser
\* are compared first.
MayApply(cat, ch) ==
    IF ch.field \in Scalars THEN ch.parser => Fresh(cat, ch.field, ch.before, ch.after)
    ELSE MayReplace(cat, BillingOf(ch.field), ch.after)

Applied(cat, ch) ==
    IF ch.field \in Scalars THEN [cat EXCEPT ![ch.field] = ch.after]
    ELSE Replaced(cat, BillingOf(ch.field), ch.after)

\* Mutant: a base of the past will do.
CurrentMutant(ch) == ch.base <= resources[ch.kind].revision

Current(ch) == ch.base = resources[ch.kind].revision

\* decideChange: a base that is not the current revision is refused (the
\* CONFLICT written before the error is rolled back with it), as is what the
\* catalogue refuses.  Approval moves the other changes of the draft along.
Approve(c) ==
    LET ch == changes[c] IN
    /\ Pending(c) /\ Current(ch)
    /\ IF ch.kind = "PLAYLIST" THEN UNCHANGED <<catalog, publications>>
       ELSE /\ MayApply(catalog, ch)
            /\ catalog' = Applied(catalog, ch)
            /\ Publish(<<"admin", c>>, {ch.field} \ {f \in Fields : Shown(catalog, f) = ch.after}, FALSE)
    /\ resources' = [resources EXCEPT ![ch.kind].revision = @ + 1,
                                      ![ch.kind].values[ch.field] = ch.after]
    /\ changes' = [x \in DOMAIN changes |->
                     CASE x = c -> [ch EXCEPT !.status = "APPROVED"]
                       [] x # c /\ ch.draft # Absent /\ Pending(x) /\ changes[x].draft = ch.draft
                            -> [changes[x] EXCEPT !.base = resources[ch.kind].revision + 1]
                       [] OTHER -> changes[x]]
    /\ Close(c, "APPLIED")
    /\ UNCHANGED <<run, candidate, agentSaw>>

\* refreshFestival, before the fetch: the catalogue is read, the run recorded.
RefreshStart ==
    /\ run.status # "RUNNING"
    /\ run' = [status |-> "RUNNING", saw |-> catalog]
    /\ UNCHANGED <<catalog, publications, resources, drafts, changes, candidate, agentSaw>>

\* ... and after it: a change for every field that differs from what was read,
\* based on revision 0 and on no draft.
ParserFields(page, saw) ==
    {f \in DOMAIN page \cap {"city"} : page[f] # saw[f]} \cup
    {f \in DOMAIN page \cap {"lineup"} : page[f] # Names(saw.entries, "LINEUP")}

RefreshQueue(page) ==
    LET fields == ParserFields(page, run.saw) IN
    /\ run.status = "RUNNING" /\ run.saw # Absent
    /\ Len(changes) + Cardinality(fields) <= MaxChanges
    /\ changes' = changes \o [n \in 1 .. Cardinality(fields) |->
           LET f == SetToSeq(fields)[n]
           IN [kind |-> "FESTIVAL", field |-> f, base |-> 0, draft |-> Absent,
               before |-> IF f = "lineup" THEN Names(run.saw.entries, "LINEUP") ELSE run.saw[f],
               after |-> page[f], parser |-> TRUE, status |-> "PENDING"]]
    /\ run' = [run EXCEPT !.saw = Absent]
    /\ UNCHANGED <<catalog, publications, resources, drafts, candidate, agentSaw>>

\* The run's row is written last, and marked failed from wherever it stopped:
\* a failure does not take back what was queued.
RefreshEnd ==
    /\ run.status = "RUNNING"
    /\ \E s \in {"FAILED"} \cup (IF run.saw = Absent THEN {"SUCCEEDED"} ELSE {}) :
           run' = [status |-> s, saw |-> Absent]
    /\ UNCHANGED <<catalog, publications, resources, drafts, changes, candidate, agentSaw>>

----------------------------------------------------------------------------
(* The ingestion.                                                          *)

\* diffFestival: the names a page adds; a name that is gone needs a review.
Additions(page, saw) ==
    IF "lineup" \notin DOMAIN page THEN {}
    ELSE ToSet(page.lineup) \ Billed(saw.entries, "LINEUP")

SafeDiff(page, saw) ==
    /\ "lineup" \in DOMAIN page =>
           page.additive \/ Billed(saw.entries, "LINEUP") \subseteq ToSet(page.lineup)
    /\ Additions(page, saw) # {} \/ ("city" \in DOMAIN page /\ page.city # saw.city)

\* A candidate is drawn from the catalogue of the moment and persisted.
Observe(page) ==
    /\ candidate = Absent /\ SafeDiff(page, catalog)
    /\ Cardinality(By("ingestion")) < MaxPublications
    /\ candidate' = [page |-> page, saw |-> catalog]
    /\ UNCHANGED <<catalog, publications, resources, drafts, changes, run, agentSaw>>

WithCity(cat, page) ==
    IF "city" \in DOMAIN page THEN [cat EXCEPT !.city = page.city] ELSE cat

\* publishIngestionResult: all changes of the candidate or none, the candidate
\* being PUBLISHED, SUPERSEDED (nothing was left to change) or refused.
PublishCandidate ==
    /\ candidate # Absent
    /\ LET page == candidate.page
           added == Additions(page, candidate.saw)
       IN \/ /\ "city" \in DOMAIN page => Fresh(catalog, "city", candidate.saw.city, page.city)
             /\ MayAdd(catalog, "LINEUP", added)
             /\ catalog' = Extended(WithCity(catalog, page), "LINEUP", page.lineup, added)
             /\ Publish(<<"ingestion", Cardinality(By("ingestion"))>>,
                        {f \in {"city"} : f \in DOMAIN page /\ page[f] # catalog[f]} \cup
                        {f \in {"lineup"} : \E a \in added : catalog.entries[a] = Absent},
                        page.explicitOnly)
          \/ UNCHANGED <<catalog, publications>>
    /\ candidate' = Absent
    /\ UNCHANGED <<resources, drafts, changes, run, agentSaw>>

----------------------------------------------------------------------------
(* The import agent.                                                       *)

Snapshot ==
    /\ agentSaw = Absent /\ Cardinality(By("agent")) < MaxPublications
    /\ agentSaw' = catalog
    /\ UNCHANGED <<catalog, publications, resources, drafts, changes, run, candidate>>

Cancelled(cat) == {a \in Artists : cat.entries[a] # Absent /\ cat.entries[a].status = "CANCELLED"}

\* Mutant: occupied positions are not skipped.
FreePositionMutant(cat, b, n) == n - 1

\* The n-th position of a billing that no cancelled entry occupies.
FreePosition(cat, b, n) ==
    LET occupied == {cat.entries[a].position : a \in Cancelled(cat) \cap Billed(cat.entries, b)}
        free == 0 .. (n + Cardinality(occupied)) \ occupied
    IN CHOOSE p \in free : Cardinality({q \in free : q < p}) = n - 1

\* Both billings are written together; cancelled entries stay where they are.
Reviewed(cat, heads, lineup) ==
    [cat EXCEPT
        !.known = @ \cup ToSet(heads) \cup ToSet(lineup),
        !.entries = [a \in Artists |->
            IF a \in ToSet(heads)
                THEN Entry("HEADLINER", FreePosition(cat, "HEADLINER", Place(heads, a)))
            ELSE IF a \in ToSet(lineup)
                THEN Entry("LINEUP", FreePosition(cat, "LINEUP", Place(lineup, a)))
            ELSE IF a \in Cancelled(cat) THEN cat.entries[a] ELSE Absent]]

Announced(cat, b) == SelectSeq(Names(cat.entries, b), LAMBDA a : a \notin Cancelled(cat))

SameBill(cat, f) ==
    Announced(cat, "HEADLINER") = f.headliners /\ Announced(cat, "LINEUP") = f.lineup

MayReview(cat, f) ==
    /\ IsInjective(f.headliners) /\ IsInjective(f.lineup)
    /\ ToSet(f.headliners) \cap ToSet(f.lineup) = {}
    /\ \/ SameBill(cat, f)
       \/ /\ Identified(cat, ToSet(f.headliners) \cup ToSet(f.lineup))
          /\ (ToSet(f.headliners) \cup ToSet(f.lineup)) \cap Cancelled(cat) = {}

\* publishAgentFestivalResolution, behind the comparison of the snapshot.
Resolve(f) ==
    /\ agentSaw = catalog
    /\ MayReview(catalog, f)
    /\ catalog' = [IF SameBill(catalog, f) THEN catalog
                   ELSE Reviewed(catalog, f.headliners, f.lineup) EXCEPT !.city = f.city]
    /\ Publish(<<"agent", Cardinality(By("agent"))>>,
               (IF SameBill(catalog, f) THEN {} ELSE {"headliners", "lineup"})
                   \cup {x \in {"city"} : catalog.city # f.city}, TRUE)
    /\ agentSaw' = Absent
    /\ UNCHANGED <<resources, drafts, changes, run, candidate>>

GiveUp ==
    /\ agentSaw # Absent
    /\ agentSaw' = Absent
    /\ UNCHANGED <<catalog, publications, resources, drafts, changes, run, candidate>>

----------------------------------------------------------------------------
Next ==
    \/ \E e \in Editors :
        \/ \E k \in Kinds : \E values \in DraftValues[k] : SaveDraft(e, k, values)
        \/ \E d \in drafts : DeleteDraft(e, d) \/ \E values \in DraftValues[d.kind] : UpdateDraft(e, d, values)
    \/ \E c \in DOMAIN changes : Reject(c) \/ Approve(c)
    \/ RefreshStart \/ RefreshEnd \/ \E page \in Pages : RefreshQueue(page)
    \/ (\E page \in Pages : Observe(page)) \/ PublishCandidate
    \/ Snapshot \/ GiveUp \/ \E f \in Facts : Resolve(f)

Spec == Init /\ [][Next]_vars

----------------------------------------------------------------------------
(* What the three paths promise each other.                                *)

\* The rows are well formed.
TypeOK ==
    /\ catalog \in Catalog
    /\ \A p \in publications : p.fields \subseteq Fields /\ p.refresh \in BOOLEAN
    /\ \A k \in Kinds : resources[k].revision \in Nat
    /\ \A d \in drafts : d.status \in {"QUEUED", "APPLIED", "REJECTED"} /\ d.by \in Editors
    /\ \A c \in DOMAIN changes : changes[c] = Absent \/ changes[c].status \in {"PENDING", "APPROVED", "REJECTED"}
    /\ run.status \in {"none", "RUNNING", "FAILED", "SUCCEEDED"}

\* However the three paths take turns at an edition, it stays within the unique keys
\* of its rows (applyFestivalChanges, publishAgentFestivalResolution).
LineupIsSound == TypeOK /\ SoundLineup(catalog)

\* A change a visitor can see is one new publication that names each field it
\* changed, and an approval that changes the bill asks for new playlists
\* (createPublication).
LedgerExplains ==
    [][catalog' # catalog => \A f \in Fields : Shown(catalog, f) # Shown(catalog, f)' =>
         \E p \in publications' \ publications :
            /\ publications' = publications \cup {p}
            /\ f \in p.fields
            /\ p.source[1] = "admin" /\ f \notin Scalars => p.refresh]_vars

\* The change of a draft is approved over the value its draft was saved
\* against: no approval in between is overwritten unseen (baseRevision).
NoBlindApproval ==
    [][\A c \in DOMAIN changes :
         changes[c] # Absent /\ changes[c].draft # Absent /\ Pending(c)
         /\ changes'[c] # Absent /\ changes'[c].status = "APPROVED" =>
            resources[changes[c].kind].values[changes[c].field] = changes[c].before]_vars

\* What a parser saw reaches the public city only over the value it was compared
\* with, however long its change waited for the publication or the approval.
ParserComparesFirst ==
    [][catalog'.city # catalog.city =>
         \/ agentSaw # agentSaw'
         \/ candidate # candidate' /\ candidate.saw.city = catalog.city
         \/ \E c \in DOMAIN changes : Pending(c) /\ changes'[c] # changes[c]
                /\ (changes[c].parser => changes[c].before = catalog.city)]_vars

\* A cancelled entry is not revived, moved or dropped by the ingestion or by the
\* agent: only an administrator's approval touches it.
CancellationsKept ==
    [][catalog' # catalog => \A a \in Cancelled(catalog) :
         catalog'.entries[a] = catalog.entries[a] \/ resources' # resources]_vars

\* A change of the catalogue is published with its fields; ingestion and agent leave
\* cancelled entries alone, and no parser overwrites a city it was not compared with.
PublicationsExplained == LedgerExplains /\ CancellationsKept /\ ParserComparesFirst
=============================================================================
