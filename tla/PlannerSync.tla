----------------------------- MODULE PlannerSync -----------------------------
(***************************************************************************)
(* The plan of a visitor on each device (components/LocalPlanner.tsx), its *)
(* synchronisation with the account (components/AccountSyncPanel.tsx) and  *)
(* the documents of the account (app/api/sync/[kind], app/api/spotify/     *)
(* sync).  The plan is four documents, each with its own revision; a       *)
(* synchronisation writes them one after the other.                        *)
(*                                                                         *)
(* Festivals, artists, playlist festivals and attendances are Items.       *)
(***************************************************************************)
EXTENDS Naturals, Sequences, FiniteSets, SequencesExt

CONSTANTS
    Devices,
    Items,      \* what can be a favourite, attended, collected
    Filters,    \* the saved filters, EmptyFilter among them
    EmptyFilter,
    Order,      \* the documents synchronised, in the order of the code
    MaxActs     \* bound on what the visitor does: edits and buttons

AllKinds == <<"favorites", "collections", "saved-filters", "plans">>
Kinds == ToSet(Order)

ASSUME PlannerAssumption ==
    EmptyFilter \in Filters /\ "collections" \in Kinds /\ Kinds \subseteq ToSet(AllKinds)
    /\ Order \in Seq(Kinds) /\ IsInjective(Order)
    /\ Order = SelectSeq(AllKinds, LAMBDA k : k \in Kinds)

Attendances == {"going", "not-going"}

\* The payload of a kind is a set of pairs of an item and what is said of it;
\* that of the collections is the festivals chosen for the playlist or, after an
\* import, the playlists of Spotify.
Filter(f) == {<<f, "filter">>}
Empty == [k \in Kinds |-> IF k = "saved-filters" THEN Filter(EmptyFilter) ELSE {}]
Imported == {<<"spotify", "imported">>}

NoDocument == [revision |-> 0, payload |-> {}]
Document(revision, payload) == [revision |-> revision, payload |-> payload]

VARIABLES
    account,  \* SyncDocument: the document of each kind
    local,    \* the plan on each device
    docs,     \* the documents each panel has, as it last heard of them
    sync,     \* what each panel is doing
    conflict, \* the conflict each panel shows
    acts,     \* how often the visitor did something
    known     \* history: the last revision the account has told each device

vars == <<account, local, docs, sync, conflict, acts, known>>

Ready == [pc |-> "ready", mode |-> "", rest |-> <<>>, mine |-> <<>>, base |-> <<>>, exists |-> FALSE]

Init ==
    /\ account = [k \in Kinds |-> NoDocument]
    /\ local = [d \in Devices |-> Empty]
    /\ docs = [d \in Devices |-> account]
    /\ sync = [d \in Devices |-> Ready]
    /\ conflict = [d \in Devices |-> <<>>]
    /\ acts = 0
    /\ known = [d \in Devices |-> [k \in Kinds |-> 0]]

----------------------------------------------------------------------------
(* Documents and plans.                                                    *)

\* plannerFrom: the plan of the documents, empty where there is none.
Chosen(payload) == payload \ Imported
PlannerFrom(ds) ==
    [k \in Kinds |-> IF ds[k] = NoDocument THEN Empty[k]
                     ELSE IF k = "collections" THEN Chosen(ds[k].payload) ELSE ds[k].payload]

\* {...a, ...b} of two attendances.
Over(a, b) == b \cup {p \in a : \A q \in b : q[1] # p[1]}

\* mergePayload: what a device that merges writes, its own plan coming first.
MergePayload(k, remote, mine) ==
    CASE k \in {"favorites", "collections"} -> Chosen(remote) \cup mine
      [] k = "plans" -> Over(remote, mine)
      [] OTHER -> mine

\* LocalPlanner's merge: the account's documents into the plan of the device.
\* Its saved filters are the account's, or empty when it has none.
Merge(plan, next) ==
    [k \in Kinds |-> CASE k \in {"favorites", "collections"} -> plan[k] \cup next[k]
                       [] k = "plans" -> Over(next[k], plan[k])
                       [] OTHER -> next[k]]

----------------------------------------------------------------------------
(* The plan on a device.                                                   *)

Act == acts < MaxActs /\ acts' = acts + 1

Toggled(set, i) == IF i \in set THEN set \ {i} ELSE set \cup {i}

\* toggleFestival, toggleArtist, togglePlaylistFestival, setAttendance and
\* setSavedFilters, on any page and whatever the panel is doing.
Edit(d) ==
    /\ Act
    /\ \/ \E k \in {"favorites", "collections"}, i \in Items :
            /\ k \in Kinds
            /\ local' = [local EXCEPT ![d][k] = Toggled(@, <<i, "chosen">>)]
       \/ \E i \in Items, c \in Attendances :
            /\ "plans" \in Kinds
            /\ \E chosen \in {{}, {<<i, c>>}} :
              local' = [local EXCEPT ![d]["plans"] = {p \in @ : p[1] # i} \cup chosen]
       \/ \E f \in Filters :
            /\ "saved-filters" \in Kinds
            /\ local' = [local EXCEPT ![d]["saved-filters"] = Filter(f)]
    /\ local' # local
    /\ UNCHANGED <<account, docs, sync, conflict, known>>

----------------------------------------------------------------------------
(* The panel.                                                              *)

Told(d, k, revision) == [known EXCEPT ![d][k] = revision]

\* load, when the panel appears or somebody signs in.
Load(d) ==
    /\ docs' = [docs EXCEPT ![d] = account]
    /\ known' = [known EXCEPT ![d] = [k \in Kinds |-> account[k].revision]]
    /\ UNCHANGED <<account, local, sync, conflict, acts>>

\* synchronize("remote"): the account's data on this device.
UseAccount(d) ==
    /\ Act /\ sync[d].pc = "ready" /\ docs[d] # [k \in Kinds |-> NoDocument]
    /\ local' = [local EXCEPT ![d] = PlannerFrom(docs[d])]
    /\ conflict' = [conflict EXCEPT ![d] = <<>>]
    /\ UNCHANGED <<account, docs, sync, known>>

Put(d, mode, rest, mine, base) ==
    sync' = [sync EXCEPT ![d] = [pc |-> "put", mode |-> mode, rest |-> rest,
                                 mine |-> mine, base |-> base, exists |-> FALSE]]

\* synchronize: the plan and the documents as they are now, to the end.
Synchronize(d) ==
    /\ Act /\ sync[d].pc = "ready"
    /\ \E mode \in {"normal", "merge"} : Put(d, mode, Order, local[d], docs[d])
    /\ conflict' = [conflict EXCEPT ![d] = <<>>]
    /\ UNCHANGED <<account, local, docs, known>>

\* resolve(true) writes this device's version over the one the panel shows.
KeepLocal(d) ==
    /\ Act /\ sync[d].pc = "ready" /\ conflict[d] # <<>>
    /\ LET c == conflict[d][1] IN
         Put(d, "resolve", <<c.kind>>, [Empty EXCEPT ![c.kind] = c.mine],
             [docs[d] EXCEPT ![c.kind] = c.remote])
    /\ UNCHANGED <<account, local, docs, conflict, known>>

\* resolve(false) takes over the panel's documents, all four of them.
KeepRemote(d) ==
    /\ Act /\ sync[d].pc = "ready" /\ conflict[d] # <<>>
    /\ LET c == conflict[d][1] next == [docs[d] EXCEPT ![c.kind] = c.remote] IN
         /\ docs' = [docs EXCEPT ![d] = next]
         /\ local' = [local EXCEPT ![d] = PlannerFrom(next)]
    /\ conflict' = [conflict EXCEPT ![d] = <<>>]
    /\ UNCHANGED <<account, sync, known>>

----------------------------------------------------------------------------
(* PUT /api/sync/[kind]: a read and a conditional write, with the answer.  *)

Kind(d) == sync[d].rest[1]
PayloadOfMutant(d, k) == sync[d].mine[k]  \* Mutant: the document already there is not merged.
PayloadOf(d, k) ==
    LET s == sync[d] IN
    IF s.mode = "merge" /\ s.base[k] # NoDocument
    THEN MergePayload(k, s.base[k].payload, s.mine[k]) ELSE s.mine[k]
Payload(d) == PayloadOf(d, Kind(d))

Stop(d) == sync' = [sync EXCEPT ![d] = Ready]

Read(d) ==
    /\ sync[d].pc = "put"
    /\ sync' = [sync EXCEPT ![d].pc = "write", ![d].exists = account[Kind(d)] # NoDocument]
    /\ UNCHANGED <<account, local, docs, conflict, acts, known>>

AcceptedMutant(d, revision) ==  \* Mutant: the document is updated by its id alone.
    IF sync[d].exists THEN TRUE ELSE revision = 0 /\ account[Kind(d)] = NoDocument

\* The document that is not there yet is created, which a second creation that
\* overlaps cannot; another is updated if its revision is the one given.
Accepted(d, revision) ==
    IF sync[d].exists THEN account[Kind(d)].revision = revision
    ELSE revision = 0 /\ account[Kind(d)] = NoDocument

Refused(d, revision) == IF sync[d].exists THEN ~Accepted(d, revision) ELSE revision # 0

\* What follows the answer: the next document, or the end, where a merge also
\* changes the plan of the device.
Write(d) ==
    LET s == sync[d] k == Kind(d) base == s.base[k]
        doc == Document(account[k].revision + 1, Payload(d)) IN
    /\ s.pc = "write"
    /\ Accepted(d, base.revision)
    /\ account' = [account EXCEPT ![k] = doc]
    /\ docs' = [docs EXCEPT ![d][k] = doc]
    /\ known' = Told(d, k, doc.revision)
    /\ IF Len(s.rest) > 1
       THEN /\ sync' = [sync EXCEPT ![d].pc = "put", ![d].rest = Tail(s.rest)]
            /\ UNCHANGED <<local, conflict>>
       ELSE /\ Stop(d)
            /\ local' = IF s.mode = "merge"
                        THEN [local EXCEPT ![d] = Merge(local[d], PlannerFrom(s.base))] ELSE local
            /\ conflict' = IF s.mode = "resolve" THEN [conflict EXCEPT ![d] = <<>>] ELSE conflict
    /\ UNCHANGED acts

\* 409: the latest document is fetched next.
Conflicting(d) ==
    /\ sync[d].pc = "write" /\ Refused(d, sync[d].base[Kind(d)].revision)
    /\ sync' = [sync EXCEPT ![d].pc = "latest"]
    /\ UNCHANGED <<account, local, docs, conflict, acts, known>>

ShowConflict(d) ==
    /\ sync[d].pc = "latest"
    /\ conflict' = [conflict EXCEPT ![d] =
         <<[kind |-> Kind(d), mine |-> Payload(d), remote |-> account[Kind(d)]]>>]
    /\ known' = Told(d, Kind(d), account[Kind(d)].revision)
    /\ Stop(d)
    /\ UNCHANGED <<account, local, docs, acts>>

\* The request, or a creation that another overlapped, fails.
Failed(d) ==
    /\ sync[d].pc \in {"put", "write", "latest"}
    /\ Stop(d)
    /\ UNCHANGED <<account, local, docs, conflict, acts, known>>

\* The answer to a write that was made is lost.
AnswerLost(d) ==
    /\ sync[d].pc = "write"
    /\ Accepted(d, sync[d].base[Kind(d)].revision)
    /\ account' = [account EXCEPT ![Kind(d)] = Document(@.revision + 1, Payload(d))]
    /\ Stop(d)
    /\ UNCHANGED <<local, docs, conflict, acts, known>>

\* POST /api/spotify/sync writes the collections without a revision.
SpotifySync(d) ==
    LET doc == Document(account["collections"].revision + 1, Imported) IN
    /\ Act /\ sync[d].pc = "ready"
    /\ account' = [account EXCEPT !["collections"] = doc]
    /\ docs' = [docs EXCEPT ![d]["collections"] = doc]
    /\ known' = Told(d, "collections", doc.revision)
    /\ UNCHANGED <<local, sync, conflict>>

Next ==
    \E d \in Devices :
        \/ Edit(d) \/ Load(d) \/ UseAccount(d) \/ Synchronize(d)
        \/ KeepLocal(d) \/ KeepRemote(d) \/ Read(d) \/ Write(d) \/ Conflicting(d)
        \/ ShowConflict(d) \/ Failed(d) \/ AnswerLost(d) \/ SpotifySync(d)

Spec == Init /\ [][Next]_vars

----------------------------------------------------------------------------
(* Properties.                                                             *)

Writing(d) == sync[d].pc = "write" /\ account' # account /\ sync'[d] # sync[d]

\* A device replaces only a document it has been told of: whatever was written
\* since by another device, in the same moment too, is refused, and a document
\* is created once.
OnlyKnownReplaced ==
    [][\A d \in Devices : Writing(d) => account[Kind(d)].revision <= known[d][Kind(d)]]_vars

\* A merge takes nothing from the account or from the device: the favourites,
\* the chosen festivals and the attendances of both are in both afterwards.
MergeKeeps ==
    [][\A d \in Devices : sync[d].mode = "merge" /\ Writing(d) =>
         LET k == Kind(d) old == account[k].payload new == account'[k].payload IN
         /\ k \in {"favorites", "collections"} =>
              Chosen(old) \cup sync[d].mine[k] \subseteq new
         /\ k = "plans" => /\ {p[1] : p \in old} \subseteq {p[1] : p \in new}
                           /\ sync[d].mine[k] \subseteq new]_vars

\* After a merge that no edit interrupted the device has the plan it has given
\* the account, though the one is computed by the panel and the other by the
\* planner.  (The saved filters may differ.)
MergeAgrees ==
    [][\A d \in Devices :
         sync[d].mode = "merge" /\ Writing(d) /\ Len(sync[d].rest) = 1
         /\ docs'[d] # docs[d] /\ local[d] = sync[d].mine
         => \A k \in Kinds \ {"saved-filters"} : PayloadOf(d, k) = local'[d][k]]_vars

\* A merge loses nothing of either side, and device and account agree after it
\* (AccountSyncPanel.tsx, LocalPlanner.tsx).
MergeSound == MergeKeeps /\ MergeAgrees
=============================================================================
