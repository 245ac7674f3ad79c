-------------------------- MODULE YoutubePlaylist --------------------------
(* The YouTube half of the playlist worker, for one edition of a festival:   *)
(* the durable plan of each refresh job, the edition's history of intents    *)
(* (lib/catalog/youtube-playlist-queue.ts), the program that applies a plan  *)
(* (publish_plan of scripts/spotify_gmm_2026/youtube_playlist_plan.py) and   *)
(* the commit of the binding (lib/catalog/playlist-worker.ts).               *)
(*                                                                           *)
(* One attempt runs at a time: that is what the queue promises (PlaylistQueue*)
(* implements PlaylistExclusion).  An attempt may end anywhere, and its last *)
(* request to the provider may land after that, when another attempt runs.   *)
(* Each request is fenced by a read of the state just before it, so a        *)
(* request and its fence are one step.  Titles, ownership, years and quota   *)
(* counts are left out: running out of quota is one of the ways to end.      *)
EXTENDS Naturals, Sequences, FiniteSets, Functions, SequencesExt

CONSTANTS YtJobs,     \* refresh jobs of the edition, numbered as requested
          Videos,
          Legacy,     \* a playlist from before the queue, plain description
          New,        \* identities of the playlists to be created
          Rebinds,    \* bindings an operator may set
          Late,       \* requests that may land after their attempt ended
          MaxItems,   \* bound on inserted items
          Nothing

Playlists == {Legacy} \cup New

VARIABLES ytPlan,     \* per job: its plan, or Nothing
          ytState,    \* per job: its copy of the provider state, or Nothing
          ytDone,     \* jobs that SUCCEEDED
          ytBinding,  \* FestivalPlaylist of youtube_music: a playlist or Nothing
          archived,   \* playlist-provider-archives-v1
          provider,   \* what YouTube has: description mark and items, or Nothing
          serial,     \* items made so far; an item's immutable id is its number
          flight,     \* requests without answer that may land yet
          att         \* the running attempt, or NoAttempt

jobVars == <<ytPlan, ytState, ytDone>>
youtubeVars == <<ytPlan, ytState, ytDone, ytBinding, archived, provider, serial, flight, att>>
outside == <<ytBinding, archived>>

Orders == {s \in UNION {[1..n -> Videos] : n \in 1..Cardinality(Videos)} : IsInjective(s)}

(* The rows: plan, intent to insert, to describe, state; and a playlist.     *)
VideoPlan == [url : Playlists \cup {Nothing}, videos : Orders]
Insertion == [id : Playlists, videos : Seq(Videos)]
Description == [id : Playlists, mark : {0} \cup YtJobs]
YoutubeState ==
    [marker : YtJobs, sent : BOOLEAN, id : Playlists \cup {Nothing}, adopted : BOOLEAN,
     insert : Insertion \cup {Nothing}, meta : Description \cup {Nothing}]
Listing == [mark : {0} \cup YtJobs, items : Seq([n : Nat, video : Videos])]

\* What the instances of this module assume of its constants.
YoutubeAssumption ==
    /\ YtJobs \subseteq Nat \ {0}
    /\ IsFiniteSet(YtJobs) /\ IsFiniteSet(Videos)
    /\ Late \subseteq {"create", "put", "delete", "insert"}
    /\ Rebinds \subseteq Playlists \cup {Nothing}
    /\ MaxItems \in Nat
    /\ Legacy \notin New
    /\ Nothing \notin Playlists
    /\ Nothing \notin VideoPlan /\ Nothing \notin Insertion /\ Nothing \notin Description
    /\ Nothing \notin YoutubeState /\ Nothing \notin Listing

NoAttempt == [at |-> "idle", job |-> Nothing, url |-> Nothing, id |-> Nothing, state |-> Nothing,
              items |-> <<>>, kept |-> 0]

YoutubeInit ==
    /\ ytPlan = [j \in YtJobs |-> Nothing]
    /\ ytState = [j \in YtJobs |-> Nothing]
    /\ ytDone = {}
    /\ ytBinding = Nothing
    /\ archived = {}
    /\ \E has \in {<<>>} \cup {<<v>> : v \in Videos} :
          provider = [p \in Playlists |->
             IF p = Legacy /\ has # <<>>
               THEN [mark |-> 0, items |-> <<[n |-> 0, video |-> has[1]]>>]
               ELSE Nothing]
    /\ serial = 0
    /\ flight = {}
    /\ att = NoAttempt

(* The attempt's next step, with what it has read or made.                   *)
Go(step, id, s, items, kept) ==
    att' = [at |-> step, job |-> att.job, url |-> att.url, id |-> id, state |-> s,
            items |-> items, kept |-> kept]
GoOn(step) == Go(step, att.id, att.state, att.items, att.kept)
Stop == att' = NoAttempt

Content(p) == [i \in 1..Len(provider[p].items) |-> provider[p].items[i].video]

(* --- The edition's state -------------------------------------------------*)

Unsent(j) == [marker |-> j, sent |-> FALSE, id |-> Nothing, adopted |-> FALSE,
              insert |-> Nothing, meta |-> Nothing]

(* Jobs of the edition with a state; the oldest one's counts. *)
History == {k \in YtJobs : ytState[k] # Nothing}
OldestRow == CHOOSE k \in History : \A l \in History : k <= l
Stored(j) == IF History = {} THEN Unsent(j) ELSE ytState[OldestRow]

(* The state is written to the oldest row and to that of the claim. *)
Store(j, s) ==
    /\ ytState' = [k \in YtJobs |->
                     IF k = j \/ (History # {} /\ k = OldestRow) THEN s ELSE ytState[k]]
    /\ UNCHANGED <<ytPlan, ytDone>>

Bound(a, s) == IF a.url = Nothing THEN s.id ELSE a.url

(* Playlists the edition would write to. *)
Touched(a, s) ==
    {Bound(a, s), s.id}
      \cup (IF s.insert = Nothing THEN {} ELSE {s.insert.id})
      \cup (IF s.meta = Nothing THEN {} ELSE {s.meta.id})

(* providerScope *)
Scope(a) == ytBinding = a.url /\ \A k \in YtJobs : k > a.job => k \notin ytDone

(* The guard before each request and each change of the state: the lease,    *)
(* which holds as long as the attempt runs, and a read of the state.         *)
Fence(a) ==
    LET s == Stored(a.job) IN
    /\ Scope(a)
    /\ Touched(a, s) \cap archived = {}
    /\ s.insert # Nothing => s.insert.id = Bound(a, s)
    /\ s.meta # Nothing => s.meta.id = Bound(a, s)

(* The actions of youtubeProviderState: what they demand of the state is     *)
(* with the steps below, what they make of it is here.                       *)
Changed(s, sent, id, adopted, insert, meta) ==
    [marker |-> s.marker, sent |-> sent, id |-> id, adopted |-> adopted,
     insert |-> insert, meta |-> meta]
Adopted(s, p) == Changed(s, TRUE, p, TRUE, s.insert, s.meta)
Reserved(s) == Changed(s, TRUE, s.id, s.adopted, s.insert, s.meta)
Identified(s, p) == Changed(s, s.sent, p, s.adopted, s.insert, s.meta)
Describing(s, p, mark) == Changed(s, s.sent, s.id, s.adopted, s.insert, [id |-> p, mark |-> mark])
Inserting(s, p, videos) ==
    Changed(s, s.sent, s.id, s.adopted, [id |-> p, videos |-> videos], s.meta)
Confirmed(s) == Changed(s, s.sent, s.id, s.adopted, Nothing, Nothing)
Reopened(s) == Changed(s, FALSE, s.id, s.adopted, s.insert, s.meta)

(* --- The provider --------------------------------------------------------*)

Made(p) == p \in New /\ provider[p] # Nothing
Unmade == {p \in New : provider[p] = Nothing}
NextMade == CHOOSE p \in Unmade : TRUE

(* Items are named by their number; one that is gone is not found.           *)
Without(items, n) ==
    IF \E i \in 1..Len(items) : items[i].n = n
      THEN RemoveAt(items, CHOOSE i \in 1..Len(items) : items[i].n = n)
      ELSE items

(* A request: what it is to do, to which playlist, and what with.            *)
Request(do, id, arg) == [do |-> do, id |-> id, arg |-> arg]

(* What a request does when it lands. *)
LandsCreate(r) ==
    /\ r.do = "create" /\ Unmade # {}
    /\ provider' = [provider EXCEPT ![NextMade] = [mark |-> r.arg, items |-> <<>>]]
    /\ UNCHANGED serial

LandsPut(r) ==
    /\ r.do = "put"
    /\ provider' = [provider EXCEPT ![r.id] = [mark |-> r.arg, items |-> @.items]]
    /\ UNCHANGED serial

LandsDelete(r) ==
    /\ r.do = "delete"
    /\ provider' = [provider EXCEPT ![r.id] =
                      [mark |-> @.mark, items |-> Without(@.items, r.arg)]]
    /\ UNCHANGED serial

LandsInsert(r) ==
    /\ r.do = "insert" /\ serial < MaxItems
    /\ serial' = serial + 1
    /\ provider' = [provider EXCEPT ![r.id] =
                      [mark |-> @.mark,
                       items |-> Append(@.items, [n |-> serial + 1, video |-> r.arg])]]

Lands(r) == LandsCreate(r) \/ LandsPut(r) \/ LandsDelete(r) \/ LandsInsert(r)

(* A late request lands; one that never does just stays. *)
Land(r) ==
    /\ r \in flight
    /\ Lands(r)
    /\ flight' = flight \ {r}
    /\ UNCHANGED <<jobVars, outside, att>>

(* The request is sent and its answer does not come; the attempt fails. *)
Lose(r) ==
    /\ r.do \in Late
    /\ flight' = flight \cup {r}
    /\ Stop
    /\ UNCHANGED <<jobVars, outside, provider, serial>>

(* The provider's exact rejection releases the intent; the attempt fails. *)
Reject(a, s) ==
    /\ Store(a.job, s)
    /\ Stop
    /\ UNCHANGED <<outside, provider, serial, flight>>

(* --- An attempt ----------------------------------------------------------*)

(* A job without plan gets one; a plan made for another binding is refused.  *)
Start(j) ==
    /\ att = NoAttempt
    /\ \A k \in YtJobs : k >= j => k \notin ytDone
    /\ \E p \in IF ytPlan[j] # Nothing THEN {ytPlan[j]}
                ELSE {[url |-> ytBinding, videos |-> s] : s \in Orders} :
          /\ p.url = ytBinding
          /\ ytPlan' = [ytPlan EXCEPT ![j] = p]
    /\ att' = [at |-> "read", job |-> j, url |-> ytBinding, id |-> Nothing, state |-> Nothing,
               items |-> <<>>, kept |-> 0]
    /\ UNCHANGED <<ytState, ytDone, outside, provider, serial, flight>>

Desired == ytPlan[att.job].videos
(* The description of the plan, with the marker while it is unbound. *)
Wanted == IF att.url = Nothing THEN att.state.marker ELSE 0
(* Owned playlists that are not archived, by their mark. *)
Owned(marks) == {p \in Playlists \ archived : provider[p] # Nothing /\ provider[p].mark \in marks}
Found(p, s) == Go("bind", p, s, <<>>, 0)

(* The bound playlist, the identified one, the one with the marker, or one   *)
(* to adopt or to create.                                                    *)
Lookup ==
    /\ att.at = "read"
    /\ Fence(att)
    /\ LET s == Stored(att.job) IN
       \/ /\ att.url # Nothing
          /\ Go("settle", att.url, s, <<>>, 0)
          /\ UNCHANGED jobVars
       \/ /\ att.url = Nothing /\ s.id # Nothing
          /\ Found(s.id, s)
          /\ UNCHANGED jobVars
       \/ /\ att.url = Nothing /\ s.id = Nothing /\ s.sent
          /\ Cardinality(Owned({s.marker})) = 1
          /\ \E p \in Owned({s.marker}) : Found(p, s)
          /\ UNCHANGED jobVars
       \/ /\ att.url = Nothing /\ s.id = Nothing /\ ~s.sent
          /\ Cardinality(Owned({0} \cup YtJobs)) <= 1
          /\ Owned(YtJobs) = {}
          /\ \/ \E p \in Owned({0}) : Store(att.job, Adopted(s, p)) /\ Found(p, Adopted(s, p))
             \/ /\ Owned({0}) = {}
                /\ Store(att.job, Reserved(s))
                /\ Go("create", Nothing, s, <<>>, 0)
    /\ UNCHANGED <<outside, provider, serial, flight>>

(* The creation that was reserved. *)
CreatePlaylist ==
    /\ att.at = "create"
    /\ Fence(att)
    /\ LET r == Request("create", Nothing, att.state.marker) IN
       \/ /\ Lands(r)
          /\ Found(NextMade, att.state)
          /\ UNCHANGED <<jobVars, outside, flight>>
       \/ Lose(r)
       \/ Reject(att, Reopened(Stored(att.job)))

(* The playlist is read back by its marker and its identity kept. *)
Bind ==
    /\ att.at = "bind"
    /\ Fence(att)
    /\ att.id \notin archived
    /\ \/ provider[att.id].mark = att.state.marker
       \/ att.state.adopted /\ provider[att.id].mark = 0
    /\ LET s == Stored(att.job) IN
       /\ s.sent
       /\ s.id \in {Nothing, att.id}
       /\ Store(att.job, Identified(s, att.id))
    /\ GoOn("settle")
    /\ UNCHANGED <<outside, provider, serial, flight>>

(* Mutant: an insertion that is not to be seen is taken for failed. *)
InsertedMutant == TRUE

(* The content is what the outstanding insertion would leave. *)
Inserted == att.state.insert # Nothing => Content(att.id) = att.state.insert.videos

(* Outstanding intents of earlier attempts are confirmed by what is there.   *)
SettleIntents ==
    /\ att.at = "settle"
    /\ Fence(att)
    /\ provider[att.id] # Nothing
    /\ Inserted
    /\ att.state.meta # Nothing => provider[att.id].mark = att.state.meta.mark
    /\ \/ att.state.insert = Nothing /\ att.state.meta = Nothing /\ UNCHANGED jobVars
       \/ /\ att.state.insert # Nothing \/ att.state.meta # Nothing
          /\ Store(att.job, Confirmed(Stored(att.job)))
    /\ Go("describe", att.id, att.state, provider[att.id].items, 0)
    /\ UNCHANGED <<outside, provider, serial, flight>>

(* How many of the first items are already as desired. *)
KeptItems(items) ==
    CHOOSE n \in 0..Len(items) :
        /\ n <= Len(Desired)
        /\ \A i \in 1..n : items[i].video = Desired[i]
        /\ (n < Len(items) /\ n < Len(Desired)) => items[n + 1].video # Desired[n + 1]

Describe ==
    /\ att.at = "describe"
    /\ Fence(att)
    /\ \/ /\ provider[att.id].mark = Wanted
          /\ Go("cut", att.id, att.state, att.items, KeptItems(att.items))
          /\ UNCHANGED jobVars
       \/ /\ provider[att.id].mark # Wanted
          /\ LET s == Stored(att.job) IN
             /\ s.insert = Nothing /\ s.meta = Nothing
             /\ Store(att.job, Describing(s, att.id, Wanted))
          /\ GoOn("put")
    /\ UNCHANGED <<outside, provider, serial, flight>>

(* The answer, the read-back and the confirmation are one step here and in   *)
(* Post: an attempt that ends between them looks like one without an answer. *)
Put ==
    /\ att.at = "put"
    /\ Fence(att)
    /\ LET r == Request("put", att.id, Wanted)
           s == Confirmed(Stored(att.job)) IN
       \/ /\ Lands(r)
          /\ Store(att.job, s)
          /\ GoOn("describe")
          /\ UNCHANGED <<outside, flight>>
       \/ Lose(r)
       \/ Reject(att, s)

(* Items after the kept ones are deleted from the end; then the read-back.   *)
Cut ==
    /\ att.at = "cut"
    /\ Fence(att)
    /\ \/ /\ Len(att.items) > att.kept
          /\ LET r == Request("delete", att.id, Last(att.items).n) IN
             \/ /\ \E i \in 1..Len(provider[att.id].items) : provider[att.id].items[i].n = r.arg
                /\ Lands(r)
                /\ Go("cut", att.id, att.state, Front(att.items), att.kept)
                /\ UNCHANGED <<jobVars, outside, flight>>
             \/ Lose(r)
       \/ /\ Len(att.items) <= att.kept
          /\ Content(att.id) = SubSeq(Desired, 1, att.kept)
          /\ GoOn("fill")
          /\ UNCHANGED <<jobVars, outside, provider, serial, flight>>

Fill ==
    /\ att.at = "fill"
    /\ Fence(att)
    /\ att.kept < Len(Desired)
    /\ LET s == Stored(att.job) IN
       /\ s.insert = Nothing /\ s.meta = Nothing
       /\ Store(att.job, Inserting(s, att.id, SubSeq(Desired, 1, att.kept + 1)))
    /\ GoOn("post")
    /\ UNCHANGED <<outside, provider, serial, flight>>

Post ==
    /\ att.at = "post"
    /\ Fence(att)
    /\ LET r == Request("insert", att.id, Desired[att.kept + 1])
           s == Confirmed(Stored(att.job)) IN
       \/ /\ Lands(r)
          /\ Content(att.id) = SubSeq(Desired, 1, att.kept)
          /\ Store(att.job, s)
          /\ Go("fill", att.id, att.state, att.items, att.kept + 1)
          /\ UNCHANGED <<outside, flight>>
       \/ Lose(r)
       \/ Reject(att, s)

(* What the last read-back demands. *)
Final == Content(att.id) = Desired /\ provider[att.id].mark = Wanted

ReadItems ==
    /\ att.at = "fill"
    /\ att.kept = Len(Desired)
    /\ Fence(att)
    /\ Final
    /\ GoOn("commit")
    /\ UNCHANGED <<jobVars, outside, provider, serial, flight>>

(* The binding is written if it is still the expected one and the job's own  *)
(* copy of the state has nothing outstanding.                                *)
CommitBinding ==
    /\ att.at = "commit"
    /\ Scope(att)
    /\ LET s == ytState[att.job] IN
       /\ s # Nothing => s.insert = Nothing /\ s.meta = Nothing
       /\ att.url = Nothing => s # Nothing /\ s.sent /\ s.id = att.id
    /\ ytBinding' = att.id
    /\ ytDone' = ytDone \cup {att.job}
    /\ Stop
    /\ UNCHANGED <<ytPlan, ytState, archived, provider, serial, flight>>

(* Lease lost, crash, quota, a check that fails, a read-back that lags. *)
GiveUp ==
    /\ att # NoAttempt
    /\ Stop
    /\ UNCHANGED <<jobVars, outside, provider, serial, flight>>

(* --- Operators -----------------------------------------------------------*)

Rebind(u) ==
    /\ u # ytBinding
    /\ ytBinding' = u
    /\ UNCHANGED <<jobVars, archived, provider, serial, flight, att>>

Archive(p) ==
    /\ provider[p] # Nothing
    /\ archived' = archived \cup {p}
    /\ UNCHANGED <<jobVars, ytBinding, provider, serial, flight, att>>

YoutubeNext ==
    \/ \E j \in YtJobs : Start(j)
    \/ Lookup \/ CreatePlaylist \/ Bind \/ SettleIntents \/ Describe \/ Put \/ Cut
    \/ Fill \/ Post \/ ReadItems \/ CommitBinding \/ GiveUp
    \/ \E r \in flight : Land(r)
    \/ \E u \in Rebinds : Rebind(u)
    \/ \E p \in Playlists : Archive(p)

YoutubeSpec == YoutubeInit /\ [][YoutubeNext]_youtubeVars

(* ---- Properties -------------------------------------------------------- *)

(* However many publications, attempts and lost answers: an edition makes    *)
(* one playlist.                                                             *)
OneYoutubePlaylist == Cardinality({p \in New : Made(p)}) <= 1

(* No video is in a playlist twice, whichever insertions land late.          *)
NoRepeats == \A p \in Playlists : provider[p] # Nothing => IsInjective(Content(p))

(* When an attempt writes to a playlist, it is not one archived since.       *)
ArchiveKept == [][
    (att.at \in {"put", "cut", "post"} /\ provider' # provider /\ att' # att)
        => \A p \in archived : provider'[p] = provider[p]]_youtubeVars

(* What would change a playlist when it lands. *)
Pending(p) ==
    {r \in flight : r.id = p /\
        \/ r.do = "insert"
        \/ r.do = "put" /\ r.arg # provider[p].mark
        \/ r.do = "delete" /\ \E i \in 1..Len(provider[p].items) : provider[p].items[i].n = r.arg}

(* What is published as complete is the plan, and stays it: nothing that an  *)
(* earlier attempt sent can land on it any more.                             *)
PublishedIsPlan ==
    att.at = "commit" => Content(att.id) = Desired /\ Pending(att.id) = {}

(* YouTube: an edition never gets a second playlist, whatever is lost,       *)
(* retried, late or taken over; no video is in a playlist twice, and what    *)
(* was read back as complete is the plan, on which no earlier request can    *)
(* land any more (publish_plan of youtube_playlist_plan.py).                 *)
YoutubeKept == OneYoutubePlaylist /\ NoRepeats /\ PublishedIsPlan

=============================================================================
