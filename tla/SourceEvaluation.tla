-------------------------- MODULE SourceEvaluation --------------------------
(***************************************************************************)
(* What a page of a festival's site changes in the catalogue: the          *)
(* strategies of its source extract candidates that are merged             *)
(* (lib/ingestion/extract.ts), the merged one is compared with the         *)
(* catalogue (diff.ts) and judged (policy.ts), and a publishable result is *)
(* published, by a transaction that judges it once more                    *)
(* (lib/catalog/publication.ts).                                           *)
(*                                                                         *)
(* Artists are names up to case.  A festival is one of a few families with *)
(* a policy of their own.  The leases of sources are left to               *)
(* SourceIngestion, reviewed decisions to CatalogReview.                   *)
(***************************************************************************)
EXTENDS FiniteSets

CONSTANTS
    Acts,
    Dates,      \* start dates, all in the edition's year
    Edition,    \* the year of the catalogue's edition
    OtherYear,
    Undefined      \* undefined

Families ==
    {"generic", "rockstadt", "rockharz", "gated", "provider", "rock-for-people", "impericon", "graspop", "idays"}

VARIABLES
    family,
    current,    \* the current edition: its start, status and the two classes of its bill
    content,    \* what the check has read, one of PageContents
    outcome     \* what came of it, "none" between checks

evaluationVars == <<family, current, content, outcome>>

Statuses == {"tba", "partial", "confirmed"}

\* What is assumed of the constants: a date, a status or a list of artists is a value.
ASSUME EvaluationAssumption ==
    /\ Edition # OtherYear
    /\ Undefined \notin Dates \cup Statuses /\ \A list \in SUBSET Acts : list # Undefined

Editions ==
    {c \in [start : Dates \cup {Undefined}, status : Statuses, heads : SUBSET Acts, bill : SUBSET Acts] :
        c.heads \cap c.bill = {}}

\* plain lists replace the bill; additive ones and announcements add to it.
ListModes == {"plain", "additive", "announcement"}
ModesOf == [f \in Families |->
    CASE f = "generic" -> ListModes
      [] f \in {"rockstadt", "rockharz"} -> {"additive"}
      [] f = "provider" -> {"plain", "additive"}
      [] OTHER -> {"announcement"}]

\* A candidate: the fields found, each with its evidence, the editions seen and
\* the warnings. "format" says the format was not found, "review" is the standing
\* warning of some adapters that artists need review, "quality" any other.
Empty == [start |-> Undefined, status |-> Undefined, heads |-> Undefined, bill |-> Undefined,
          mode |-> "plain", years |-> {}, warnings |-> {"format"}]

Findings(f) ==
    {c \in [start : {Undefined}, status : {Undefined, "partial"},
            heads : {Undefined} \cup (SUBSET Acts \ {{}}), bill : {Undefined} \cup SUBSET Acts, mode : ModesOf[f],
            years : {{}, {Edition}, {OtherYear}}, warnings : {{}, {"review"}, {"quality"}}] :
        /\ c.heads # Undefined /\ c.bill # Undefined => c.heads \cap c.bill = {}
        /\ f \in {"rockstadt", "rockharz"} => c.heads = Undefined
        /\ f = "gated" /\ (c.heads # Undefined \/ c.bill \notin {Undefined, {}}) => "review" \in c.warnings
        /\ f \notin {"rockstadt", "rockharz", "gated"} => "review" \notin c.warnings
        \* the adapters of a registered announcement name the edition they read
        /\ f \in {"rockstadt", "rockharz"} /\ c.bill # Undefined => c.years # {}}

\* The Event of a page's JSON-LD, if it has one.
Events == {Empty} \cup
    {[start |-> d, status |-> Undefined, heads |-> Undefined, bill |-> b, mode |-> "plain",
      years |-> {Edition}, warnings |-> {}] : d \in Dates, b \in {Undefined, Acts}}

\* cue: the page announces artists to a reader.
PageContents(f) == [event : IF f = "generic" THEN Events ELSE {Empty},
                    found : Findings(f) \cup {Empty}, cue : BOOLEAN]
Nothing == [event |-> Empty, found |-> Empty, cue |-> FALSE]

EvaluationInit ==
    /\ family \in Families /\ current \in Editions
    /\ content = Nothing /\ outcome = "none"

----------------------------------------------------------------------------
(* Extraction.                                                             *)

First(x, y) == IF x # Undefined THEN x ELSE y
FoundFields(c) == {f \in {"start", "status", "heads", "bill"} : c[f] # Undefined}

\* Each field comes from the first strategy that found it; a format that is not
\* there is no warning once another gave something.
Merged(a, b) ==
    LET warnings == a.warnings \cup b.warnings
    IN  [start |-> First(a.start, b.start), status |-> First(a.status, b.status),
         heads |-> First(a.heads, b.heads), bill |-> First(a.bill, b.bill),
         mode |-> IF b.mode = "announcement" /\ a.bill # Undefined /\ a.bill # b.bill THEN "additive"
                  ELSE IF b.mode # "plain" THEN b.mode ELSE a.mode,
         years |-> a.years \cup b.years,
         warnings |-> IF FoundFields(a) \cup FoundFields(b) # {} THEN warnings \ {"format"} ELSE warnings]

\* announcementCoverageWarning: what the page announces was not extracted.
Missed(c, cue) ==
    /\ cue
    /\ c.heads \in {Undefined, {}} /\ c.bill \in {Undefined, {}}
    /\ c.status \notin {"partial", "confirmed"}

Extracted(p) ==
    LET c == Merged(p.event, p.found)
    IN  [c EXCEPT !.warnings = c.warnings \cup {w \in {"coverage"} : Missed(c, p.cue)}]

----------------------------------------------------------------------------
(* Comparison with the catalogue.                                          *)

FieldChange(kind, after, review) == [kind |-> kind, after |-> after, review |-> review]

Scalar(kind, before, after, review) == {FieldChange(kind, x, review) : x \in {after} \ {Undefined, before}}

\* Names to add, and for a whole list those to remove, which needs review.
Listed(added, removed, before, after, additive) ==
    IF after = Undefined THEN {}
    ELSE {FieldChange(added, x, FALSE) : x \in after \ before} \cup
         {FieldChange(removed, x, TRUE) : x \in {y \in before \ after : ~additive}}

Diff(c, p) ==
    Scalar("date", c.start, p.start, c.start # Undefined) \cup
    Scalar("status", c.status,
           IF p.mode = "announcement" /\ c.status = "confirmed" THEN Undefined ELSE p.status, FALSE) \cup
    Listed("headliner_added", "headliner_removed", c.heads, p.heads, p.mode # "plain") \cup
    Listed("artist_added", "artist_removed", c.bill,
           IF p.mode = "announcement" /\ p.bill # Undefined THEN p.bill \ c.heads ELSE p.bill,
           p.mode # "plain")

KindsOf(changes) == {x.kind : x \in changes}
Adding == {"artist_added", "headliner_added"}
Billing == Adding \cup {"artist_removed", "headliner_removed"}

----------------------------------------------------------------------------
(* Judgement.                                                              *)

\* The two registered announcements whose known names keep their billing.
Reconciled(p) == family \in {"rockstadt", "rockharz"} /\ p.years = {Edition} /\ p.bill # Undefined

\* What the candidate amounts to for this festival.
Effective(c, p) ==
    CASE family = "idays" /\ p.status = "partial" /\ c.status = "confirmed" -> [p EXCEPT !.status = Undefined]
      [] Reconciled(p) -> [p EXCEPT !.bill = @ \ c.heads,
                                    !.status = IF family = "rockstadt" /\ c.status = "confirmed" THEN "confirmed" ELSE @]
      [] OTHER -> p

\* Mutant: only the lineup is compared, not the headliners.
UnchangedMutant(c, p, changes) ==
    \/ family = "gated" /\ p.years = {Edition} /\ "artist_added" \notin KindsOf(changes)
    \/ Reconciled(p) /\ p.bill \subseteq c.heads \cup c.bill
\* The standing warning is dropped when it is about nobody new.
Unchanged(c, p, changes) ==
    \/ family = "gated" /\ p.years = {Edition} /\ KindsOf(changes) \cap Billing = {}
    \/ Reconciled(p) /\ p.bill \subseteq c.heads \cup c.bill

\* The names that a candidate would have in both classes.
BothClasses(c, p) == (c.heads \cup First(p.heads, {})) \cap (c.bill \cup First(p.bill, {}))

\* What a festival's own rules object to.
Objects(c, p, changes) ==
    CASE family = "provider" -> KindsOf(changes) \cap Adding # {}
      [] family = "rock-for-people" ->
            /\ KindsOf(changes) \cap Adding # {}
            /\ p.years # {Edition} \/ ~(KindsOf(changes) \cap Billing \subseteq Adding) \/ BothClasses(c, p) # {}
      [] family = "impericon" -> First(p.heads, {}) \cap c.bill # {}
      [] family \in {"graspop", "idays"} ->
            KindsOf(changes) \cap Billing # {} /\ (p.years # {Edition} \/ BothClasses(c, p) # {})
      [] OTHER -> FALSE

\* Mutant: the edition of a list need not be known.
UnverifiedMutant(c, p) == OtherYear \in p.years
\* The edition is another one, or a list does not say of which it is.
Unverified(c, p) ==
    \/ OtherYear \in p.years
    \/ p.bill \notin {Undefined, {}} /\ p.years = {}

Reviewable(c, p, changes) ==
    \/ p.warnings \ {w \in {"review"} : Unchanged(c, p, changes)} # {}
    \/ Objects(c, p, changes)
    \/ Unverified(c, p)
    \/ p.bill = {} /\ c.bill # {}
    \/ \E x \in changes : x.review

Result(c, p) ==
    LET q == Effective(c, p)
        changes == Diff(c, q)
    IN  CASE Reviewable(c, q, changes) -> "review"
          [] ~Reviewable(c, q, changes) /\ changes # {} -> "publishable"
          [] OTHER -> "unchanged"

----------------------------------------------------------------------------
(* Publication.                                                            *)

Named(changes, kind) == {x.after : x \in {y \in changes : y.kind = kind}}

\* A candidate of no single edition, or a name of the other class, aborts it.
Aborts(c, p, changes) ==
    \/ KindsOf(changes) \cap Billing # {} /\ Cardinality(p.years) # 1 /\ p.start = Undefined
    \/ Cardinality(p.years) = 1 /\ p.years # {Edition}
    \/ Named(changes, "headliner_added") \cap (c.bill \cup Named(changes, "artist_added")) # {}
    \/ Named(changes, "artist_added") \cap c.heads # {}

Revised(c, changes) ==
    LET one(kind, old) == IF Named(changes, kind) = {} THEN old ELSE CHOOSE x \in Named(changes, kind) : TRUE
    IN  [start |-> one("date", c.start), status |-> one("status", c.status),
         heads |-> c.heads \cup Named(changes, "headliner_added"),
         bill |-> c.bill \cup Named(changes, "artist_added")]

\* The source is due again, whatever its page was.
DueAgain ==
    /\ outcome # "none"
    /\ content' = Nothing /\ outcome' = "none"
    /\ UNCHANGED <<family, current>>

\* One check of the source, with the page as it is now.
Check ==
    /\ outcome = "none"
    /\ content' \in PageContents(family)
    /\ LET c == Extracted(content')
           changes == Diff(current, Effective(current, c))
           result == Result(current, c)
       IN  CASE result # "publishable" -> outcome' = result /\ UNCHANGED current
             [] result = "publishable" /\ Aborts(current, c, changes) -> outcome' = "failed" /\ UNCHANGED current
             [] OTHER -> outcome' = "published" /\ current' = Revised(current, changes)
    /\ UNCHANGED family

EvaluationNext == DueAgain \/ Check
EvaluationSpec == EvaluationInit /\ [][EvaluationNext]_evaluationVars

----------------------------------------------------------------------------
(* Properties.                                                             *)

\* No page, whatever it shows or lacks, makes the importer take an artist off
\* the bill, change a billing, move a known date or, for I-Days, call a
\* confirmed bill partial (policy.ts:15).
OnlyAdds ==
    [][/\ current.heads \subseteq current'.heads /\ current.bill \subseteq current'.bill
       /\ current'.heads \cap current'.bill = {}
       /\ current.start # Undefined => current'.start = current.start
       /\ family = "idays" /\ current.status = "confirmed" => current'.status = "confirmed"]_evaluationVars

\* Artists come without review only from a page of the catalogue's edition
\* alone, and never for the festivals whose additions start work at a provider.
AddedWithReason ==
    [][current'.heads \cup current'.bill # current.heads \cup current.bill =>
        /\ content'.event.years \cup content'.found.years = {Edition}
        /\ family \notin {"gated", "provider"}
        /\ "quality" \notin content'.found.warnings]_evaluationVars

\* A page that was published has nothing more to say: checking it again changes
\* nothing ("a repeated import is a no-op", docs/ingestion-agent-review.md:153).
RepeatIsNoOp ==
    /\ current \in Editions /\ family \in Families
    /\ outcome = "published" => Diff(current, Effective(current, Extracted(content))) = {}

\* Of what the policy lets through the transaction refuses two things only: a
\* name that the page bills in the other class, and headliners, without a lineup,
\* of an edition the page does not name.  Neither is put up for review.
PolicySuffices ==
    outcome = "failed" =>
        LET c == Extracted(content) IN
        BothClasses(current, c) # {} \/ (c.years = {} /\ c.bill \in {Undefined, {}} /\ c.heads # Undefined)

\* A check only adds to a bill, and artists only with an edition as evidence (policy.ts).
ChecksOnlyAdd == OnlyAdds /\ AddedWithReason

\* The policy and the transaction agree: a published page is a no-op when checked again, and
\* what the policy lets through fails in two known cases only (policy.ts, publication.ts).
PolicyAgrees == RepeatIsNoOp /\ PolicySuffices
=============================================================================
