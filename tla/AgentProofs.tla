----------------------------- MODULE AgentProofs -----------------------------
(***************************************************************************)
(* Proofs about the import agent's work (AgentIssues) and how it is called *)
(* (ImportEvents), for any number of issues, configurations, facts, claims *)
(* and drains.                                                             *)
(*                                                                         *)
(* The work.  A capability is what a case or a repair holds, and at most   *)
(* one row holds it: the one it was claimed for (CaseFits, RepairFits).    *)
(* Settling takes it away, so it settles once.  What its agent saw is what *)
(* is there as long as configuration and version are those of the claim,   *)
(* because every publication counts the version up (ClaimFits).            *)
(*                                                                         *)
(* The watcher of the cases (AgentWatch), at the end, for any cases, runs  *)
(* and limits: what it remembers is what every poll has shown since its    *)
(* call, so that the time it counts is the time since that call.           *)
(***************************************************************************)
EXTENDS ImportEvents, AgentWatch, SequenceTheorems, TLAPS

USE DEF AgentAssumption

\* The case of i holds a capability of its own that has settled nothing yet; its attempts
\* are fewer than the capabilities handed out, and than the one it holds.  Before the first
\* decision it is new.
CaseFits(i, r) ==
    /\ r.live => r.token # None
    /\ r.token # None =>
         /\ r.token \in 1..Len(claims) /\ r.attempts < r.token
         /\ claims[r.token].of = "issue" /\ claims[r.token].issue = i
         /\ claims[r.token].used = 0
    /\ r.attempts <= Len(claims)
    /\ r.status = "resolved" /\ Kind[i] # "manual" => r.token = None
    /\ r.attempts = 0 => r.status = "new" /\ r.retry = 0

RepairFits(i, r) ==
    /\ r.live => r.token # None
    /\ r.token # None =>
         /\ r.token \in 1..Len(claims)
         /\ claims[r.token].of = "repair" /\ claims[r.token].issue = i
         /\ claims[r.token].used = 0
    /\ r.status \in {"none", "completed"} => r.token = None

\* What was seen at the claim is what is there until the version counts on.
ClaimFits(c) ==
    /\ c.used <= 1
    /\ c.snapshot[1] = c.seen[2]
    /\ c.snapshot[3] <= edition.version
    /\ c.snapshot[3] = edition.version => c.seen[1] = edition.value

IInv ==
    /\ AgentTypeOK
    /\ \A i \in Issues : CaseFits(i, state[i]) /\ RepairFits(i, repair[i])
    /\ \A t \in 1..Len(claims) : ClaimFits(claims[t])

-----------------------------------------------------------------------------
(* What steps do to the capabilities.                                        *)

LEMMA ClaimsAre ==
    ASSUME AgentAssumption, IInv
    PROVE  /\ claims \in Seq(Claim) /\ Len(claims) \in Nat /\ Len(claims) <= MaxClaims
           /\ DOMAIN claims = 1..Len(claims)
           /\ \A t \in 1..Len(claims) : claims[t] \in Claim
  BY LenProperties, ElementOfSeq DEF IInv, AgentTypeOK

\* One more is handed out.
LEMMA OneMore ==
    ASSUME AgentAssumption, IInv, NEW c \in Claim, claims' = Append(claims, c)
    PROVE  /\ claims' \in Seq(Claim) /\ Len(claims') = Len(claims) + 1
           /\ claims'[Len(claims) + 1] = c
           /\ \A t \in 1..Len(claims) : claims'[t] = claims[t]
  BY ClaimsAre, AppendProperties

LEMMA UsedIsClaim ==
    ASSUME NEW c \in Claim
    PROVE  [c EXCEPT !.used = c.used + 1] \in Claim
  <1> DEFINE A == Configs \X (0..MaxChecks) \X Nat
             B == Values \X Configs
  <1>1. Claim = [of : {"issue", "repair"}, issue : Issues, snapshot : A, seen : B, used : Nat]
    BY DEF Claim
  <1> HIDE DEF A, B
  <1> QED
    BY <1>1

\* One settles something.
LEMMA OneUsed ==
    ASSUME AgentAssumption, IInv, NEW t \in 1..Len(claims), claims' = [claims EXCEPT ![t].used = @ + 1]
    PROVE  /\ claims' \in Seq(Claim) /\ Len(claims') = Len(claims)
           /\ \A u \in (1..Len(claims)) \ {t} : claims'[u] = claims[u]
           /\ claims'[t] = [claims[t] EXCEPT !.used = claims[t].used + 1]
  <1> DEFINE c == [claims[t] EXCEPT !.used = claims[t].used + 1]
  <1>1. c \in Claim
    <2>1. claims[t] \in Claim
      BY ClaimsAre
    <2> QED
      BY <2>1, UsedIsClaim
  <1>2. claims' = [claims EXCEPT ![t] = c]
    OBVIOUS
  <1> HIDE DEF c
  <1>3. claims' \in Seq(Claim) /\ Len(claims') = Len(claims)
        /\ \A u \in 1..Len(claims) : claims'[u] = IF u = t THEN c ELSE claims[u]
    BY <1>1, <1>2, ClaimsAre, ExceptSeq
  <1> QED
    BY <1>3 DEF c

\* What a capability says of the source and the catalogue when it is handed out.
LEMMA HandleIsClaim ==
    ASSUME AgentAssumption, IInv, NEW kind \in {"issue", "repair"}, NEW i \in Issues
    PROVE  /\ Handle(kind, i) \in Claim /\ ClaimFits(Handle(kind, i))
           /\ Handle(kind, i).of = kind /\ Handle(kind, i).issue = i
           /\ Handle(kind, i).used = 0
  <1>1. source.config \in Configs /\ source.attempt \in 0..MaxChecks
        /\ edition.version \in Nat /\ edition.value \in Values
    BY DEF IInv, AgentTypeOK, Source
  <1>2. Handle(kind, i) \in Claim
    BY <1>1 DEF Handle, Premises, Claim
  <1>3. ClaimFits(Handle(kind, i))
    BY <1>1 DEF Handle, Premises, ClaimFits
  <1> QED
    BY <1>2, <1>3 DEF Handle

-----------------------------------------------------------------------------
(* Steps by what they change.                                                *)

LEMMA SourceChanges ==
    ASSUME AgentAssumption, IInv, source' \in Source, checks' \in 0..MaxChecks,
           UNCHANGED <<edition, state, repair, claims, edits>>
    PROVE  IInv'
  <1>1. AgentTypeOK'
    BY DEF IInv, AgentTypeOK
  <1>2. \A i \in Issues : CaseFits(i, state[i])' /\ RepairFits(i, repair[i])'
    BY DEF IInv, CaseFits, RepairFits
  <1>3. \A t \in 1..Len(claims') : ClaimFits(claims[t])'
    BY DEF IInv, ClaimFits
  <1> QED
    BY <1>1, <1>2, <1>3 DEF IInv

\* A publication counts the version up: nothing was seen of it by a claim.
LEMMA CatalogChanges ==
    ASSUME AgentAssumption, IInv, source' \in Source, NEW v \in Values,
           edition' = [value |-> v, version |-> edition.version + 1], edits' \in 0..MaxEdits,
           UNCHANGED <<state, repair, claims, checks>>
    PROVE  IInv'
  <1>1. AgentTypeOK'
    BY DEF IInv, AgentTypeOK
  <1>2. \A i \in Issues : CaseFits(i, state[i])' /\ RepairFits(i, repair[i])'
    BY DEF IInv, CaseFits, RepairFits
  <1>3. \A t \in 1..Len(claims') : ClaimFits(claims[t])'
    <2> SUFFICES ASSUME NEW t \in 1..Len(claims) PROVE ClaimFits(claims[t])'
      OBVIOUS
    <2>1. claims[t] \in Claim /\ ClaimFits(claims[t])
      BY ClaimsAre DEF IInv
    <2>2. claims[t].snapshot[3] \in Nat /\ edition.version \in Nat
      BY <2>1 DEF Claim, IInv, AgentTypeOK
    <2> QED
      BY <2>1, <2>2 DEF ClaimFits
  <1> QED
    BY <1>1, <1>2, <1>3 DEF IInv

LEMMA CaseChanges ==
    ASSUME AgentAssumption, IInv, NEW i \in Issues, NEW r \in Case, CaseFits(i, r),
           state' = [state EXCEPT ![i] = r],
           UNCHANGED <<source, edition, repair, claims, checks, edits>>
    PROVE  IInv'
  <1>1. AgentTypeOK'
    BY DEF IInv, AgentTypeOK
  <1>2. \A j \in Issues : CaseFits(j, state[j])' /\ RepairFits(j, repair[j])'
    BY DEF IInv, AgentTypeOK, CaseFits, RepairFits
  <1>3. \A t \in 1..Len(claims') : ClaimFits(claims[t])'
    BY DEF IInv, ClaimFits
  <1> QED
    BY <1>1, <1>2, <1>3 DEF IInv

LEMMA RepairChanges ==
    ASSUME AgentAssumption, IInv, NEW i \in Issues, NEW r \in Repair, RepairFits(i, r),
           repair' = [repair EXCEPT ![i] = r],
           UNCHANGED <<source, edition, state, claims, checks, edits>>
    PROVE  IInv'
  <1>1. AgentTypeOK'
    BY DEF IInv, AgentTypeOK
  <1>2. \A j \in Issues : CaseFits(j, state[j])' /\ RepairFits(j, repair[j])'
    BY DEF IInv, AgentTypeOK, CaseFits, RepairFits
  <1>3. \A t \in 1..Len(claims') : ClaimFits(claims[t])'
    BY DEF IInv, ClaimFits
  <1> QED
    BY <1>1, <1>2, <1>3 DEF IInv

\* The row that is claimed holds the new capability, the others what they held.
LEMMA CaseClaimed ==
    ASSUME AgentAssumption, IInv, NEW i \in Issues, Len(claims) + 1 \in Tokens,
           state[i].status = "resolved" => Kind[i] = "manual",
           state' = [state EXCEPT ![i].token = Len(claims) + 1, ![i].live = TRUE],
           claims' = Append(claims, Handle("issue", i)),
           UNCHANGED <<source, edition, repair, checks, edits>>
    PROVE  IInv'
  <1> DEFINE r == [state[i] EXCEPT !.token = Len(claims) + 1, !.live = TRUE]
  <1>1. state[i] \in Case /\ CaseFits(i, state[i])
    BY DEF IInv, AgentTypeOK
  <1>2. r \in Case /\ r.token = Len(claims) + 1 /\ r.live /\ r.attempts = state[i].attempts
        /\ r.status = state[i].status /\ r.retry = state[i].retry
    BY <1>1 DEF Case
  <1>3. state' = [state EXCEPT ![i] = r]
    BY DEF IInv, AgentTypeOK
  <1> HIDE DEF r
  <1>4. /\ Handle("issue", i) \in Claim /\ ClaimFits(Handle("issue", i))
        /\ Handle("issue", i).of = "issue" /\ Handle("issue", i).issue = i
        /\ Handle("issue", i).used = 0
    BY HandleIsClaim
  <1>5. /\ claims' \in Seq(Claim) /\ Len(claims') = Len(claims) + 1
        /\ claims'[Len(claims) + 1] = Handle("issue", i)
        /\ \A t \in 1..Len(claims) : claims'[t] = claims[t]
    BY <1>4, OneMore
  <1>6. Len(claims) \in Nat /\ Len(claims) + 1 <= MaxClaims
    BY ClaimsAre DEF Tokens
  <1>7. AgentTypeOK'
    BY <1>2, <1>3, <1>5, <1>6 DEF IInv, AgentTypeOK
  <1>8. CaseFits(i, state[i])'
    <2>1. state[i].attempts \in Nat /\ state[i].attempts <= Len(claims)
      BY <1>1 DEF Case, CaseFits
    <2>2. state'[i] = r
      BY <1>3 DEF IInv, AgentTypeOK
    <2>3. None # Len(claims) + 1
      BY <1>6
    <2> QED
      BY <1>1, <1>2, <1>4, <1>5, <1>6, <2>1, <2>2, <2>3 DEF CaseFits
  <1>9. ASSUME NEW j \in Issues \ {i} PROVE CaseFits(j, state[j])'
    <2>1. state'[j] = state[j] /\ state[j] \in Case /\ CaseFits(j, state[j])
      BY <1>3 DEF IInv, AgentTypeOK
    <2>2. state[j].attempts \in Nat
      BY <2>1 DEF Case
    <2> QED
      BY <1>5, <1>6, <2>1, <2>2 DEF CaseFits
  <1>10. ASSUME NEW j \in Issues PROVE RepairFits(j, repair[j])'
    BY <1>5, <1>6 DEF IInv, RepairFits
  <1>11. \A t \in 1..Len(claims') : ClaimFits(claims[t])'
    BY <1>4, <1>5, <1>6 DEF IInv, ClaimFits
  <1> QED
    BY <1>7, <1>8, <1>9, <1>10, <1>11 DEF IInv

LEMMA RepairClaimed ==
    ASSUME AgentAssumption, IInv, NEW i \in Issues, Len(claims) + 1 \in Tokens,
           repair[i].status \in {"pending", "retry"},
           repair' = [repair EXCEPT ![i].token = Len(claims) + 1, ![i].live = TRUE],
           claims' = Append(claims, Handle("repair", i)),
           UNCHANGED <<source, edition, state, checks, edits>>
    PROVE  IInv'
  <1> DEFINE r == [repair[i] EXCEPT !.token = Len(claims) + 1, !.live = TRUE]
  <1>1. repair[i] \in Repair
    BY DEF IInv, AgentTypeOK
  <1>2. r \in Repair /\ r.token = Len(claims) + 1 /\ r.live /\ r.status = repair[i].status
    BY <1>1 DEF Repair
  <1>3. repair' = [repair EXCEPT ![i] = r]
    BY DEF IInv, AgentTypeOK
  <1> HIDE DEF r
  <1>4. /\ Handle("repair", i) \in Claim /\ ClaimFits(Handle("repair", i))
        /\ Handle("repair", i).of = "repair" /\ Handle("repair", i).issue = i
        /\ Handle("repair", i).used = 0
    BY HandleIsClaim
  <1>5. /\ claims' \in Seq(Claim) /\ Len(claims') = Len(claims) + 1
        /\ claims'[Len(claims) + 1] = Handle("repair", i)
        /\ \A t \in 1..Len(claims) : claims'[t] = claims[t]
    BY <1>4, OneMore
  <1>6. Len(claims) \in Nat /\ Len(claims) + 1 <= MaxClaims
    BY ClaimsAre DEF Tokens
  <1>7. AgentTypeOK'
    BY <1>2, <1>3, <1>5, <1>6 DEF IInv, AgentTypeOK
  <1>8. RepairFits(i, repair[i])'
    <2>1. repair'[i] = r
      BY <1>3 DEF IInv, AgentTypeOK
    <2>2. None # Len(claims) + 1
      BY <1>6
    <2> QED
      BY <1>2, <1>4, <1>5, <1>6, <2>1, <2>2 DEF RepairFits
  <1>9. ASSUME NEW j \in Issues \ {i} PROVE RepairFits(j, repair[j])'
    <2>1. repair'[j] = repair[j] /\ RepairFits(j, repair[j])
      BY <1>3 DEF IInv, AgentTypeOK
    <2> QED
      BY <1>5, <1>6, <2>1 DEF RepairFits
  <1>10. ASSUME NEW j \in Issues PROVE CaseFits(j, state[j])'
    <2>1. state[j] \in Case /\ CaseFits(j, state[j])
      BY DEF IInv, AgentTypeOK
    <2>2. state[j].attempts \in Nat
      BY <2>1 DEF Case
    <2> QED
      BY <1>5, <1>6, <2>1, <2>2 DEF CaseFits
  <1>11. \A t \in 1..Len(claims') : ClaimFits(claims[t])'
    BY <1>4, <1>5, <1>6 DEF IInv, ClaimFits
  <1> QED
    BY <1>7, <1>8, <1>9, <1>10, <1>11 DEF IInv

-----------------------------------------------------------------------------
(* The importer, the administrators and the activations change the source    *)
(* and the catalogue.                                                        *)

LEMMA SourceIs ==
    ASSUME AgentAssumption, IInv
    PROVE  /\ source \in Source /\ source.config \in Configs /\ source.issue \in Issues \cup {None}
           /\ source.check \in {"none", "late", "claimed", "read", "failed", "published"}
           /\ checks \in 0..MaxChecks
           /\ \A failed \in BOOLEAN : Found(failed) \subseteq Issues
           /\ \A c, f : Unchecked(c, f) \subseteq Issues \cup {None}
  BY DEF IInv, AgentTypeOK, Source, Found, Unchecked

LEMMA ImporterKeeps == ASSUME AgentAssumption, IInv, Importer PROVE IInv'
  <1>1. CASE SourceClaim
    <2>1. source' \in Source
      BY <1>1, SourceIs DEF SourceClaim, Source
    <2>2. checks' \in 0..MaxChecks
      BY <1>1, SourceIs DEF SourceClaim
    <2> QED
      BY <1>1, <2>1, <2>2, SourceChanges DEF SourceClaim
  <1>2. CASE SourceSucceeds
    <2>1. PICK i \in Issues \cup {None} :
             source' = [source EXCEPT !.issue = i, !.check = "none", !.failing = FALSE,
                                      !.success = checks, !.wait = TRUE]
      <3>1. (IF source.failing THEN Found(FALSE) \cup {None} ELSE {source.issue})
              \subseteq Issues \cup {None}
        BY SourceIs
      <3> QED
        BY <1>2, <3>1 DEF SourceSucceeds
    <2>2. source' \in Source
      BY <2>1, SourceIs DEF Source
    <2> QED
      BY <1>2, <2>2, SourceIs, SourceChanges DEF SourceSucceeds
  <1>3. CASE SourceFails
    <2>1. source' \in Source
      BY <1>3, SourceIs DEF SourceFails, Source
    <2> QED
      BY <1>3, <2>1, SourceIs, SourceChanges DEF SourceFails
  <1>4. CASE SourceLapse \/ SourceDue
    <2>1. source' \in Source
      BY <1>4, SourceIs DEF SourceLapse, SourceDue, Source
    <2> QED
      BY <1>4, <2>1, SourceIs, SourceChanges DEF SourceLapse, SourceDue
  <1>5. ASSUME NEW i \in Issues \cup {None}, Persist(i) PROVE IInv'
    <2>1. source' \in Source
      BY <1>5, SourceIs DEF Persist, Source
    <2> QED
      BY <1>5, <2>1, SourceIs, SourceChanges DEF Persist
  <1>6. ASSUME NEW v \in Values, SourcePublish(v) PROVE IInv'
    <2>1. source' \in Source
      BY <1>6, SourceIs DEF SourcePublish, Source
    <2>2. edits' \in 0..MaxEdits
      BY <1>6 DEF SourcePublish, IInv, AgentTypeOK
    <2> QED
      BY <1>6, <2>1, <2>2, CatalogChanges DEF SourcePublish
  <1> QED
    BY <1>1, <1>2, <1>3, <1>4, <1>5, <1>6 DEF Importer

LEMMA AdminPublishKeeps == ASSUME AgentAssumption, IInv, NEW v \in Values, AdminPublish(v) PROVE IInv'
  <1>1. source' \in Source
    BY SourceIs DEF AdminPublish
  <1>2. edits' \in 0..MaxEdits
    BY DEF AdminPublish, IInv, AgentTypeOK
  <1> QED
    BY <1>1, <1>2, CatalogChanges DEF AdminPublish

LEMMA RebindSource ==
    ASSUME AgentAssumption, IInv, NEW c \in Configs, NEW wait \in BOOLEAN, Rebind(c, wait)
    PROVE  source' \in Source
  <1>1. PICK i \in Issues \cup {None} :
           source' = [source EXCEPT !.config = c, !.issue = i, !.attempt = 0, !.wait = wait]
    BY SourceIs DEF Rebind
  <1>2. 0 \in 0..MaxChecks
    OBVIOUS
  <1> QED
    BY <1>1, <1>2, SourceIs DEF Source

LEMMA ConfigureRepairKeeps ==
    ASSUME AgentAssumption, IInv, NEW i \in Issues, NEW t \in Tokens, ConfigureRepair(i, t)
    PROVE  IInv'
  <1>1. source.wait \in BOOLEAN
    BY SourceIs DEF Source
  <1>2. source' \in Source
    BY <1>1, RebindSource DEF ConfigureRepair
  <1> QED
    BY <1>2, SourceIs, SourceChanges DEF ConfigureRepair

-----------------------------------------------------------------------------
(* Cases and repairs.                                                        *)

LEMMA CaseMoves ==
    ASSUME AgentAssumption, IInv, NEW i \in Issues,
           \/ ResumeIssue(i) \/ LapseIssue(i) \/ DueIssue(i)
           \/ \E t \in Tokens : ReleaseIssue(i, t)
    PROVE  IInv'
  <1> DEFINE x == state[i]
  <1>1. /\ state \in [Issues -> Case] /\ x \in Case /\ CaseFits(i, x)
        /\ x.attempts \in 0..MaxClaims
    BY DEF IInv, AgentTypeOK, Case
  <1>2. CASE ResumeIssue(i)
    <2> DEFINE r == [x EXCEPT !.status = "retry", !.retry = 2 * x.attempts + 1,
                              !.wait = FALSE, !.receipt = None]
    <2>1. 2 * x.attempts + 1 \in 0..(2 * MaxClaims + 1)
      BY <1>1
    <2>2. r \in Case
      BY <1>1, <2>1 DEF Case
    <2>3. CaseFits(i, r)
      <3>1. x.status # "new"
        BY <1>2 DEF ResumeIssue
      <3> QED
        BY <1>1, <3>1 DEF CaseFits, Case
    <2>4. state' = [state EXCEPT ![i] = r]
      BY <1>1, <1>2 DEF ResumeIssue
    <2> QED
      BY <1>2, <2>2, <2>3, <2>4, CaseChanges DEF ResumeIssue
  <1>3. CASE LapseIssue(i)
    <2> DEFINE r == [x EXCEPT !.live = FALSE]
    <2>1. r \in Case /\ CaseFits(i, r)
      BY <1>1 DEF CaseFits, Case
    <2>2. state' = [state EXCEPT ![i] = r]
      BY <1>1, <1>3 DEF LapseIssue
    <2> QED
      BY <1>3, <2>1, <2>2, CaseChanges DEF LapseIssue
  <1>4. CASE DueIssue(i)
    <2> DEFINE r == [x EXCEPT !.wait = FALSE]
    <2>1. r \in Case /\ CaseFits(i, r)
      BY <1>1 DEF CaseFits, Case
    <2>2. state' = [state EXCEPT ![i] = r]
      BY <1>1, <1>4 DEF DueIssue
    <2> QED
      BY <1>4, <2>1, <2>2, CaseChanges DEF DueIssue
  <1>5. CASE \E t \in Tokens : ReleaseIssue(i, t)
    <2> DEFINE r == [x EXCEPT !.token = None, !.live = FALSE]
    <2>1. r \in Case /\ CaseFits(i, r)
      BY <1>1 DEF CaseFits, Case
    <2>2. state' = [state EXCEPT ![i] = r]
      BY <1>1, <1>5 DEF ReleaseIssue
    <2> QED
      BY <1>5, <2>1, <2>2, CaseChanges DEF ReleaseIssue
  <1> QED
    BY <1>2, <1>3, <1>4, <1>5

LEMMA RepairMoves ==
    ASSUME AgentAssumption, IInv, NEW i \in Issues, LapseRepair(i) \/ DueRepair(i)
    PROVE  IInv'
  <1> DEFINE x == repair[i]
  <1>1. repair \in [Issues -> Repair] /\ x \in Repair /\ RepairFits(i, x)
    BY DEF IInv, AgentTypeOK
  <1>2. CASE LapseRepair(i)
    <2> DEFINE r == [x EXCEPT !.live = FALSE]
    <2>1. r \in Repair /\ RepairFits(i, r)
      BY <1>1 DEF RepairFits, Repair
    <2>2. repair' = [repair EXCEPT ![i] = r]
      BY <1>1, <1>2 DEF LapseRepair
    <2> QED
      BY <1>2, <2>1, <2>2, RepairChanges DEF LapseRepair
  <1>3. CASE DueRepair(i)
    <2> DEFINE r == [x EXCEPT !.wait = FALSE]
    <2>1. r \in Repair /\ RepairFits(i, r)
      BY <1>1 DEF RepairFits, Repair
    <2>2. repair' = [repair EXCEPT ![i] = r]
      BY <1>1, <1>3 DEF DueRepair
    <2> QED
      BY <1>3, <2>1, <2>2, RepairChanges DEF DueRepair
  <1> QED
    BY <1>2, <1>3

LEMMA ClaimsKeep ==
    ASSUME AgentAssumption, IInv, NEW i \in Issues, ClaimIssue(i) \/ ClaimRepair(i)
    PROVE  IInv'
  BY CaseClaimed, RepairClaimed DEF ClaimIssue, ClaimRepair

\* A decision has its attempt counted and its capability taken.
LEMMA DecidedIsCase ==
    ASSUME AgentAssumption, IInv, NEW i \in Issues, NEW t \in 1..Len(claims), NEW d \in Decisions,
           state[i].token = t
    PROVE  /\ Decided(i, t, d) \in Case /\ Decided(i, t, d).token = None
           /\ Decided(i, t, d).live = FALSE /\ Decided(i, t, d).attempts <= Len(claims)
           /\ Decided(i, t, d).attempts = state[i].attempts + 1 /\ state[i].attempts \in Nat
  <1>1. /\ state[i] \in Case /\ state[i].attempts \in Nat /\ state[i].attempts < t
        /\ Len(claims) \in Nat /\ Len(claims) <= MaxClaims
    BY ClaimsAre DEF IInv, AgentTypeOK, Case, CaseFits
  <1> DEFINE n == state[i].attempts + 1
  <1>2. n \in 0..MaxClaims /\ n <= Len(claims) /\ t \in Tokens
    BY <1>1 DEF Tokens
  <1>3. 2 * n \in 0..(2 * MaxClaims + 1)
    BY <1>2
  <1>4. Settles(i, d) \in {"retry", "resolved", "needs_user"} /\ Revisited(i, d) \in BOOLEAN
    BY DEF Settles, Revisited, RetryFailure
  <1>5. [token |-> t, decision |-> d] \in {None} \cup [token : Tokens, decision : Decisions]
    BY <1>2
  <1>6. (IF Revisited(i, d) THEN 2 * n ELSE 0) \in 0..(2 * MaxClaims + 1)
    BY <1>3
  <1> QED
    BY <1>1, <1>2, <1>4, <1>5, <1>6 DEF Decided, Case

LEMMA ResolveKeeps ==
    ASSUME AgentAssumption, IInv, NEW i \in Issues, NEW t \in Tokens, NEW d \in Decisions,
           ResolveIssue(i, t, d)
    PROVE  IInv'
  <1>1. /\ t \in 1..Len(claims) /\ claims[t] \in Claim /\ claims[t].of = "issue"
        /\ claims[t].issue = i /\ state[i].token = t /\ state[i].live
        /\ Len(claims) \in Nat
    BY ClaimsAre DEF ResolveIssue, Entitled, Presented
  <1>2. claims[t].used = 0
    BY <1>1 DEF IInv, CaseFits
  <1>3. source' \in Source
    <2>1. CASE \E c \in Configs : Rebind(c, FALSE)
      BY <2>1, RebindSource
    <2>2. CASE source' = [source EXCEPT
                  !.issue = IF Kind[i] = "review" /\ d.action \in {"apply", "dismiss"}
                            THEN None ELSE @]
      BY <2>2, SourceIs DEF Source
    <2> QED
      BY <2>1, <2>2 DEF ResolveIssue, BindOrDispose
  <1>4. /\ edition \in [value : Values, version : Nat]
        /\ \/ edition' = edition
           \/ \E v \in Values : edition' = [value |-> v, version |-> edition.version + 1]
    <2>1. d.facts \in Values \cup {None}
      BY DEF Decisions
    <2> QED
      BY <2>1 DEF ResolveIssue, ChangedFacts, IInv, AgentTypeOK
  <1>5. /\ repair' \in [Issues -> Repair]
        /\ \A j \in Issues : /\ repair'[j].token = repair[j].token
                             /\ repair'[j].live = repair[j].live
                             /\ \/ repair'[j].status = repair[j].status
                                \/ repair'[j].status = "pending"
    <2>1. repair \in [Issues -> Repair]
      BY DEF IInv, AgentTypeOK
    <2>2. CASE UNCHANGED repair
      BY <2>1, <2>2
    <2>3. CASE EnqueueParserRepair(i)
      <3> DEFINE r == [repair[i] EXCEPT !.status = IF @ = "none" THEN "pending" ELSE @]
      <3>1. /\ r \in Repair /\ r.token = repair[i].token /\ r.live = repair[i].live
            /\ r.status \in {repair[i].status, "pending"}
        BY <2>1 DEF Repair
      <3>2. repair' = [repair EXCEPT ![i] = r]
        BY <2>1, <2>3 DEF EnqueueParserRepair
      <3> QED
        BY <2>1, <3>1, <3>2
    <2> QED
      BY <2>2, <2>3 DEF ResolveIssue
  <1> DEFINE r == Decided(i, t, d)
  <1> HIDE DEF r
  <1>6. r \in Case /\ r.token = None /\ r.live = FALSE /\ r.attempts <= Len(claims)
        /\ r.attempts # 0
    <2>1. state[i].token = t
      BY <1>1
    <2>2. t \in 1..Len(claims)
      BY <1>1
    <2> HIDE DEF AgentAssumption
    <2>3. /\ Decided(i, t, d) \in Case /\ Decided(i, t, d).token = None
          /\ Decided(i, t, d).live = FALSE /\ Decided(i, t, d).attempts <= Len(claims)
          /\ Decided(i, t, d).attempts = state[i].attempts + 1 /\ state[i].attempts \in Nat
      BY <2>1, <2>2, DecidedIsCase
    <2> QED
      BY <2>3 DEF r
  <1>7. state' = [state EXCEPT ![i] = r] /\ state \in [Issues -> Case]
    BY DEF r, ResolveIssue, IInv, AgentTypeOK
  <1>8. /\ claims' \in Seq(Claim) /\ Len(claims') = Len(claims)
        /\ \A u \in (1..Len(claims)) \ {t} : claims'[u] = claims[u]
        /\ claims'[t] = [claims[t] EXCEPT !.used = claims[t].used + 1]
    BY <1>1, OneUsed DEF ResolveIssue
  <1>9. /\ claims'[t].used = 1 /\ claims'[t].snapshot = claims[t].snapshot
        /\ claims'[t].seen = claims[t].seen
    BY <1>1, <1>2, <1>8 DEF Claim
  <1>10. AgentTypeOK'
    <2>1. edition' \in [value : Values, version : Nat]
      BY <1>4
    <2>2. state' \in [Issues -> Case]
      BY <1>6, <1>7
    <2> QED
      BY <1>3, <1>5, <1>8, <2>1, <2>2 DEF ResolveIssue, IInv, AgentTypeOK
  <1>11. ASSUME NEW j \in Issues PROVE CaseFits(j, state[j])'
    <2>1. CASE j = i
      BY <1>6, <1>7, <1>8, <2>1 DEF CaseFits
    <2>2. CASE j # i
      BY <1>1, <1>7, <1>8, <2>2 DEF IInv, CaseFits
    <2> QED
      BY <2>1, <2>2
  <1>12. ASSUME NEW j \in Issues PROVE RepairFits(j, repair[j])'
    BY <1>1, <1>5, <1>8 DEF IInv, RepairFits
  <1>13. ASSUME NEW u \in 1..Len(claims') PROVE ClaimFits(claims[u])'
    <2>1. /\ u \in 1..Len(claims) /\ claims[u] \in Claim /\ ClaimFits(claims[u])
          /\ claims[u].snapshot[3] \in Nat /\ edition.version \in Nat
      BY <1>4, <1>8, ClaimsAre DEF IInv, Claim
    <2>2. /\ claims'[u].snapshot = claims[u].snapshot /\ claims'[u].seen = claims[u].seen
          /\ claims'[u].used <= 1
      <3>1. CASE u = t
        BY <1>9, <3>1
      <3>2. CASE u # t
        BY <1>8, <2>1, <3>2 DEF ClaimFits
      <3> QED
        BY <3>1, <3>2
    <2> QED
      BY <1>4, <2>1, <2>2 DEF ClaimFits
  <1> QED
    BY <1>10, <1>11, <1>12, <1>13 DEF IInv

LEMMA FinishRepairKeeps ==
    ASSUME AgentAssumption, IInv, NEW i \in Issues, NEW t \in Tokens, NEW result \in {"completed", "retry"},
           FinishRepair(i, t, result)
    PROVE  IInv'
  <1>1. /\ t \in 1..Len(claims) /\ claims[t] \in Claim /\ claims[t].of = "repair"
        /\ claims[t].issue = i /\ repair[i].token = t /\ Len(claims) \in Nat
    BY ClaimsAre DEF FinishRepair, HoldsRepair, Presented
  <1>2. claims[t].used = 0
    BY <1>1 DEF IInv, RepairFits
  <1> DEFINE r == [status |-> result, token |-> None, live |-> FALSE,
                   retry |-> IF result = "retry" THEN t ELSE 0, wait |-> result = "retry",
                   receipt |-> [token |-> t, result |-> result]]
  <1>3. r \in Repair /\ r.token = None /\ r.live = FALSE
    BY DEF Repair, Tokens
  <1>4. repair' = [repair EXCEPT ![i] = r] /\ repair \in [Issues -> Repair]
    BY DEF FinishRepair, IInv, AgentTypeOK
  <1> HIDE DEF r
  <1>5. /\ claims' \in Seq(Claim) /\ Len(claims') = Len(claims)
        /\ \A u \in (1..Len(claims)) \ {t} : claims'[u] = claims[u]
        /\ claims'[t] = [claims[t] EXCEPT !.used = claims[t].used + 1]
    BY <1>1, OneUsed DEF FinishRepair
  <1>6. /\ claims'[t].used = 1 /\ claims'[t].snapshot = claims[t].snapshot
        /\ claims'[t].seen = claims[t].seen
    BY <1>1, <1>2, <1>5 DEF Claim
  <1>7. AgentTypeOK'
    <2>1. repair' \in [Issues -> Repair]
      BY <1>3, <1>4
    <2> QED
      BY <1>5, <2>1 DEF FinishRepair, IInv, AgentTypeOK
  <1>8. ASSUME NEW j \in Issues PROVE RepairFits(j, repair[j])'
    <2>1. CASE j = i
      BY <1>3, <1>4, <1>5, <2>1 DEF RepairFits
    <2>2. CASE j # i
      BY <1>1, <1>4, <1>5, <2>2 DEF IInv, RepairFits
    <2> QED
      BY <2>1, <2>2
  <1>9. ASSUME NEW j \in Issues PROVE CaseFits(j, state[j])'
    BY <1>1, <1>5 DEF FinishRepair, IInv, CaseFits
  <1>10. ASSUME NEW u \in 1..Len(claims') PROVE ClaimFits(claims[u])'
    <2>1. u \in 1..Len(claims) /\ ClaimFits(claims[u])
      BY <1>5 DEF IInv
    <2>2. /\ claims'[u].snapshot = claims[u].snapshot /\ claims'[u].seen = claims[u].seen
          /\ claims'[u].used <= 1
      <3>1. CASE u = t
        BY <1>6, <3>1
      <3>2. CASE u # t
        BY <1>5, <2>1, <3>2 DEF ClaimFits
      <3> QED
        BY <3>1, <3>2
    <2> QED
      BY <2>1, <2>2 DEF FinishRepair, ClaimFits
  <1> QED
    BY <1>7, <1>8, <1>9, <1>10 DEF IInv

-----------------------------------------------------------------------------
(* The invariant.                                                            *)

LEMMA InitHolds == ASSUME AgentAssumption, AgentInit PROVE IInv
  <1>1. source \in Source
    <2>1. 0 \in 0..MaxChecks
      OBVIOUS
    <2>2. \A c \in Configs : Unchecked(c, FALSE) \subseteq Issues \cup {None}
      BY DEF Unchecked
    <2>3. PICK c \in Configs, i \in Issues \cup {None} :
             source = [config |-> c, issue |-> i, attempt |-> 0, failing |-> FALSE,
                       success |-> 0, check |-> "none", wait |-> FALSE]
      BY <2>2 DEF AgentInit
    <2> QED
      BY <2>1, <2>3 DEF Source
  <1>2. claims \in Seq(Claim) /\ Len(claims) = 0
    BY DEF AgentInit
  <1>3. 0 \in 0..MaxClaims /\ 0 \in 0..(2 * MaxClaims + 1)
    OBVIOUS
  <1>4. AgentTypeOK
    <2>1. state \in [Issues -> Case]
      BY <1>3 DEF AgentInit, Case
    <2>2. repair \in [Issues -> Repair]
      BY <1>3 DEF AgentInit, Repair
    <2>3. edition \in [value : Values, version : Nat]
      BY DEF AgentInit
    <2>4. checks \in 0..MaxChecks /\ edits \in 0..MaxEdits
      BY DEF AgentInit
    <2> QED
      BY <1>1, <1>2, <2>1, <2>2, <2>3, <2>4 DEF AgentTypeOK
  <1> QED
    BY <1>2, <1>4 DEF AgentInit, IInv, CaseFits, RepairFits

LEMMA NextKeeps ==
    ASSUME AgentAssumption, IInv, [AgentNext]_agentVars
    PROVE  IInv'
  <1> HIDE DEF AgentAssumption
  <1>1. CASE UNCHANGED agentVars
    BY <1>1 DEF agentVars, IInv, AgentTypeOK, CaseFits, RepairFits, ClaimFits
  <1>2. CASE Importer
    BY <1>2, ImporterKeeps
  <1>3. CASE \E v \in Values : AdminPublish(v)
    BY <1>3, AdminPublishKeeps
  <1>4. ASSUME NEW i \in Issues, IssueStep(i) \/ RepairStep(i) \/ Clock(i) PROVE IInv'
    <2>1. CASE IssueStep(i)
      BY <2>1, ClaimsKeep, CaseMoves, ResolveKeeps DEF IssueStep
    <2>2. CASE RepairStep(i)
      BY <2>2, ClaimsKeep, FinishRepairKeeps, ConfigureRepairKeeps DEF RepairStep
    <2>3. CASE Clock(i)
      BY <2>3, CaseMoves, RepairMoves DEF Clock
    <2> QED
      BY <1>4, <2>1, <2>2, <2>3
  <1> QED
    BY <1>1, <1>2, <1>3, <1>4 DEF AgentNext

\* At most one case or repair holds a capability, the one it was claimed for, and nothing
\* has been settled by it (claimAgentIssue, resolveAgentIssue, claimParserRepair).
THEOREM Inductive == ASSUME AgentAssumption PROVE AgentSpec => []IInv
  <1> HIDE DEF AgentAssumption
  <1>1. AgentInit => IInv
    BY InitHolds
  <1>2. IInv /\ [AgentNext]_agentVars => IInv'
    BY NextKeeps
  <1> QED
    BY <1>1, <1>2, PTL DEF AgentSpec

\* However often and by whomever a capability is presented, it settles its case or repair
\* once (resolveAgentIssue and finishParserRepair answer a replay from the receipt).
THEOREM SettlesOnce == ASSUME AgentAssumption PROVE AgentSpec => []SettledOnce
  <1> HIDE DEF AgentAssumption
  <1>1. IInv => SettledOnce
    BY ClaimsAre DEF IInv, ClaimFits, SettledOnce
  <1> QED
    BY <1>1, Inductive, PTL

-----------------------------------------------------------------------------
(* Who settles, takes over and reopens.                                      *)

\* Only a decision settles an issue, and only while all it was claimed for is there.
LEMMA UsedByDecision ==
    ASSUME AgentAssumption, IInv, [AgentNext]_agentVars, NEW t \in Tokens, Uses(t),
           claims[t].of = "issue"
    PROVE  \E i \in Issues, d \in Decisions : ResolveIssue(i, t, d)
  <1>1. /\ t \in 1..Len(claims) /\ claims \in Seq(Claim) /\ Len(claims) \in Nat
        /\ claims[t].used \in Nat
    BY ClaimsAre DEF Uses, Claim
  <1>2. claims' # claims
    BY <1>1 DEF Uses
  <1>3. \A c \in Claim : claims' # Append(claims, c)
    BY <1>1, OneMore DEF Uses
  <1>4. \A i \in Issues : Handle("issue", i) \in Claim /\ Handle("repair", i) \in Claim
    BY HandleIsClaim
  <1>5. ASSUME NEW u \in Tokens, u \in DOMAIN claims,
               claims' = [claims EXCEPT ![u].used = @ + 1]
        PROVE  u = t
    BY <1>1, <1>5, ClaimsAre, OneUsed DEF Uses
  <1> HIDE DEF AgentAssumption
  <1>6. ~Importer
    BY <1>2 DEF Importer, SourceClaim, SourceSucceeds, SourceFails, SourceLapse, SourceDue,
                Persist, SourcePublish
  <1>7. ~UNCHANGED agentVars /\ \A v \in Values : ~AdminPublish(v)
    BY <1>2 DEF agentVars, AdminPublish
  <1>8. PICK i \in Issues : IssueStep(i) \/ RepairStep(i) \/ Clock(i)
    BY <1>6, <1>7 DEF AgentNext
  <1>9. ~Clock(i)
    BY <1>2 DEF Clock, LapseIssue, DueIssue, LapseRepair, DueRepair
  <1>10. ~RepairStep(i)
    <2>1. ~ClaimRepair(i)
      BY <1>3, <1>4 DEF ClaimRepair
    <2>2. ASSUME NEW u \in Tokens, NEW r \in {"completed", "retry"} PROVE ~FinishRepair(i, u, r)
      BY <1>5 DEF FinishRepair, HoldsRepair, Presented
    <2>3. \A u \in Tokens : ~ConfigureRepair(i, u)
      BY <1>2 DEF ConfigureRepair
    <2> QED
      BY <2>1, <2>2, <2>3 DEF RepairStep
  <1>11. PICK u \in Tokens, d \in Decisions : ResolveIssue(i, u, d)
    <2>1. ~ClaimIssue(i)
      BY <1>3, <1>4 DEF ClaimIssue
    <2>2. ~ResumeIssue(i) /\ \A u \in Tokens : ~ReleaseIssue(i, u)
      BY <1>2 DEF ResumeIssue, ReleaseIssue
    <2> QED
      BY <1>8, <1>9, <1>10, <2>1, <2>2 DEF IssueStep
  <1>12. u = t
    BY <1>5, <1>11 DEF ResolveIssue, Presented
  <1> QED
    BY <1>11, <1>12

\* A decision changes what its agent saw at the claim, not what has become of it since.
THEOREM LosesNoUpdate == ASSUME AgentAssumption PROVE AgentSpec => NoLostUpdate
  <1>1. ASSUME IInv, [AgentNext]_agentVars, NEW t \in Tokens, Uses(t), claims[t].of = "issue"
        PROVE  claims[t].seen = <<edition.value, source.config>>
    <2>1. PICK i \in Issues, d \in Decisions : ResolveIssue(i, t, d)
      BY <1>1, UsedByDecision
    <2>2. /\ claims[t] \in Claim /\ ClaimFits(claims[t])
          /\ claims[t].snapshot = <<source.config, source.attempt, edition.version>>
      BY <1>1, <2>1, ClaimsAre DEF ResolveIssue, Entitled, Premises, Presented, IInv
    <2>3. claims[t].seen[1] = edition.value /\ claims[t].seen[2] = source.config
      BY <2>2 DEF ClaimFits
    <2>4. claims[t].seen \in Values \X Configs
      BY <2>2 DEF Claim
    <2> QED
      BY <2>3, <2>4
  <1> HIDE DEF AgentAssumption
  <1>2. IInv /\ [AgentNext]_agentVars
        => [\A t \in Tokens : Uses(t) /\ claims[t].of = "issue" =>
               claims[t].seen = <<edition.value, source.config>>]_agentVars
    BY <1>1
  <1> QED
    BY <1>2, Inductive, PTL DEF AgentSpec, NoLostUpdate

-----------------------------------------------------------------------------

\* The steps that change the case of i.
LEMMA CaseStep ==
    ASSUME AgentAssumption, IInv, [AgentNext]_agentVars, NEW i \in Issues
    PROVE  \/ state'[i] = state[i]
           \/ ClaimIssue(i) \/ ResumeIssue(i) \/ LapseIssue(i) \/ DueIssue(i)
           \/ \E t \in Tokens : ReleaseIssue(i, t)
           \/ \E t \in Tokens, d \in Decisions : ResolveIssue(i, t, d)
  <1> HIDE DEF AgentAssumption
  <1>1. CASE UNCHANGED state
    BY <1>1
  <1>2. ASSUME NEW j \in Issues, j # i, IssueStep(j) \/ Clock(j) PROVE state'[i] = state[i]
    <2>1. state \in [Issues -> Case]
      BY DEF IInv, AgentTypeOK
    <2> QED
      BY <1>2, <2>1 DEF IssueStep, Clock, ClaimIssue, ReleaseIssue, ResumeIssue, ResolveIssue,
                        LapseIssue, DueIssue, LapseRepair, DueRepair
  <1>3. Importer \/ (\E v \in Values : AdminPublish(v)) \/ UNCHANGED agentVars
        \/ (\E j \in Issues : RepairStep(j) \/ LapseRepair(j) \/ DueRepair(j))
        => UNCHANGED state
    BY DEF Importer, SourceClaim, SourceSucceeds, SourceFails, SourceLapse, SourceDue, Persist,
           SourcePublish, AdminPublish, agentVars, RepairStep, ClaimRepair, FinishRepair,
           ConfigureRepair, LapseRepair, DueRepair
  <1> QED
    BY <1>1, <1>2, <1>3 DEF AgentNext, IssueStep, Clock

\* The steps that change the repair of i.
LEMMA RepairStepOf ==
    ASSUME AgentAssumption, IInv, [AgentNext]_agentVars, NEW i \in Issues
    PROVE  \/ repair'[i] = repair[i]
           \/ ClaimRepair(i) \/ LapseRepair(i) \/ DueRepair(i) \/ EnqueueParserRepair(i)
           \/ \E t \in Tokens, result \in {"completed", "retry"} : FinishRepair(i, t, result)
  <1> HIDE DEF AgentAssumption
  <1>1. CASE UNCHANGED repair
    BY <1>1
  <1>2. ASSUME NEW j \in Issues, j # i, IssueStep(j) \/ RepairStep(j) \/ Clock(j)
        PROVE  repair'[i] = repair[i]
    <2>1. repair \in [Issues -> Repair]
      BY DEF IInv, AgentTypeOK
    <2> QED
      BY <1>2, <2>1 DEF IssueStep, RepairStep, Clock, ClaimIssue, ReleaseIssue, ResumeIssue,
                        ResolveIssue, EnqueueParserRepair, LapseIssue, DueIssue, LapseRepair,
                        DueRepair, ClaimRepair, FinishRepair, ConfigureRepair
  <1>3. \/ Importer \/ \E v \in Values : AdminPublish(v)
        \/ UNCHANGED agentVars
        \/ \E j \in Issues :
              \/ ClaimIssue(j) \/ ResumeIssue(j) \/ LapseIssue(j) \/ DueIssue(j)
              \/ \E t \in Tokens : ReleaseIssue(j, t) \/ ConfigureRepair(j, t)
        => UNCHANGED repair
    BY DEF Importer, SourceClaim, SourceSucceeds, SourceFails, SourceLapse, SourceDue, Persist,
           SourcePublish, AdminPublish, agentVars, ClaimIssue, ReleaseIssue, ResumeIssue,
           ConfigureRepair, LapseIssue, DueIssue
  <1>4. ASSUME NEW t \in Tokens, NEW d \in Decisions, ResolveIssue(i, t, d)
        PROVE  UNCHANGED repair \/ EnqueueParserRepair(i)
    BY <1>4 DEF ResolveIssue
  <1> QED
    BY <1>1, <1>2, <1>3, <1>4 DEF AgentNext, IssueStep, RepairStep, Clock

\* Nobody takes over a case or a repair while its lease is live: whoever claims it finds it
\* free, and a row with a live lease has a capability.
THEOREM TakesOverNothing == ASSUME AgentAssumption PROVE AgentSpec => NoTakeover
  <1>1. ASSUME IInv, [AgentNext]_agentVars, NEW i \in Issues, state[i].live
        PROVE  state'[i].token \in {state[i].token, None}
    <2>1. /\ state \in [Issues -> Case] /\ state[i] \in Case /\ CaseFits(i, state[i])
      BY <1>1 DEF IInv, AgentTypeOK
    <2>2. ~ClaimIssue(i)
      BY <1>1, <2>1 DEF ClaimIssue, Free, CaseFits
    <2>3. ASSUME ResumeIssue(i) \/ LapseIssue(i) \/ DueIssue(i)
          PROVE  state'[i].token = state[i].token
      BY <2>1, <2>3 DEF ResumeIssue, LapseIssue, DueIssue, Case
    <2>4. ASSUME NEW t \in Tokens, ReleaseIssue(i, t) PROVE state'[i].token = None
      BY <2>1, <2>4 DEF ReleaseIssue, Case
    <2>5. ASSUME NEW t \in Tokens, NEW d \in Decisions, ResolveIssue(i, t, d)
          PROVE  state'[i].token = None
      BY <2>1, <2>5 DEF ResolveIssue, Decided
    <2> HIDE DEF AgentAssumption
    <2> QED
      BY <1>1, <2>2, <2>3, <2>4, <2>5, CaseStep
  <1>2. ASSUME IInv, [AgentNext]_agentVars, NEW i \in Issues, repair[i].live
        PROVE  repair'[i].token \in {repair[i].token, None}
    <2>1. /\ repair \in [Issues -> Repair] /\ repair[i] \in Repair /\ RepairFits(i, repair[i])
      BY <1>2 DEF IInv, AgentTypeOK
    <2>2. ~ClaimRepair(i)
      BY <1>2, <2>1 DEF ClaimRepair, Free, RepairFits
    <2>3. ASSUME LapseRepair(i) \/ DueRepair(i) \/ EnqueueParserRepair(i)
          PROVE  repair'[i].token = repair[i].token
      BY <2>1, <2>3 DEF LapseRepair, DueRepair, EnqueueParserRepair, Repair
    <2>4. ASSUME NEW t \in Tokens, NEW result \in {"completed", "retry"},
                 FinishRepair(i, t, result)
          PROVE  repair'[i].token = None
      BY <2>1, <2>4 DEF FinishRepair
    <2> HIDE DEF AgentAssumption
    <2> QED
      BY <1>2, <2>2, <2>3, <2>4, RepairStepOf
  <1> HIDE DEF AgentAssumption
  <1>3. IInv /\ [AgentNext]_agentVars
        => [\A i \in Issues :
              /\ state[i].live => state'[i].token \in {state[i].token, None}
              /\ repair[i].live => repair'[i].token \in {repair[i].token, None}]_agentVars
    BY <1>1, <1>2
  <1> QED
    BY <1>3, Inductive, PTL DEF AgentSpec, NoTakeover

\* A completed repair is not reopened.
LEMMA CompletedStays ==
    ASSUME AgentAssumption, IInv, [AgentNext]_agentVars, NEW i \in Issues,
           repair[i].status = "completed"
    PROVE  repair'[i].status = "completed"
  <1>1. /\ repair \in [Issues -> Repair] /\ repair[i] \in Repair /\ repair[i].token = None
    BY DEF IInv, AgentTypeOK, RepairFits
  <1>2. ~ClaimRepair(i)
    BY DEF ClaimRepair
  <1>3. ASSUME LapseRepair(i) \/ DueRepair(i) \/ EnqueueParserRepair(i)
        PROVE  repair'[i].status = "completed"
    BY <1>1, <1>3 DEF LapseRepair, DueRepair, EnqueueParserRepair, Repair
  <1>4. None \notin Tokens
    BY DEF Tokens
  <1>5. \A t \in Tokens, result \in {"completed", "retry"} : ~FinishRepair(i, t, result)
    BY <1>1, <1>4 DEF FinishRepair, HoldsRepair
  <1> HIDE DEF AgentAssumption
  <1> QED
    BY <1>2, <1>3, <1>5, RepairStepOf

\* What is closed stays closed: a decided proposal and a completed repair hold no capability
\* with which anything could be settled, and no new one is handed out for them.
THEOREM ReopensNothing == ASSUME AgentAssumption PROVE AgentSpec => ClosedStays
  <1>1. ASSUME IInv, [AgentNext]_agentVars, NEW i \in Issues,
               state[i].status = "resolved", Kind[i] # "manual"
        PROVE  state'[i].status = "resolved"
    <2>1. /\ state \in [Issues -> Case] /\ state[i] \in Case /\ state[i].token = None
      BY <1>1 DEF IInv, AgentTypeOK, CaseFits
    <2>2. ~ClaimIssue(i) /\ ~ResumeIssue(i)
      BY <1>1 DEF ClaimIssue, ResumeIssue
    <2>3. ASSUME LapseIssue(i) \/ DueIssue(i) PROVE state'[i].status = "resolved"
      BY <1>1, <2>1, <2>3 DEF LapseIssue, DueIssue, Case
    <2>4. None \notin Tokens
      BY DEF Tokens
    <2>5. \A t \in Tokens : ~ReleaseIssue(i, t)
      BY <2>1, <2>4 DEF ReleaseIssue
    <2>6. \A t \in Tokens, d \in Decisions : ~ResolveIssue(i, t, d)
      BY <2>1, <2>4 DEF ResolveIssue, Entitled
    <2> HIDE DEF AgentAssumption
    <2> QED
      BY <1>1, <2>2, <2>3, <2>5, <2>6, CaseStep
  <1>2. ASSUME IInv, [AgentNext]_agentVars, NEW i \in Issues, repair[i].status = "completed"
        PROVE  repair'[i].status = "completed"
    BY <1>2, CompletedStays
  <1> HIDE DEF AgentAssumption
  <1>3. IInv /\ [AgentNext]_agentVars
        => [\A i \in Issues :
              /\ state[i].status = "resolved" /\ Kind[i] # "manual" =>
                    state'[i].status = "resolved"
              /\ repair[i].status = "completed" => repair'[i].status = "completed"]_agentVars
    BY <1>1, <1>2
  <1> QED
    BY <1>3, Inductive, PTL DEF AgentSpec, ClosedStays

\* While the importer checks the source, no agent changes it: decisions and activations
\* wait for its lease, and all it does itself moves its check on.
THEOREM DisturbsNoCheck == ASSUME AgentAssumption PROVE AgentSpec => ImporterUndisturbed
  <1> HIDE DEF AgentAssumption
  <1> DEFINE Quiet == Leased /\ edits' = edits /\ source'.check = source.check
             Same == source'.config = source.config /\ source'.issue = source.issue
                     /\ edition' = edition
  <1>1. ASSUME IInv, Importer, Quiet PROVE Same
    <2>1. source \in Source /\ edits \in Nat
      BY <1>1 DEF IInv, AgentTypeOK, AgentAssumption
    <2>2. ~SourceClaim
      BY <1>1 DEF SourceClaim
    <2>3. ~SourceSucceeds
      <3>1. ASSUME SourceSucceeds PROVE source'.check = "none"
        <4>1. PICK i : source' = [source EXCEPT !.issue = i, !.check = "none",
                                     !.failing = FALSE, !.success = checks, !.wait = TRUE]
          BY <3>1 DEF SourceSucceeds
        <4> QED
          BY <2>1, <4>1 DEF Source
      <3> QED
        BY <1>1, <3>1 DEF Leased
    <2>4. ~SourceFails /\ ~SourceLapse
      BY <1>1, <2>1 DEF SourceFails, SourceLapse, Leased, Source
    <2>5. SourceDue => Same
      BY <1>1, <2>1 DEF SourceDue, Source
    <2>6. \A i \in Issues \cup {None} : ~Persist(i)
      BY <1>1, <2>1 DEF Persist, Leased, Source
    <2>7. \A v \in Values : ~SourcePublish(v)
      BY <1>1, <2>1 DEF SourcePublish
    <2> QED
      BY <1>1, <2>2, <2>3, <2>4, <2>5, <2>6, <2>7 DEF Importer
  <1>2. ASSUME IInv, NEW v \in Values, AdminPublish(v) PROVE ~Quiet
    BY <1>2 DEF IInv, AgentTypeOK, AgentAssumption, AdminPublish
  <1>3. ASSUME NEW i \in Issues, IssueStep(i) \/ RepairStep(i) \/ Clock(i), Quiet
        PROVE  Same
    <2>1. \A t \in Tokens, d \in Decisions : ~ResolveIssue(i, t, d)
      BY <1>3 DEF ResolveIssue, Entitled
    <2>2. \A t \in Tokens : ~ConfigureRepair(i, t)
      BY <1>3 DEF ConfigureRepair
    <2> QED
      BY <1>3, <2>1, <2>2 DEF IssueStep, RepairStep, Clock, ClaimIssue, ResumeIssue,
             ReleaseIssue, ClaimRepair, FinishRepair, LapseIssue, DueIssue, LapseRepair, DueRepair
  <1>4. UNCHANGED agentVars => Same
    BY DEF agentVars
  <1>5. IInv /\ [AgentNext]_agentVars => [Quiet => Same]_agentVars
    BY <1>1, <1>2, <1>3, <1>4 DEF AgentNext
  <1> QED
    BY <1>5, Inductive, PTL DEF AgentSpec, ImporterUndisturbed

\* What was decided is decided: no capability settles anything twice, and nothing that is
\* closed is opened again (resolveAgentIssue, finishParserRepair).
THEOREM DecidesOnce == ASSUME AgentAssumption PROVE AgentSpec => DecidedOnce
  <1> HIDE DEF AgentAssumption
  <1>1. IInv => AgentTypeOK
    BY DEF IInv
  <1> QED
    BY <1>1, Inductive, SettlesOnce, ReopensNothing, PTL DEF DecidedOnce

\* Whoever has a lease is left alone, agents with their cases and repairs and the importer
\* with its source (claimAgentIssue, claimParserRepair, the checks of the lease).
THEOREM RespectsLeases == ASSUME AgentAssumption PROVE AgentSpec => LeasesRespected
  BY TakesOverNothing, DisturbsNoCheck, PTL DEF LeasesRespected

-----------------------------------------------------------------------------
(* How the agent is called.  A queued event stands for one call at a time    *)
(* (Stands, EventOf).  A drain carries the event that its identity stood for *)
(* when it looked; that is still the one as long as the identity stands for  *)
(* any, because the issue of an attempt moves only under the importer's      *)
(* lease (Firm) and a repair is never retried twice by one capability.       *)

Firm(q) ==
    q[1] = "source" /\ q[2] = source.attempt /\ source.attempt = checks
    => source.check = "none"

Stands(q) ==
    IF q[1] = "repair" THEN repair[q[2]].retry = q[3] /\ repair[q[2]].status # "completed"
    ELSE /\ q[2] = source.attempt /\ source.attempt = checks /\ source.issue # None
         /\ state[source.issue].attempts = 0

EventOf(q) ==
    IF q[1] = "repair" THEN q
    ELSE <<"source", source.issue,
           IF Kind[source.issue] = "failure" THEN source.success ELSE 0, 0>>

Carries(q, e) == Firm(q) /\ (Stands(q) => e = EventOf(q))

\* What q stands for is with the gateway, or q had no case when it was looked at.
Served(q) ==
    \/ q[1] = "source" /\ q \in moot
    \/ Firm(q) /\ (Stands(q) => EventOf(q) \in filed)

\* What is queued has been called for: by an attempt, or by a capability that is used up.
QueueFits(q) ==
    IF q[1] = "repair"
    THEN /\ repair[q[2]].status # "none"
         /\ q[3] # 0 => q[3] \in 1..Len(claims) /\ claims[q[3]].used # 0
    ELSE q[2] <= checks /\ (source.check \in {"claimed", "late"} => q[2] < checks)

CallFits(c) ==
    /\ c.pc # "idle" => c.of \in Identities /\ queue[c.of] # None
    /\ c.pc \in {"send", "await", "record"} => c.id \in EventIds /\ Carries(c.of, c.id)
    /\ c.pc = "record" => c.id \in filed
    /\ c.pc = "settle" /\ c.done => Served(c.of)

ReceiverFits ==
    /\ receiver.pc # "idle" => receiver.id \in EventIds
    /\ receiver.from # None =>
         call[receiver.from].pc = "await" /\ call[receiver.from].id = receiver.id
    /\ receiver.pc = "submit" => receiver.id \notin filed
    /\ receiver.pc = "file" => admitted[receiver.id] > 0 \/ receiver.id \in obsolete

\* The gateway was asked once for what is filed or about to be, never for the rest, apart
\* from what went unrecorded.
EventFits(e) ==
    /\ e \in receipts => e \in filed
    /\ e \in filed => admitted[e] > 0 \/ e \in obsolete
    /\ admitted[e] <= doubts[e]
         + IF e \in filed \/ (receiver.pc = "file" /\ receiver.id = e) THEN 1 ELSE 0

\* An attempt is persisted once, under the check that it belongs to.
AttemptFits ==
    /\ source.attempt <= checks
    /\ source.check \in {"claimed", "late"} => source.attempt < checks

EInv ==
    /\ EventTypeOK
    /\ AttemptFits
    /\ \A q \in Identities :
          /\ queue[q] # None => QueueFits(q)
          /\ Done(q) => queue[q].owner = None /\ Served(q)
    /\ \A d \in Drains : CallFits(call[d])
    /\ ReceiverFits
    /\ \A e \in EventIds : EventFits(e)

LEMMA IdentityIs ==
    ASSUME NEW q \in Identities
    PROVE  \/ q[1] = "source" /\ q[2] \in 1..MaxChecks /\ q = <<"source", q[2]>>
           \/ q[1] = "repair" /\ q[2] \in Issues /\ q[3] \in 0..MaxClaims
              /\ q = <<"repair", q[2], q[3]>>
  BY DEF Identities

LEMMA IsIdentity ==
    ASSUME AgentAssumption
    PROVE  /\ \A a \in 1..MaxChecks : <<"source", a>> \in Identities
           /\ \A i \in Issues, t \in 0..MaxClaims : <<"repair", i, t>> \in Identities
  BY DEF Identities

-----------------------------------------------------------------------------
(* The steps of AgentIssues, with what they queue.                           *)

LEMMA AgentStepIs == ASSUME AgentStep PROVE [AgentNext]_agentVars
  BY DEF AgentStep, PersistAndQueue, ResolveAndQueue, FinishAndQueue, AgentNext, Importer,
         IssueStep, RepairStep

\* Capabilities are kept, and what they were used for.
LEMMA CapabilitiesKept ==
    ASSUME AgentAssumption, IInv, [AgentNext]_agentVars, NEW t \in 1..Len(claims)
    PROVE  t \in 1..Len(claims') /\ (claims[t].used # 0 => claims'[t].used # 0)
  <1> HIDE DEF AgentAssumption
  <1>1. Len(claims) \in Nat /\ claims[t] \in Claim
    BY ClaimsAre
  <1>2. CASE UNCHANGED claims
    BY <1>1, <1>2
  <1>3. ASSUME NEW c \in Claim, claims' = Append(claims, c)
        PROVE  t \in 1..Len(claims') /\ claims'[t] = claims[t]
    BY <1>1, <1>3, OneMore
  <1>4. ASSUME NEW i \in Issues, ClaimIssue(i) \/ ClaimRepair(i)
        PROVE  t \in 1..Len(claims') /\ claims'[t] = claims[t]
    BY <1>3, <1>4, HandleIsClaim DEF ClaimIssue, ClaimRepair
  <1>5. ASSUME NEW u \in 1..Len(claims), claims' = [claims EXCEPT ![u].used = @ + 1]
        PROVE  t \in 1..Len(claims') /\ (claims[t].used # 0 => claims'[t].used # 0)
    <2>1. /\ Len(claims') = Len(claims)
          /\ \A v \in (1..Len(claims)) \ {u} : claims'[v] = claims[v]
          /\ claims'[u] = [claims[u] EXCEPT !.used = claims[u].used + 1]
      BY <1>5, OneUsed
    <2>2. claims[u] \in Claim
      BY ClaimsAre
    <2>3. claims'[u].used = claims[u].used + 1 /\ claims[u].used \in Nat
      BY <2>1, <2>2 DEF Claim
    <2>4. CASE t = u
      <3>1. Len(claims') = Len(claims)
        BY <2>1
      <3>2. claims'[t].used # 0
        BY <2>3, <2>4
      <3> QED
        BY <3>1, <3>2
    <2>5. CASE t # u
      BY <2>1, <2>5
    <2> QED
      BY <2>4, <2>5
  <1>6. ASSUME NEW i \in Issues, NEW u \in Tokens, NEW d \in Decisions, ResolveIssue(i, u, d)
        PROVE  t \in 1..Len(claims') /\ (claims[t].used # 0 => claims'[t].used # 0)
    BY <1>5, <1>6, ClaimsAre DEF ResolveIssue, Presented
  <1>7. ASSUME NEW i \in Issues, NEW u \in Tokens, NEW r \in {"completed", "retry"},
               FinishRepair(i, u, r)
        PROVE  t \in 1..Len(claims') /\ (claims[t].used # 0 => claims'[t].used # 0)
    BY <1>5, <1>7, ClaimsAre DEF FinishRepair, HoldsRepair, Presented
  <1>8. \/ Importer \/ \E v \in Values : AdminPublish(v)
        \/ UNCHANGED agentVars
        \/ \E i \in Issues : \/ ResumeIssue(i) \/ Clock(i)
                             \/ \E u \in Tokens : ReleaseIssue(i, u) \/ ConfigureRepair(i, u)
        => UNCHANGED claims
    BY DEF Importer, SourceClaim, SourceSucceeds, SourceFails, SourceLapse, SourceDue, Persist,
           SourcePublish, AdminPublish, agentVars, ReleaseIssue, ResumeIssue, ConfigureRepair,
           Clock, LapseIssue, DueIssue, LapseRepair, DueRepair
  <1> QED
    BY <1>2, <1>4, <1>6, <1>7, <1>8 DEF AgentNext, IssueStep, RepairStep

\* The decisions about an issue are counted.
LEMMA AttemptsGrow ==
    ASSUME AgentAssumption, IInv, [AgentNext]_agentVars, NEW i \in Issues,
           state'[i].attempts = 0
    PROVE  state[i].attempts = 0
  <1>1. state \in [Issues -> Case] /\ state[i] \in Case
    BY DEF IInv, AgentTypeOK
  <1>2. ASSUME ClaimIssue(i) \/ ResumeIssue(i) \/ LapseIssue(i) \/ DueIssue(i)
               \/ \E t \in Tokens : ReleaseIssue(i, t)
        PROVE  state'[i].attempts = state[i].attempts
    BY <1>1, <1>2 DEF ClaimIssue, ResumeIssue, LapseIssue, DueIssue, ReleaseIssue, Case
  <1>3. ASSUME NEW t \in Tokens, NEW d \in Decisions, ResolveIssue(i, t, d) PROVE FALSE
    <2>1. state'[i].attempts = state[i].attempts + 1 /\ state[i].attempts \in Nat
      BY <1>1, <1>3 DEF ResolveIssue, Decided, Case
    <2> QED
      BY <2>1
  <1> HIDE DEF AgentAssumption
  <1> QED
    BY <1>2, <1>3, CaseStep

\* A repair that is there remains, and only a capability has it retried.
LEMMA RetriesByCapability ==
    ASSUME AgentAssumption, IInv, [AgentNext]_agentVars, NEW i \in Issues
    PROVE  /\ repair[i].status # "none" => repair'[i].status # "none"
           /\ \/ repair'[i].retry = repair[i].retry
              \/ repair'[i].status = "completed"
              \/ \E t \in Tokens : FinishRepair(i, t, "retry") /\ repair'[i].retry = t
  <1>1. repair \in [Issues -> Repair] /\ repair[i] \in Repair
    BY DEF IInv, AgentTypeOK
  <1>2. ASSUME ClaimRepair(i) \/ LapseRepair(i) \/ DueRepair(i)
        PROVE  repair'[i].status = repair[i].status /\ repair'[i].retry = repair[i].retry
    BY <1>1, <1>2 DEF ClaimRepair, LapseRepair, DueRepair, Repair
  <1>3. ASSUME EnqueueParserRepair(i)
        PROVE  repair'[i].status # "none" /\ repair'[i].retry = repair[i].retry
    BY <1>1, <1>3 DEF EnqueueParserRepair, Repair
  <1>4. ASSUME NEW t \in Tokens, NEW r \in {"completed", "retry"}, FinishRepair(i, t, r)
        PROVE  repair'[i].status = r /\ (r = "retry" => repair'[i].retry = t)
    BY <1>1, <1>4 DEF FinishRepair
  <1> HIDE DEF AgentAssumption
  <1> QED
    BY <1>2, <1>3, <1>4, RepairStepOf

\* Only the importer claims checks and persists attempts.  The issue of the latest attempt
\* stays what it is once the importer's lease is released, until it is disposed of.
SourceMoved ==
    /\ AttemptFits'
    /\ checks' \in {checks, checks + 1}
    /\ source'.check \in {"claimed", "late"} /\ checks' = checks
       => source.check \in {"claimed", "late"}
    /\ source'.attempt = checks' /\ source'.attempt # 0
       => /\ checks' = checks
          /\ \/ source.check \in {"claimed", "late"}
             \/ /\ source.attempt = checks
                /\ source.check = "none" =>
                      /\ source'.check = "none" /\ source'.success = source.success
                      /\ source'.issue \in {source.issue, None}

LEMMA SourceMoves ==
    ASSUME AgentAssumption, IInv, AttemptFits, [AgentNext]_agentVars
    PROVE  SourceMoved
  <1>1. source \in Source /\ source.attempt \in Nat /\ checks \in Nat
    BY DEF IInv, AgentTypeOK, Source
  <1>2. CASE UNCHANGED <<source, checks>>
    BY <1>1, <1>2 DEF SourceMoved, AttemptFits
  <1>3. CASE SourceClaim
    BY <1>1, <1>3 DEF SourceClaim, SourceMoved, AttemptFits, Source
  <1>4. ASSUME NEW i, NEW c, c \in {"none", "failed", "read"}, checks' = checks,
               source.check \in {"claimed", "late"},
               source' = [source EXCEPT !.issue = i, !.attempt = checks, !.check = c]
        PROVE  SourceMoved
    BY <1>1, <1>4 DEF SourceMoved, AttemptFits, Source
  <1>5. ASSUME NEW i \in Issues \cup {None}, Persist(i) PROVE SourceMoved
    <2>1. PICK c \in {"none", "failed", "read"} :
             source' = [source EXCEPT !.issue = i, !.attempt = checks, !.check = c]
      BY <1>5 DEF Persist
    <2> QED
      BY <1>4, <1>5, <2>1 DEF Persist
  <1>6. ASSUME NEW v \in Values, SourcePublish(v) PROVE SourceMoved
    BY <1>1, <1>6 DEF SourcePublish, SourceMoved, AttemptFits, Source
  <1>7. CASE SourceSucceeds
    <2>1. PICK i : source' = [source EXCEPT !.issue = i, !.check = "none",
                                 !.failing = FALSE, !.success = checks, !.wait = TRUE]
      BY <1>7 DEF SourceSucceeds
    <2>2. source.check \in {"read", "published"} /\ checks' = checks
      BY <1>7 DEF SourceSucceeds
    <2> QED
      BY <1>1, <2>1, <2>2 DEF SourceMoved, AttemptFits, Source
  <1>8. CASE SourceFails
    BY <1>1, <1>8 DEF SourceFails, Leased, SourceMoved, AttemptFits, Source
  <1>9. CASE SourceLapse
    BY <1>1, <1>9 DEF SourceLapse, Leased, SourceMoved, AttemptFits, Source
  <1>10. CASE SourceDue
    BY <1>1, <1>10 DEF SourceDue, SourceMoved, AttemptFits, Source
  <1>11. ASSUME NEW c \in Configs, NEW wait, Rebind(c, wait), checks' = checks
         PROVE  SourceMoved
    <2>1. source'.attempt = 0 /\ source'.check = source.check
      BY <1>1, <1>11 DEF Rebind, Source
    <2> QED
      BY <1>1, <1>11, <2>1 DEF SourceMoved, AttemptFits
  <1>12. ASSUME NEW i \in Issues, NEW t \in Tokens, NEW d \in Decisions, ResolveIssue(i, t, d)
         PROVE  SourceMoved
    <2>1. CASE \E c \in Configs : Rebind(c, FALSE)
      BY <1>11, <1>12, <2>1 DEF ResolveIssue
    <2>2. CASE source' = [source EXCEPT
                  !.issue = IF Kind[i] = "review" /\ d.action \in {"apply", "dismiss"}
                            THEN None ELSE @]
      <3>1. /\ source'.attempt = source.attempt /\ source'.check = source.check
            /\ source'.success = source.success /\ source'.issue \in {source.issue, None}
        BY <1>1, <2>2 DEF Source
      <3> QED
        BY <1>1, <1>12, <3>1 DEF ResolveIssue, SourceMoved, AttemptFits
    <2> QED
      BY <1>12, <2>1, <2>2 DEF ResolveIssue, BindOrDispose
  <1>13. ASSUME NEW i \in Issues, NEW t \in Tokens, ConfigureRepair(i, t) PROVE SourceMoved
    BY <1>11, <1>13 DEF ConfigureRepair
  <1> HIDE DEF AgentAssumption, SourceMoved
  <1> QED
    BY <1>2, <1>3, <1>5, <1>6, <1>7, <1>8, <1>9, <1>10, <1>12, <1>13
    DEF AgentNext, Importer, AdminPublish, IssueStep, RepairStep, Clock, ClaimIssue, ResumeIssue,
        ReleaseIssue, ClaimRepair, FinishRepair, LapseIssue, DueIssue, LapseRepair, DueRepair,
        agentVars

\* What a step queues is new, and fits.
LEMMA QueueMoves ==
    ASSUME EventAssumption, IInv, IInv', EInv, AgentStep
    PROVE  /\ queue' \in [Identities -> Entry \cup {None}]
           /\ \A q \in Identities :
                 \/ queue'[q] = queue[q]
                 \/ queue'[q] = [status |-> "pending", owner |-> None] /\ QueueFits(q)'
                    /\ queue[q] = None
  <1> DEFINE fresh == [status |-> "pending", owner |-> None]
             Moved == /\ queue' \in [Identities -> Entry \cup {None}]
                      /\ \A q \in Identities :
                           \/ queue'[q] = queue[q]
                           \/ queue'[q] = fresh /\ QueueFits(q)' /\ queue[q] = None
  <1>1. queue \in [Identities -> Entry \cup {None}]
    BY DEF EInv, EventTypeOK
  <1>2. AgentAssumption /\ fresh \in Entry
    BY DEF EventAssumption, Entry
  <1> HIDE DEF fresh
  <1>3. ASSUME NEW q, QueueImportEvent(q), QueueFits(q)' PROVE Moved
    BY <1>1, <1>2, <1>3 DEF QueueImportEvent, fresh
  <1>4. CASE UNCHANGED queue
    BY <1>1, <1>4
  <1>5. /\ source \in Source /\ checks \in Nat /\ Len(claims) \in Nat /\ Len(claims') \in Nat
        /\ repair \in [Issues -> Repair]
    BY <1>2, ClaimsAre DEF IInv, AgentTypeOK, Source
  <1>6. ASSUME NEW i \in Issues \cup {None}, PersistAndQueue(i) PROVE Moved
    <2>1. source'.check \notin {"claimed", "late"} /\ checks' = checks
      <3>1. PICK c \in {"none", "failed", "read"} :
               source' = [source EXCEPT !.issue = i, !.attempt = checks, !.check = c]
        BY <1>6 DEF PersistAndQueue, Persist
      <3> QED
        BY <1>5, <1>6, <3>1 DEF PersistAndQueue, Persist, Source
    <2>2. PICK q : q = <<"source", checks>>
      OBVIOUS
    <2>3. QueueFits(q)'
      BY <1>5, <2>1, <2>2 DEF QueueFits
    <2> QED
      BY <1>3, <1>6, <2>2, <2>3 DEF PersistAndQueue
  <1>7. ASSUME NEW i \in Issues, NEW t \in Tokens, NEW d \in Decisions, ResolveAndQueue(i, t, d)
        PROVE  Moved
    <2>1. CASE Corrects(i, d)
      <3>1. EnqueueParserRepair(i)
        BY <1>7, <2>1 DEF ResolveAndQueue, ResolveIssue
      <3>2. repair'[i].status # "none"
        BY <1>5, <3>1 DEF EnqueueParserRepair, Repair
      <3>3. QueueFits(<<"repair", i, 0>>)'
        BY <3>2 DEF QueueFits
      <3> QED
        BY <1>3, <1>7, <2>1, <3>3 DEF ResolveAndQueue
    <2> QED
      BY <1>4, <1>7, <2>1 DEF ResolveAndQueue
  <1>8. ASSUME NEW i \in Issues, NEW t \in Tokens, NEW r \in {"completed", "retry"},
               FinishAndQueue(i, t, r)
        PROVE  Moved
    <2>1. repair'[i].status = r
      BY <1>5, <1>8 DEF FinishAndQueue, FinishRepair
    <2>2. t \in 1..Len(claims)
      BY <1>2, <1>8, ClaimsAre DEF FinishAndQueue, FinishRepair, HoldsRepair, Presented
    <2>3. claims' = [claims EXCEPT ![t].used = @ + 1]
      BY <1>8 DEF FinishAndQueue, FinishRepair
    <2>4. Len(claims') = Len(claims) /\ claims'[t].used # 0
      <3>1. claims[t] \in Claim
        BY <1>2, <2>2, ClaimsAre
      <3>2. Len(claims') = Len(claims) /\ claims'[t] = [claims[t] EXCEPT !.used = claims[t].used + 1]
        BY <1>2, <2>2, <2>3, OneUsed
      <3>3. claims'[t].used = claims[t].used + 1 /\ claims[t].used \in Nat
        BY <3>1, <3>2 DEF Claim
      <3> QED
        BY <3>2, <3>3
    <2>5. r = "retry" => QueueFits(<<"repair", i, t>>)'
      BY <2>1, <2>2, <2>4 DEF QueueFits
    <2> QED
      BY <1>3, <1>4, <1>8, <2>5 DEF FinishAndQueue
  <1> QED
    BY <1>4, <1>6, <1>7, <1>8 DEF AgentStep, fresh

\* A queued event goes on standing for the call that it stood for, or for none.
LEMMA StandingMoves ==
    ASSUME EventAssumption, IInv, IInv', EInv, AgentStep,
           NEW q \in Identities, queue[q] # None
    PROVE  /\ QueueFits(q)'
           /\ Firm(q) => /\ Firm(q)'
                         /\ Stands(q)' => Stands(q) /\ EventOf(q)' = EventOf(q)
  <1>1. /\ AgentAssumption /\ [AgentNext]_agentVars /\ QueueFits(q)
        /\ SourceMoved /\ AttemptFits /\ checks \in Nat /\ Len(claims) \in Nat
    <2>1. AgentAssumption /\ [AgentNext]_agentVars /\ QueueFits(q) /\ AttemptFits
      BY AgentStepIs DEF EventAssumption, EInv
    <2>2. checks \in Nat /\ Len(claims) \in Nat
      BY <2>1, ClaimsAre DEF IInv, AgentTypeOK
    <2> HIDE DEF AgentAssumption
    <2> QED
      BY <2>1, <2>2, SourceMoves
  <1> HIDE DEF AgentAssumption
  <1>2. CASE q[1] = "repair"
    <2>1. q[2] \in Issues /\ q[3] \in 0..MaxClaims
      BY <1>2, IdentityIs
    <2> DEFINE i == q[2]
    <2>2. /\ repair[i].status # "none"
          /\ q[3] # 0 => q[3] \in 1..Len(claims) /\ claims[q[3]].used # 0
      BY <1>1, <1>2 DEF QueueFits
    <2>3. QueueFits(q)'
      BY <1>1, <1>2, <2>1, <2>2, RetriesByCapability, CapabilitiesKept DEF QueueFits
    <2>4. ASSUME Stands(q)' PROVE Stands(q)
      <3>1. repair'[i].retry = q[3] /\ repair'[i].status # "completed"
        BY <1>2, <2>4 DEF Stands
      <3>2. repair[i].status # "completed"
        BY <1>1, <2>1, <3>1, CompletedStays
      <3>3. ASSUME NEW t \in Tokens, FinishRepair(i, t, "retry"), repair'[i].retry = t
            PROVE  FALSE
        <4>1. repair[i].token = t
          BY <3>3 DEF FinishRepair, HoldsRepair
        <4>2. t # 0 /\ t # None
          BY <1>1 DEF Tokens, AgentAssumption
        <4>3. claims[t].used = 0
          BY <2>1, <4>1, <4>2 DEF IInv, RepairFits
        <4> QED
          BY <2>2, <3>1, <3>3, <4>2, <4>3
      <3>4. repair'[i].retry = repair[i].retry
        BY <1>1, <2>1, <3>1, <3>3, RetriesByCapability
      <3> QED
        BY <1>2, <3>1, <3>2, <3>4 DEF Stands
    <2> QED
      BY <1>2, <2>3, <2>4 DEF Firm, EventOf
  <1>3. CASE q[1] = "source"
    <2>1. /\ q[2] # 0 /\ q[1] # "repair" /\ q[2] \in Nat
          /\ q[2] <= checks /\ (source.check \in {"claimed", "late"} => q[2] < checks)
      BY <1>1, <1>3, IdentityIs DEF QueueFits
    <2>2. QueueFits(q)'
      BY <1>1, <1>3, <2>1 DEF QueueFits, SourceMoved
    <2>3. ASSUME Firm(q), q[2] = source'.attempt, source'.attempt = checks'
          PROVE  /\ checks' = checks /\ source.attempt = checks /\ source.check = "none"
                 /\ source'.check = "none" /\ source'.success = source.success
                 /\ source'.issue \in {source.issue, None}
      BY <1>1, <1>3, <2>1, <2>3 DEF SourceMoved, Firm
    <2>4. Firm(q) => Firm(q)'
      BY <1>3, <2>3 DEF Firm
    <2>5. ASSUME Firm(q), Stands(q)' PROVE Stands(q) /\ EventOf(q)' = EventOf(q)
      <3>1. /\ q[2] = source'.attempt /\ source'.attempt = checks' /\ source'.issue # None
            /\ state'[source'.issue].attempts = 0
        BY <2>1, <2>5 DEF Stands
      <3>2. /\ source.attempt = checks /\ checks' = checks /\ source'.issue = source.issue
            /\ source'.success = source.success
        BY <2>3, <2>5, <3>1
      <3>3. source.issue \in Issues
        BY <3>1, <3>2 DEF IInv, AgentTypeOK, Source
      <3>4. state[source.issue].attempts = 0
        BY <1>1, <3>1, <3>2, <3>3, AttemptsGrow
      <3> QED
        BY <2>1, <3>1, <3>2, <3>4 DEF Stands, EventOf
    <2> QED
      BY <2>2, <2>4, <2>5
  <1> QED
    BY <1>2, <1>3, IdentityIs

LEMMA AgentStepKeeps ==
    ASSUME EventAssumption, IInv, IInv', EInv, AgentStep
    PROVE  EInv'
  <1>1. UNCHANGED dispatchVars
    BY DEF AgentStep
  <1>2. AttemptFits'
    BY AgentStepIs, SourceMoves DEF EventAssumption, EInv, SourceMoved
  <1>3. EventTypeOK'
    BY <1>1, QueueMoves DEF dispatchVars, EInv, EventTypeOK, IInv
  <1>4. ASSUME NEW q \in Identities, queue[q] # None
        PROVE  /\ queue'[q] = queue[q] /\ QueueFits(q)'
               /\ Served(q) => Served(q)'
               /\ \A e : Carries(q, e) => Carries(q, e)'
    <2>1. queue'[q] = queue[q]
      BY <1>4, QueueMoves
    <2>2. /\ QueueFits(q)'
          /\ Firm(q) => /\ Firm(q)'
                        /\ Stands(q)' => Stands(q) /\ EventOf(q)' = EventOf(q)
      BY <1>4, StandingMoves
    <2>3. Served(q) => Served(q)'
      BY <1>1, <2>2 DEF Served, dispatchVars
    <2>4. \A e : Carries(q, e) => Carries(q, e)'
      BY <2>2 DEF Carries
    <2> QED
      BY <2>1, <2>2, <2>3, <2>4
  <1>5. ASSUME NEW q \in Identities
        PROVE  /\ queue'[q] # None => QueueFits(q)'
               /\ Done(q)' => queue'[q].owner = None /\ Served(q)'
    <2>1. CASE queue[q] = None
      <3>1. \/ queue'[q] = None
            \/ queue'[q] = [status |-> "pending", owner |-> None] /\ QueueFits(q)'
        BY <2>1, QueueMoves
      <3> QED
        BY <3>1 DEF Done
    <2>2. CASE queue[q] # None
      BY <1>4, <2>2 DEF Done, EInv
    <2> QED
      BY <2>1, <2>2
  <1>6. ASSUME NEW d \in Drains PROVE CallFits(call[d])'
    <2>1. call' = call /\ filed' = filed /\ CallFits(call[d])
      BY <1>1 DEF dispatchVars, EInv
    <2>2. call[d].pc # "idle" => call[d].of \in Identities /\ queue[call[d].of] # None
      BY <2>1 DEF CallFits
    <2> QED
      BY <1>4, <2>1, <2>2 DEF CallFits
  <1>7. ReceiverFits' /\ \A e \in EventIds : EventFits(e)'
    BY <1>1 DEF dispatchVars, EInv, ReceiverFits, EventFits
  <1> QED
    BY <1>2, <1>3, <1>5, <1>6, <1>7 DEF EInv

-----------------------------------------------------------------------------
(* The steps of drains and receivers change nothing of the work.             *)

LEMMA WorkStays ==
    ASSUME UNCHANGED agentVars, moot \subseteq moot', filed \subseteq filed', NEW q
    PROVE  /\ QueueFits(q)' = QueueFits(q)
           /\ Served(q) => Served(q)'
           /\ \A e : Carries(q, e) => Carries(q, e)'
  <1>1. /\ source' = source /\ checks' = checks /\ state' = state /\ repair' = repair
        /\ claims' = claims
    BY DEF agentVars
  <1>2. Firm(q)' = Firm(q) /\ Stands(q)' = Stands(q) /\ EventOf(q)' = EventOf(q)
    BY <1>1 DEF Firm, Stands, EventOf
  <1>3. QueueFits(q)' = QueueFits(q)
    BY <1>1 DEF QueueFits
  <1> QED
    BY <1>2, <1>3 DEF Served, Carries

LEMMA EventTypes ==
    ASSUME EInv
    PROVE  /\ queue \in [Identities -> Entry \cup {None}] /\ call \in [Drains -> Call]
           /\ receiver \in Receiver /\ receiver.from \in Drains \cup {None}
           /\ faults \in 0..MaxFaults
           /\ receipts \subseteq EventIds /\ filed \subseteq EventIds
           /\ obsolete \subseteq EventIds /\ moot \subseteq Identities
           /\ admitted \in [EventIds -> Nat] /\ doubts \in [EventIds -> Nat]
           /\ \A d \in Drains : call[d] \in Call /\ CallFits(call[d])
  BY DEF EInv, EventTypeOK, Receiver

\* What a step of the delivery has to see to.
LEMMA DeliveryKeeps ==
    ASSUME EInv, EventTypeOK', UNCHANGED agentVars,
           moot \subseteq moot', filed \subseteq filed',
           \A q \in Identities :
              \/ queue'[q] = queue[q]
              \/ queue[q] # None /\ queue'[q] # None
                 /\ (Done(q)' => queue'[q].owner = None /\ Served(q)'),
           \A d \in Drains : call'[d] = call[d] \/ CallFits(call[d])',
           ReceiverFits', \A e \in EventIds : EventFits(e)'
    PROVE  EInv'
  <1>1. AttemptFits'
    BY DEF EInv, AttemptFits, agentVars
  <1>2. ASSUME NEW q \in Identities
        PROVE  /\ queue'[q] # None => QueueFits(q)'
               /\ Done(q)' => queue'[q].owner = None /\ Served(q)'
    <2>1. /\ queue[q] # None => QueueFits(q)
          /\ Done(q) => queue[q].owner = None /\ Served(q)
      BY DEF EInv
    <2>2. QueueFits(q)' = QueueFits(q) /\ (Served(q) => Served(q)')
      BY WorkStays
    <2> QED
      BY <2>1, <2>2 DEF Done
  <1>3. ASSUME NEW d \in Drains, call'[d] = call[d] PROVE CallFits(call[d])'
    <2>1. CallFits(call[d])
      BY DEF EInv
    <2>2. call[d].pc # "idle" => queue'[call[d].of] # None
      BY <2>1 DEF CallFits
    <2>3. /\ Served(call[d].of) => Served(call[d].of)'
          /\ Carries(call[d].of, call[d].id) => Carries(call[d].of, call[d].id)'
      <3>1. PICK q, e : q = call[d].of /\ e = call[d].id
        OBVIOUS
      <3>2. (Served(q) => Served(q)') /\ (Carries(q, e) => Carries(q, e)')
        BY WorkStays
      <3>3. (call[d].of)' = q /\ (call[d].id)' = e
        BY <1>3, <3>1
      <3> QED
        BY <3>1, <3>2, <3>3 DEF Served, Carries, Firm, Stands, EventOf
    <2> QED
      BY <1>3, <2>1, <2>2, <2>3 DEF CallFits
  <1> QED
    BY <1>1, <1>2, <1>3 DEF EInv

\* The steps of one drain.
LEMMA SettlingIs ==
    ASSUME EInv, NEW d \in Drains, NEW b \in BOOLEAN, Settling(d, b)
    PROVE  /\ call' \in [Drains -> Call]
           /\ \A x \in Drains \ {d} : call'[x] = call[x]
           /\ call'[d].pc = "settle" /\ call'[d].done = b /\ call'[d].of = call[d].of
  <1>1. call \in [Drains -> Call] /\ call[d] \in Call
    BY EventTypes
  <1>2. call' = [call EXCEPT ![d] = [call[d] EXCEPT !.pc = "settle", !.done = b]]
    BY <1>1 DEF Settling
  <1>3. [call[d] EXCEPT !.pc = "settle", !.done = b] \in Call
    BY <1>1 DEF Call, Pcs
  <1> QED
    BY <1>1, <1>2, <1>3 DEF Call

LEMMA GoesOnIs ==
    ASSUME EInv, NEW d \in Drains, NEW pc \in Pcs, NEW e \in EventIds, GoesOn(d, pc, e)
    PROVE  /\ call' \in [Drains -> Call]
           /\ \A x \in Drains \ {d} : call'[x] = call[x]
           /\ call'[d].pc = pc /\ call'[d].id = e /\ call'[d].of = call[d].of
  <1>1. call \in [Drains -> Call] /\ call[d] \in Call
    BY EventTypes
  <1>2. call' = [call EXCEPT ![d] = [call[d] EXCEPT !.pc = pc, !.id = e]]
    BY <1>1 DEF GoesOn
  <1>3. [call[d] EXCEPT !.pc = pc, !.id = e] \in Call
    BY <1>1 DEF Call
  <1> QED
    BY <1>1, <1>2, <1>3 DEF Call

\* The receiver answers the drain that waits for it.
LEMMA NotAwaited ==
    ASSUME EventAssumption, EInv, NEW d \in Drains, call[d].pc # "await"
    PROVE  receiver.from # d
  BY DEF EInv, ReceiverFits, EventAssumption

LEMMA ReceiverStays ==
    ASSUME EInv, NEW d, receiver.from # d, UNCHANGED <<receiver, filed, admitted, obsolete>>,
           \A x \in Drains \ {d} : call'[x] = call[x]
    PROVE  ReceiverFits'
  BY EventTypes DEF EInv, ReceiverFits

LEMMA EventsStay ==
    ASSUME EInv, UNCHANGED <<filed, admitted, doubts, obsolete>>, receipts' = receipts,
           receiver'.id = receiver.id, receiver'.pc = receiver.pc
    PROVE  \A e \in EventIds : EventFits(e)'
  BY DEF EInv, EventFits

LEMMA Disconnects ==
    ASSUME EventAssumption, EInv, NEW d \in Drains, receiver' = Disconnected(d),
           UNCHANGED <<filed, admitted, obsolete>>,
           \A x \in Drains \ {d} : call'[x] = call[x]
    PROVE  /\ ReceiverFits' /\ receiver' \in Receiver
           /\ receiver'.id = receiver.id /\ receiver'.pc = receiver.pc
  <1>1. receiver \in Receiver
    BY EventTypes
  <1>2. /\ receiver'.id = receiver.id /\ receiver'.pc = receiver.pc /\ receiver' \in Receiver
        /\ receiver'.from = IF receiver.from = d THEN None ELSE receiver.from
    BY <1>1 DEF Disconnected, Receiver
  <1>3. ReceiverFits
    BY DEF EInv
  <1> QED
    BY <1>2, <1>3, EventTypes DEF ReceiverFits

LEMMA AnswersIs ==
    ASSUME EventAssumption, EInv, NEW accepted \in BOOLEAN, Answers(accepted),
           UNCHANGED <<agentVars, queue, moot>>, filed \subseteq filed',
           accepted => receiver.id \in filed'
    PROVE  /\ call' \in [Drains -> Call]
           /\ \A d \in Drains : call'[d] = call[d] \/ CallFits(call[d])'
           /\ receiver' \in Receiver /\ ReceiverFits' /\ receiver'.pc = "idle"
  <1>1. receiver' \in Receiver /\ receiver'.pc = "idle" /\ receiver'.from = None
    BY DEF Answers, NoReceiver, Receiver
  <1>2. ReceiverFits'
    BY <1>1 DEF ReceiverFits
  <1>3. \A d \in Drains : d # receiver.from => call'[d] = call[d] /\ call'[d] \in Call
    BY EventTypes DEF Answers
  <1>4. ASSUME NEW d \in Drains, d = receiver.from PROVE call'[d] \in Call /\ CallFits(call[d])'
    <2>1. call[d] \in Call /\ CallFits(call[d]) /\ call[d].pc = "await" /\ call[d].id = receiver.id
      BY <1>4, EventTypes DEF EInv, ReceiverFits, EventAssumption
    <2>2. PICK q, e : q = call[d].of /\ e = call[d].id
      OBVIOUS
    <2>3. /\ q \in Identities /\ queue[q] # None /\ e \in EventIds /\ Carries(q, e)
      BY <2>1, <2>2 DEF CallFits
    <2>4. Carries(q, e)'
      BY <2>3, WorkStays
    <2>5. CASE accepted
      <3>1. call'[d] = [call[d] EXCEPT !.pc = "record"]
        BY <1>4, <2>5 DEF Answers
      <3>2. call'[d] \in Call /\ call'[d].pc = "record" /\ call'[d].of = q /\ call'[d].id = e
        BY <2>1, <2>2, <3>1 DEF Call, Pcs
      <3> QED
        BY <2>1, <2>2, <2>3, <2>4, <2>5, <3>2
        DEF CallFits, Carries, Firm, Stands, EventOf
    <2>6. CASE ~accepted
      <3>1. call'[d] = [call[d] EXCEPT !.pc = "settle", !.done = FALSE]
        BY <1>4, <2>6 DEF Answers
      <3>2. /\ call'[d] \in Call /\ call'[d].pc = "settle" /\ call'[d].of = q
            /\ call'[d].done = FALSE
        BY <2>1, <2>2, <3>1 DEF Call, Pcs
      <3> QED
        BY <2>3, <3>2 DEF CallFits
    <2> QED
      BY <2>5, <2>6
  <1>5. call' \in [Drains -> Call]
    <2>1. DOMAIN call' = Drains /\ call' = [d \in Drains |-> call'[d]]
      BY DEF Answers
    <2> QED
      BY <1>3, <1>4, <2>1
  <1> QED
    BY <1>1, <1>2, <1>3, <1>4, <1>5

-----------------------------------------------------------------------------
(* What prepareImportEvent makes of a queued event.                          *)

LEMMA PreparedFits ==
    ASSUME AgentAssumption, IInv, EInv, NEW q \in Identities, queue[q] # None
    PROVE  /\ Prepared(q).verdict = "ready" =>
                 Prepared(q).id \in EventIds /\ Carries(q, Prepared(q).id)
           /\ Prepared(q).verdict = "dropped" =>
                 (q[1] = "source" /\ NothingToAsk(q)) \/ Served(q)
           /\ Prepared(q).verdict \in {"ready", "dropped", "deferred"}
  <1>1. CASE q[1] = "repair"
    <2> DEFINE i == q[2]
    <2>1. /\ i \in Issues /\ repair[i] \in Repair /\ repair[i].status # "none"
          /\ repair[i].retry \in 0..MaxClaims
      BY <1>1, IdentityIs DEF IInv, AgentTypeOK, EInv, QueueFits, Repair
    <2>2. Prepared(q) = PreparedRepair(i)
      BY <1>1 DEF Prepared
    <2>3. CASE repair[i].status = "completed"
      <3>1. Prepared(q) = Dropped
        BY <2>2, <2>3 DEF PreparedRepair
      <3>2. Served(q)
        BY <1>1, <2>3 DEF Served, Firm, Stands
      <3> QED
        BY <3>1, <3>2 DEF Dropped
    <2>4. CASE repair[i].status \in {"pending", "retry"} /\ (repair[i].live \/ repair[i].wait)
      <3>1. Prepared(q) = Deferred
        BY <2>2, <2>4 DEF PreparedRepair
      <3> QED
        BY <3>1 DEF Deferred
    <2>5. CASE repair[i].status \in {"pending", "retry"} /\ ~repair[i].live /\ ~repair[i].wait
      <3>1. Prepared(q) = Ready(<<"repair", i, repair[i].retry>>)
        BY <2>2, <2>5 DEF PreparedRepair
      <3>2. <<"repair", i, repair[i].retry>> \in EventIds
        BY <2>1 DEF EventIds
      <3>3. Carries(q, <<"repair", i, repair[i].retry>>)
        <4>1. q = <<"repair", q[2], q[3]>>
          BY <1>1, IdentityIs
        <4> QED
          BY <1>1, <4>1 DEF Carries, Firm, Stands, EventOf
      <3> QED
        BY <3>1, <3>2, <3>3 DEF Ready
    <2> QED
      BY <2>1, <2>3, <2>4, <2>5 DEF Repair
  <1>2. CASE q[1] = "source"
    <2> DEFINE i == source.issue
               a == q[2]
               episode == IF Kind[i] = "failure" THEN source.success ELSE 0
               backoff == Kind[i] = "failure" /\ state[i].attempts > 0 /\ source.wait
               nothing == i = None \/ source.attempt = 0 \/ source.attempt # a
    <2>1. a # 0 /\ q[1] # "repair"
      BY <1>2, IdentityIs
    <2>2. Prepared(q) =
             IF nothing THEN Dropped
             ELSE IF Leased THEN Deferred
             ELSE IF state[i].status \in {"needs_user", "resolved"} THEN Dropped
             ELSE IF state[i].live \/ state[i].wait \/ backoff THEN Deferred
             ELSE Ready(<<"source", i, episode, state[i].retry>>)
      BY <2>1 DEF Prepared, PreparedSource
    <2>3. CASE nothing \/ (~nothing /\ state[i].status \in {"needs_user", "resolved"})
      <3>1. NothingToAsk(q)
        BY <2>1, <2>3 DEF NothingToAsk
      <3>2. Prepared(q) \in {Dropped, Deferred}
        BY <2>2, <2>3
      <3> QED
        BY <1>2, <3>1, <3>2 DEF Dropped, Deferred
    <2>4. CASE ~nothing /\ state[i].status \notin {"needs_user", "resolved"}
                /\ (Leased \/ state[i].live \/ state[i].wait \/ backoff)
      <3>1. Prepared(q) = Deferred
        BY <2>2, <2>4
      <3> QED
        BY <3>1 DEF Deferred
    <2>5. CASE ~nothing /\ state[i].status \notin {"needs_user", "resolved"}
                /\ ~(Leased \/ state[i].live \/ state[i].wait \/ backoff)
      <3> DEFINE e == <<"source", i, episode, state[i].retry>>
      <3>1. Prepared(q) = Ready(e)
        BY <2>2, <2>5
      <3>2. /\ i \in Issues /\ source.success \in 0..MaxChecks /\ state[i] \in Case
            /\ CaseFits(i, state[i]) /\ source \in Source
        BY <2>5 DEF IInv, AgentTypeOK, Source
      <3>3. e \in EventIds
        <4>1. episode \in 0..MaxChecks /\ state[i].retry \in 0..(2 * MaxClaims + 1)
          BY <3>2 DEF Case
        <4> HIDE DEF episode
        <4> QED
          BY <3>2, <4>1 DEF EventIds
      <3>4. Firm(q)
        <4>1. source.check \in {"none", "late"}
          BY <2>5, <3>2 DEF Leased, Source
        <4>2. source.check = "late" => source.attempt # checks
          BY <3>2 DEF EInv, AttemptFits, IInv, AgentTypeOK, Source
        <4> QED
          BY <4>1, <4>2 DEF Firm
      <3>5. Stands(q) => e = EventOf(q)
        BY <2>1, <3>2 DEF Stands, EventOf, CaseFits
      <3> HIDE DEF e
      <3> QED
        BY <3>1, <3>3, <3>4, <3>5 DEF Ready, Carries
    <2> QED
      BY <2>3, <2>4, <2>5
  <1> QED
    BY <1>1, <1>2, IdentityIs

-----------------------------------------------------------------------------
(* Drains.                                                                   *)

LEMMA DrainClaimKeeps ==
    ASSUME EventAssumption, EInv, NEW d \in Drains, NEW q \in Identities, DrainClaim(d, q)
    PROVE  EInv'
  <1> DEFINE c == [Idle EXCEPT !.pc = "prepare", !.of = q]
  <1>1. c \in Call /\ c.pc = "prepare" /\ c.of = q
    BY DEF Idle, Call, Pcs
  <1>2. call' = [call EXCEPT ![d] = c]
    BY DEF DrainClaim
  <1> HIDE DEF c
  <1>3. /\ call' \in [Drains -> Call] /\ call'[d] = c
        /\ \A x \in Drains \ {d} : call'[x] = call[x]
    BY <1>1, <1>2, EventTypes
  <1>4. /\ queue[q] # None /\ queue[q].status = "pending" /\ queue[q] \in Entry
    BY EventTypes DEF DrainClaim, Pending
  <1>5. /\ queue' \in [Identities -> Entry \cup {None}] /\ queue'[q] # None /\ ~Done(q)'
        /\ \A p \in Identities \ {q} : queue'[p] = queue[p]
    <2>1. [queue[q] EXCEPT !.owner = d] \in Entry
          /\ [queue[q] EXCEPT !.owner = d].status = "pending"
      BY <1>4 DEF Entry
    <2>2. queue' = [queue EXCEPT ![q] = [queue[q] EXCEPT !.owner = d]]
      BY EventTypes DEF DrainClaim
    <2> QED
      BY <2>1, <2>2, EventTypes DEF EventAssumption, Done
  <1>6. EventTypeOK'
    BY <1>3, <1>5, EventTypes DEF DrainClaim, EInv, EventTypeOK, AgentTypeOK, agentVars,
          EventAssumption
  <1>7. CallFits(call[d])'
    BY <1>1, <1>3, <1>5 DEF CallFits
  <1>8. ReceiverFits' /\ \A e \in EventIds : EventFits(e)'
    BY <1>3, NotAwaited, ReceiverStays, EventsStay DEF DrainClaim
  <1> QED
    BY <1>3, <1>4, <1>5, <1>6, <1>7, <1>8, DeliveryKeeps DEF DrainClaim

LEMMA PrepareKeeps ==
    ASSUME EventAssumption, IInv, EInv, NEW d \in Drains, Prepare(d)
    PROVE  EInv'
  <1> DEFINE q == call[d].of
             p == Prepared(q)
  <1>1. call[d].pc = "prepare" /\ q \in Identities /\ queue[q] # None
    BY EventTypes DEF Prepare, CallFits
  <1>2. /\ p.verdict = "ready" => p.id \in EventIds /\ Carries(q, p.id)
        /\ p.verdict = "dropped" => (q[1] = "source" /\ NothingToAsk(q)) \/ Served(q)
        /\ p.verdict \in {"ready", "dropped", "deferred"}
    BY <1>1, PreparedFits DEF EventAssumption
  <1>3. /\ IF p.verdict = "ready" /\ p.id \notin receipts THEN GoesOn(d, "send", p.id)
           ELSE Settling(d, p.verdict # "deferred")
        /\ moot' = IF NothingToAsk(q) THEN moot \cup {q} ELSE moot
        /\ UNCHANGED <<agentVars, queue, receiver, receipts, filed, admitted, doubts,
                       obsolete, faults>>
    BY DEF Prepare
  <1>4. PICK k : k = q
    OBVIOUS
  <1> HIDE DEF p
  <1>5. CASE p.verdict = "ready" /\ p.id \notin receipts
    <2>1. PICK e : e = p.id
      OBVIOUS
    <2>2. /\ call' \in [Drains -> Call]
          /\ \A x \in Drains \ {d} : call'[x] = call[x]
          /\ call'[d].pc = "send" /\ call'[d].id = e /\ call'[d].of = k
      BY <1>2, <1>3, <1>4, <1>5, <2>1, GoesOnIs DEF Pcs
    <2>3. Carries(k, e)'
      BY <1>2, <1>3, <1>4, <1>5, <2>1, WorkStays
    <2>4. CallFits(call[d])'
      BY <1>1, <1>2, <1>3, <1>4, <1>5, <2>1, <2>2, <2>3
      DEF CallFits, Carries, Firm, Stands, EventOf
    <2>5. EventTypeOK'
      BY <1>1, <1>3, <2>2, EventTypes DEF EInv, EventTypeOK, AgentTypeOK, agentVars, EventAssumption
    <2>6. ReceiverFits' /\ \A e1 \in EventIds : EventFits(e1)'
      BY <1>1, <1>3, <2>2, NotAwaited, ReceiverStays, EventsStay
    <2> QED
      BY <1>3, <2>2, <2>4, <2>5, <2>6, DeliveryKeeps
  <1>6. CASE ~(p.verdict = "ready" /\ p.id \notin receipts)
    <2>1. /\ call' \in [Drains -> Call]
          /\ \A x \in Drains \ {d} : call'[x] = call[x]
          /\ call'[d].pc = "settle" /\ call'[d].of = k /\ call'[d].done = (p.verdict # "deferred")
      BY <1>3, <1>4, <1>6, SettlingIs
    <2>2. p.verdict # "deferred" => Served(k)'
      <3>1. CASE p.verdict = "ready"
        <4>1. p.id \in filed
          BY <1>2, <1>6, <3>1 DEF EInv, EventFits
        <4>2. Served(k)
          BY <1>2, <1>4, <3>1, <4>1 DEF Carries, Served
        <4> QED
          BY <1>3, <4>2, WorkStays
      <3>2. CASE Served(k)
        BY <1>3, <3>2, WorkStays
      <3>3. CASE q[1] = "source" /\ NothingToAsk(q)
        BY <1>3, <1>4, <3>3 DEF Served
      <3> QED
        BY <1>2, <1>4, <3>1, <3>2, <3>3
    <2>3. CallFits(call[d])'
      BY <1>1, <1>3, <1>4, <2>1, <2>2 DEF CallFits, Served, Firm, Stands, EventOf
    <2>4. EventTypeOK'
      BY <1>1, <1>3, <2>1, EventTypes DEF EInv, EventTypeOK, AgentTypeOK, agentVars, EventAssumption
    <2>5. ReceiverFits' /\ \A e1 \in EventIds : EventFits(e1)'
      BY <1>1, <1>3, <2>1, NotAwaited, ReceiverStays, EventsStay
    <2> QED
      BY <1>3, <2>1, <2>3, <2>4, <2>5, DeliveryKeeps
  <1> QED
    BY <1>5, <1>6

LEMMA SendKeeps ==
    ASSUME EventAssumption, EInv, NEW d \in Drains, Send(d)
    PROVE  EInv'
  <1>1. /\ call[d].pc = "send" /\ call[d] \in Call /\ CallFits(call[d])
        /\ UNCHANGED <<agentVars, queue, receipts, filed, admitted, doubts, moot, obsolete, faults>>
    BY EventTypes DEF Send
  <1>2. PICK q, e : q = call[d].of /\ e = call[d].id
    OBVIOUS
  <1>3. q \in Identities /\ queue[q] # None /\ e \in EventIds /\ Carries(q, e)
    BY <1>1, <1>2 DEF CallFits
  <1>4. /\ call' \in [Drains -> Call]
        /\ \A x \in Drains \ {d} : call'[x] = call[x]
        /\ call'[d].pc = "await" /\ call'[d].id = e /\ call'[d].of = q
    BY <1>2, <1>3, GoesOnIs DEF Send, Pcs
  <1>5. Carries(q, e)'
    BY <1>1, <1>3, WorkStays
  <1>6. CallFits(call[d])'
    BY <1>1, <1>3, <1>4, <1>5 DEF CallFits, Carries, Firm, Stands, EventOf
  <1>7. receiver' = [pc |-> "verify", id |-> e, from |-> d]
    BY <1>2 DEF Send
  <1>8. EventTypeOK'
    BY <1>1, <1>3, <1>4, <1>7, EventTypes
    DEF EInv, EventTypeOK, AgentTypeOK, agentVars, Receiver, EventAssumption
  <1>9. ReceiverFits'
    BY <1>3, <1>4, <1>7 DEF ReceiverFits
  <1>10. \A x \in EventIds : EventFits(x)'
    BY <1>1, <1>7 DEF Send, EInv, EventFits
  <1> QED
    BY <1>1, <1>4, <1>6, <1>8, <1>9, <1>10, DeliveryKeeps

LEMMA RecordKeeps ==
    ASSUME EventAssumption, EInv, NEW d \in Drains, Record(d)
    PROVE  EInv'
  <1>1. /\ call[d].pc = "record" /\ call[d] \in Call /\ CallFits(call[d])
        /\ UNCHANGED <<agentVars, queue, receiver, filed, admitted, doubts, moot, obsolete, faults>>
    BY EventTypes DEF Record
  <1>2. PICK q, e : q = call[d].of /\ e = call[d].id
    OBVIOUS
  <1>3. /\ q \in Identities /\ queue[q] # None /\ e \in EventIds /\ Carries(q, e) /\ e \in filed
    BY <1>1, <1>2 DEF CallFits
  <1>4. /\ call' \in [Drains -> Call]
        /\ \A x \in Drains \ {d} : call'[x] = call[x]
        /\ call'[d].pc = "settle" /\ call'[d].of = q
    BY <1>2, SettlingIs DEF Record
  <1>5. Served(q)'
    BY <1>1, <1>3, WorkStays DEF Carries, Served
  <1>6. CallFits(call[d])'
    BY <1>1, <1>3, <1>4, <1>5 DEF CallFits, Served, Firm, Stands, EventOf
  <1>7. receipts' = receipts \cup {e}
    BY <1>2 DEF Record
  <1>8. EventTypeOK'
    BY <1>1, <1>3, <1>4, <1>7, EventTypes DEF EInv, EventTypeOK, AgentTypeOK, agentVars,
          EventAssumption
  <1>9. ReceiverFits'
    BY <1>1, <1>4, NotAwaited, ReceiverStays
  <1>10. \A x \in EventIds : EventFits(x)'
    BY <1>1, <1>3, <1>7 DEF EInv, EventFits
  <1> QED
    BY <1>1, <1>4, <1>6, <1>8, <1>9, <1>10, DeliveryKeeps

LEMMA FailsKeeps ==
    ASSUME EventAssumption, EInv, NEW d \in Drains, Fails(d)
    PROVE  EInv'
  <1>1. /\ call[d].pc # "idle" /\ call[d] \in Call /\ CallFits(call[d])
        /\ receiver' = Disconnected(d) /\ faults' \in 0..MaxFaults
        /\ UNCHANGED <<agentVars, queue, receipts, filed, admitted, doubts, moot, obsolete>>
    BY EventTypes DEF Fails, EventAssumption
  <1>2. /\ call' \in [Drains -> Call]
        /\ \A x \in Drains \ {d} : call'[x] = call[x]
        /\ call'[d].pc = "settle" /\ call'[d].done = FALSE /\ call'[d].of = call[d].of
    BY SettlingIs DEF Fails
  <1>3. CallFits(call[d])'
    BY <1>1, <1>2 DEF CallFits
  <1>4. ReceiverFits' /\ receiver' \in Receiver /\ \A e \in EventIds : EventFits(e)'
    BY <1>1, <1>2, Disconnects, EventsStay
  <1>5. EventTypeOK'
    BY <1>1, <1>2, <1>4, EventTypes DEF EInv, EventTypeOK, AgentTypeOK, agentVars
  <1> QED
    BY <1>1, <1>2, <1>3, <1>4, <1>5, DeliveryKeeps

LEMMA DieKeeps ==
    ASSUME EventAssumption, EInv, NEW d \in Drains, Die(d)
    PROVE  EInv'
  <1>1. /\ receiver' = Disconnected(d) /\ faults' \in 0..MaxFaults
        /\ UNCHANGED <<agentVars, queue, receipts, filed, admitted, doubts, moot, obsolete>>
    BY EventTypes DEF Die, EventAssumption
  <1>2. /\ call' \in [Drains -> Call]
        /\ \A x \in Drains \ {d} : call'[x] = call[x]
        /\ call'[d].pc = "idle"
    <2>1. Idle \in Call /\ Idle.pc = "idle"
      BY DEF Idle, Call, Pcs
    <2> QED
      BY <2>1, EventTypes DEF Die
  <1>3. CallFits(call[d])'
    BY <1>2 DEF CallFits
  <1>4. ReceiverFits' /\ receiver' \in Receiver /\ \A e \in EventIds : EventFits(e)'
    BY <1>1, <1>2, Disconnects, EventsStay
  <1>5. EventTypeOK'
    BY <1>1, <1>2, <1>4, EventTypes DEF EInv, EventTypeOK, AgentTypeOK, agentVars
  <1> QED
    BY <1>1, <1>2, <1>3, <1>4, <1>5, DeliveryKeeps

LEMMA SettleKeeps ==
    ASSUME EventAssumption, EInv, NEW d \in Drains, Settle(d)
    PROVE  EInv'
  <1>1. /\ call[d].pc = "settle" /\ call[d] \in Call /\ CallFits(call[d])
        /\ UNCHANGED <<agentVars, receiver, receipts, filed, admitted, doubts, moot, obsolete,
                       faults>>
    BY EventTypes DEF Settle
  <1>2. /\ call' \in [Drains -> Call]
        /\ \A x \in Drains \ {d} : call'[x] = call[x]
        /\ call'[d].pc = "idle"
    <2>1. Idle \in Call /\ Idle.pc = "idle"
      BY DEF Idle, Call, Pcs
    <2> QED
      BY <2>1, EventTypes DEF Settle
  <1>3. PICK q : q = call[d].of
    OBVIOUS
  <1>4. q \in Identities /\ queue[q] # None /\ (call[d].done => Served(q))
    BY <1>1, <1>3 DEF CallFits
  <1> DEFINE r == [status |-> IF call[d].done THEN "done" ELSE "pending", owner |-> None]
  <1>5. r \in Entry /\ r # None
    BY DEF Entry, EventAssumption
  <1>6. \/ queue' = queue
        \/ queue' = [queue EXCEPT ![q] = r]
    BY <1>3 DEF Settle
  <1>7. queue' \in [Identities -> Entry \cup {None}]
    BY <1>4, <1>5, <1>6, EventTypes
  <1>8. ASSUME NEW x \in Identities
        PROVE  \/ queue'[x] = queue[x]
               \/ queue[x] # None /\ queue'[x] # None
                  /\ (Done(x)' => queue'[x].owner = None /\ Served(x)')
    <2>1. CASE x = q /\ queue' = [queue EXCEPT ![q] = r]
      <3>1. queue'[x] = r
        BY <1>4, <2>1, EventTypes
      <3>2. Served(q) => Served(q)'
        BY <1>1, WorkStays
      <3>3. Done(x)' => call[d].done
        BY <3>1 DEF Done
      <3> QED
        BY <1>4, <1>5, <2>1, <3>1, <3>2, <3>3
    <2>2. CASE x # q \/ queue' = queue
      BY <1>6, <2>2, EventTypes
    <2> QED
      BY <1>6, <2>1, <2>2
  <1>9. CallFits(call[d])'
    BY <1>2 DEF CallFits
  <1>10. ReceiverFits' /\ \A e \in EventIds : EventFits(e)'
    BY <1>1, <1>2, NotAwaited, ReceiverStays, EventsStay
  <1>11. EventTypeOK'
    BY <1>1, <1>2, <1>7, EventTypes DEF EInv, EventTypeOK, AgentTypeOK, agentVars
  <1> QED
    BY <1>1, <1>2, <1>8, <1>9, <1>10, <1>11, DeliveryKeeps

-----------------------------------------------------------------------------
(* The receiver.                                                             *)

LEMMA ReceiverIs ==
    ASSUME EInv, receiver.pc # "idle"
    PROVE  /\ receiver \in Receiver /\ receiver.id \in EventIds
           /\ admitted[receiver.id] \in Nat /\ doubts[receiver.id] \in Nat
           /\ EventFits(receiver.id)
  BY EventTypes DEF EInv, ReceiverFits

LEMMA VerifyKeeps ==
    ASSUME EventAssumption, EInv, Verify
    PROVE  EInv'
  <1>1. PICK e : e = receiver.id
    OBVIOUS
  <1>2. /\ receiver.pc = "verify" /\ receiver \in Receiver /\ e \in EventIds
        /\ UNCHANGED <<agentVars, queue, receipts, filed, admitted, doubts, moot, faults>>
    BY <1>1, ReceiverIs DEF Verify
  <1>3. ASSUME NEW accepted \in BOOLEAN, accepted => e \in filed, Answers(accepted),
               UNCHANGED obsolete
        PROVE  EInv'
    <2>1. /\ call' \in [Drains -> Call]
          /\ \A d \in Drains : call'[d] = call[d] \/ CallFits(call[d])'
          /\ receiver' \in Receiver /\ ReceiverFits' /\ receiver'.pc = "idle"
      BY <1>1, <1>2, <1>3, AnswersIs
    <2>2. EventTypeOK'
      BY <1>2, <1>3, <2>1, EventTypes DEF EInv, EventTypeOK, AgentTypeOK, agentVars
    <2>3. \A x \in EventIds : EventFits(x)'
      BY <1>2, <1>3, <2>1 DEF EInv, EventFits
    <2> QED
      BY <1>2, <2>1, <2>2, <2>3, DeliveryKeeps
  <1>4. ASSUME NEW pc \in {"submit", "file"}, receiver' = [receiver EXCEPT !.pc = pc],
               e \notin filed, UNCHANGED call, obsolete \subseteq obsolete',
               obsolete' \subseteq EventIds, pc = "file" => e \in obsolete'
        PROVE  EInv'
    <2>1. /\ receiver' \in Receiver /\ receiver'.pc = pc /\ receiver'.id = e
          /\ receiver'.from = receiver.from
      BY <1>1, <1>2, <1>4 DEF Receiver
    <2>2. ReceiverFits'
      BY <1>1, <1>2, <1>4, <2>1 DEF EInv, ReceiverFits
    <2>3. EventTypeOK'
      BY <1>2, <1>4, <2>1, EventTypes DEF EInv, EventTypeOK, AgentTypeOK, agentVars
    <2>4. ASSUME NEW x \in EventIds PROVE EventFits(x)'
      BY <1>2, <1>4, <2>1, EventTypes DEF EInv, EventFits
    <2> QED
      BY <1>2, <1>4, <2>2, <2>3, <2>4, DeliveryKeeps
  <1> QED
    BY <1>1, <1>2, <1>3, <1>4, EventTypes DEF Verify

LEMMA SubmitKeeps ==
    ASSUME EventAssumption, EInv, Submit
    PROVE  EInv'
  <1>1. PICK e : e = receiver.id
    OBVIOUS
  <1>2. /\ receiver.pc = "submit" /\ receiver \in Receiver /\ e \in EventIds
        /\ e \notin filed /\ admitted[e] \in Nat
        /\ UNCHANGED <<agentVars, queue, call, receipts, filed, doubts, moot, obsolete, faults>>
    BY <1>1, ReceiverIs DEF Submit, EInv, ReceiverFits
  <1>3. /\ receiver' \in Receiver /\ receiver'.pc = "file" /\ receiver'.id = e
        /\ receiver'.from = receiver.from
    BY <1>1, <1>2 DEF Submit, Receiver
  <1>4. /\ admitted' \in [EventIds -> Nat] /\ admitted'[e] = admitted[e] + 1
        /\ \A x \in EventIds \ {e} : admitted'[x] = admitted[x]
    BY <1>1, <1>2, EventTypes DEF Submit
  <1>5. EventTypeOK'
    BY <1>2, <1>3, <1>4, EventTypes DEF EInv, EventTypeOK, AgentTypeOK, agentVars
  <1>6. ReceiverFits'
    BY <1>1, <1>2, <1>3, <1>4 DEF EInv, ReceiverFits
  <1>7. ASSUME NEW x \in EventIds PROVE EventFits(x)'
    <2>1. /\ EventFits(x) /\ admitted[x] \in Nat /\ doubts[x] \in Nat
      BY EventTypes DEF EInv
    <2>2. CASE x = e
      BY <1>2, <1>3, <1>4, <2>1, <2>2 DEF EventFits
    <2>3. CASE x # e
      BY <1>1, <1>2, <1>3, <1>4, <2>1, <2>3 DEF EventFits
    <2> QED
      BY <2>2, <2>3
  <1> QED
    BY <1>2, <1>5, <1>6, <1>7, DeliveryKeeps

LEMMA FileKeeps ==
    ASSUME EventAssumption, EInv, File
    PROVE  EInv'
  <1>1. PICK e : e = receiver.id
    OBVIOUS
  <1>2. /\ receiver.pc = "file" /\ receiver \in Receiver /\ e \in EventIds
        /\ admitted[e] > 0 \/ e \in obsolete
        /\ filed' = filed \cup {e}
        /\ UNCHANGED <<agentVars, queue, receipts, admitted, doubts, moot, obsolete, faults>>
    BY <1>1, ReceiverIs DEF File, EInv, ReceiverFits
  <1>3. /\ call' \in [Drains -> Call]
        /\ \A d \in Drains : call'[d] = call[d] \/ CallFits(call[d])'
        /\ receiver' \in Receiver /\ ReceiverFits' /\ receiver'.pc = "idle"
    BY <1>1, <1>2, AnswersIs DEF File
  <1>4. EventTypeOK'
    BY <1>2, <1>3, EventTypes DEF EInv, EventTypeOK, AgentTypeOK, agentVars
  <1>5. ASSUME NEW x \in EventIds PROVE EventFits(x)'
    <2>1. EventFits(x)
      BY DEF EInv
    <2> QED
      BY <1>1, <1>2, <1>3, <2>1 DEF EventFits
  <1> QED
    BY <1>2, <1>3, <1>4, <1>5, DeliveryKeeps

LEMMA ReceiverFailsKeeps ==
    ASSUME EventAssumption, EInv, ReceiverFails
    PROVE  EInv'
  <1>1. PICK e : e = receiver.id
    OBVIOUS
  <1>2. /\ receiver.pc # "idle" /\ receiver \in Receiver /\ e \in EventIds /\ EventFits(e)
        /\ admitted[e] \in Nat /\ doubts[e] \in Nat /\ faults' \in 0..MaxFaults
        /\ UNCHANGED <<agentVars, queue, receipts, filed, moot, obsolete>>
    BY <1>1, ReceiverIs, EventTypes DEF ReceiverFails, EventAssumption
  <1>3. /\ call' \in [Drains -> Call]
        /\ \A d \in Drains : call'[d] = call[d] \/ CallFits(call[d])'
        /\ receiver' \in Receiver /\ ReceiverFits' /\ receiver'.pc = "idle"
    BY <1>2, AnswersIs DEF ReceiverFails
  <1>4. PICK asked \in BOOLEAN :
           /\ asked => receiver.pc = "submit"
           /\ admitted' = IF asked THEN [admitted EXCEPT ![e] = @ + 1] ELSE admitted
           /\ doubts' = IF asked \/ receiver.pc = "file"
                        THEN [doubts EXCEPT ![e] = @ + 1] ELSE doubts
    BY <1>1 DEF ReceiverFails
  <1>5. /\ admitted' \in [EventIds -> Nat] /\ doubts' \in [EventIds -> Nat]
        /\ \A x \in EventIds \ {e} : admitted'[x] = admitted[x] /\ doubts'[x] = doubts[x]
        /\ admitted'[e] = IF asked THEN admitted[e] + 1 ELSE admitted[e]
        /\ doubts'[e] = IF asked \/ receiver.pc = "file" THEN doubts[e] + 1 ELSE doubts[e]
    BY <1>2, <1>4, EventTypes
  <1>6. EventTypeOK'
    BY <1>2, <1>3, <1>5, EventTypes DEF EInv, EventTypeOK, AgentTypeOK, agentVars
  <1>7. ASSUME NEW x \in EventIds PROVE EventFits(x)'
    <2>1. /\ EventFits(x) /\ admitted[x] \in Nat /\ doubts[x] \in Nat
      BY EventTypes DEF EInv
    <2>2. CASE x = e
      <3>1. CASE asked
        BY <1>2, <1>3, <1>4, <1>5, <2>1, <2>2, <3>1 DEF EventFits
      <3>2. CASE ~asked
        BY <1>2, <1>3, <1>4, <1>5, <2>1, <2>2, <3>2 DEF EventFits
      <3> QED
        BY <3>1, <3>2
    <2>3. CASE x # e
      BY <1>1, <1>2, <1>3, <1>5, <2>1, <2>3 DEF EventFits
    <2> QED
      BY <2>2, <2>3
  <1> QED
    BY <1>2, <1>3, <1>6, <1>7, DeliveryKeeps

-----------------------------------------------------------------------------
(* The invariant of the delivery, and what it shows.                         *)

LEMMA EventInitHolds == ASSUME EventAssumption, EventInit PROVE EInv
  <1>1. IInv
    BY InitHolds DEF EventInit, EventAssumption
  <1>2. source.attempt = 0 /\ source.check = "none" /\ checks = 0
    BY DEF EventInit, AgentInit
  <1>3. Idle \in Call /\ Idle.pc = "idle"
    BY DEF Idle, Call, Pcs
  <1>4. NoReceiver \in Receiver /\ NoReceiver.pc = "idle" /\ NoReceiver.from = None
    BY DEF NoReceiver, Receiver
  <1>5. EventTypeOK
    BY <1>1, <1>3, <1>4 DEF EventInit, EventTypeOK, IInv, EventAssumption
  <1>6. AttemptFits
    BY <1>2 DEF AttemptFits
  <1>7. \A q \in Identities : queue[q] = None
    BY DEF EventInit
  <1>8. \A d \in Drains : CallFits(call[d])
    BY <1>3 DEF EventInit, CallFits
  <1>9. ReceiverFits
    BY <1>4 DEF EventInit, ReceiverFits
  <1>10. \A e \in EventIds : EventFits(e)
    BY <1>4 DEF EventInit, EventFits
  <1> QED
    BY <1>5, <1>6, <1>7, <1>8, <1>9, <1>10 DEF EInv, Done

LEMMA EventNextKeeps ==
    ASSUME EventAssumption, IInv, IInv', EInv, [Next]_vars
    PROVE  EInv'
  <1>1. CASE UNCHANGED vars
    <2>1. UNCHANGED <<agentVars, queue, call, receiver, receipts, filed, admitted, doubts,
                      moot, obsolete, faults>>
      BY <1>1 DEF vars, dispatchVars
    <2>2. EventTypeOK' /\ ReceiverFits' /\ \A e \in EventIds : EventFits(e)'
      BY <2>1 DEF EInv, EventTypeOK, AgentTypeOK, agentVars, ReceiverFits, EventFits
    <2> QED
      BY <2>1, <2>2, DeliveryKeeps
  <1>2. CASE AgentStep
    BY <1>2, AgentStepKeeps
  <1>3. ASSUME NEW d \in Drains, DrainStep(d) \/ Fails(d) \/ Die(d)
               \/ \E q \in Identities : DrainClaim(d, q)
        PROVE  EInv'
    BY <1>3, PrepareKeeps, SendKeeps, RecordKeeps, SettleKeeps, FailsKeeps, DieKeeps,
       DrainClaimKeeps DEF DrainStep
  <1>4. CASE ReceiverStep \/ ReceiverFails
    BY <1>4, VerifyKeeps, SubmitKeeps, FileKeeps, ReceiverFailsKeeps DEF ReceiverStep
  <1> QED
    BY <1>1, <1>2, <1>3, <1>4 DEF Next

\* The delivery leaves the work as it is: to the cases and repairs, a drain or a receiver
\* does nothing (import-events.ts only reads them).
THEOREM WorkImplemented == Spec => AgentSpec
  <1>1. EventInit => AgentInit
    BY DEF EventInit
  <1>2. [Next]_vars => [AgentNext]_agentVars
    <2>1. ASSUME UNCHANGED vars PROVE UNCHANGED agentVars
      BY <2>1 DEF vars
    <2>2. AgentStep => [AgentNext]_agentVars
      BY AgentStepIs
    <2>3. ASSUME NEW d \in Drains, DrainStep(d) \/ Fails(d) \/ Die(d)
                 \/ \E q \in Identities : DrainClaim(d, q)
          PROVE  UNCHANGED agentVars
      BY <2>3 DEF DrainStep, Prepare, Send, Record, Settle, Fails, Die, DrainClaim
    <2>4. ASSUME ReceiverStep \/ ReceiverFails PROVE UNCHANGED agentVars
      BY <2>4 DEF ReceiverStep, Verify, Submit, File, ReceiverFails
    <2> QED
      BY <2>1, <2>2, <2>3, <2>4 DEF Next
  <1> QED
    BY <1>1, <1>2, PTL DEF Spec, AgentSpec

THEOREM DeliveryInductive == ASSUME EventAssumption PROVE Spec => [](IInv /\ EInv)
  <1> HIDE DEF EventAssumption
  <1>1. AgentSpec => []IInv
    BY Inductive DEF EventAssumption
  <1>2. EventInit => EInv
    BY EventInitHolds
  <1>3. IInv /\ IInv' /\ EInv /\ [Next]_vars => EInv'
    BY EventNextKeeps
  <1> QED
    BY <1>1, <1>2, <1>3, WorkImplemented, PTL DEF Spec

LEMMA LosesNoCall == ASSUME EventAssumption, IInv, EInv PROVE NoCallLost
  <1>1. ASSUME NEW q \in Identities, Done(q), Stands(q),
               Prepared(q).verdict = "ready" => Prepared(q).id = EventOf(q),
               EventOf(q) \in EventIds, q[1] = "source" => q \notin moot
        PROVE  HandedOver(q)
    <2>1. EventOf(q) \in filed
      BY <1>1, IdentityIs DEF EInv, Served
    <2> QED
      BY <1>1, <2>1 DEF EInv, EventFits, HandedOver
  <1>2. ASSUME source.attempt > 0, source.attempt = checks, source.issue # None,
               NEW q, q = <<"source", source.attempt>>,
               Done(q), q \notin moot, state[source.issue].attempts = 0
        PROVE  HandedOver(q)
    <2> DEFINE i == source.issue
    <2>1. /\ q \in Identities /\ q[1] = "source" /\ q[1] # "repair" /\ q[2] = source.attempt
          /\ i \in Issues /\ state[i].retry = 0 /\ source.success \in 0..MaxChecks
          /\ 0 \in 0..(2 * MaxClaims + 1)
      <3>1. source.attempt \in 1..MaxChecks /\ i \in Issues /\ source.success \in 0..MaxChecks
        BY <1>2 DEF IInv, AgentTypeOK, Source
      <3> QED
        BY <1>2, <3>1, IsIdentity DEF IInv, CaseFits, EventAssumption
    <2>2. Stands(q)
      BY <1>2, <2>1 DEF Stands
    <2>3. EventOf(q) = <<"source", i, IF Kind[i] = "failure" THEN source.success ELSE 0, 0>>
      BY <2>1 DEF EventOf
    <2>4. EventOf(q) \in EventIds
      <3>1. PICK n \in 0..MaxChecks : EventOf(q) = <<"source", i, n, 0>>
        BY <2>1, <2>3 DEF EventAssumption
      <3> QED
        BY <2>1, <3>1 DEF EventIds
    <2>5. Prepared(q).verdict = "ready" => Prepared(q).id = EventOf(q)
      <3>1. Prepared(q) \in {Dropped, Deferred, Ready(EventOf(q))}
        BY <2>1, <2>3 DEF Prepared, PreparedSource
      <3> QED
        BY <3>1 DEF Dropped, Deferred, Ready
    <2> QED
      BY <1>1, <1>2, <2>1, <2>2, <2>4, <2>5
  <1>3. ASSUME NEW i \in Issues, NEW q, q = <<"repair", i, repair[i].retry>>, Done(q)
        PROVE  HandedOver(q)
    <2>1. /\ repair[i] \in Repair /\ q \in Identities /\ q[1] = "repair" /\ q[2] = i
          /\ q[3] = repair[i].retry /\ q \in EventIds
      <3>1. repair[i] \in Repair /\ repair[i].retry \in 0..MaxClaims
        BY DEF IInv, AgentTypeOK, Repair
      <3> QED
        BY <1>3, <3>1, IsIdentity DEF EventIds, EventAssumption
    <2>2. Prepared(q) = PreparedRepair(i)
      BY <2>1 DEF Prepared
    <2>3. CASE repair[i].status \in {"none", "completed"}
      <3>1. Prepared(q) = Dropped
        BY <2>2, <2>3 DEF PreparedRepair
      <3> QED
        BY <3>1 DEF HandedOver, Dropped
    <2>4. CASE repair[i].status \in {"pending", "retry"}
      <3>1. EventOf(q) = q /\ Stands(q)
        BY <2>1, <2>4 DEF EventOf, Stands
      <3>2. Prepared(q) = Deferred \/ Prepared(q) = Ready(q)
        BY <1>3, <2>2, <2>4 DEF PreparedRepair
      <3>3. Prepared(q).verdict = "ready" => Prepared(q).id = q
        BY <3>2 DEF Deferred, Ready
      <3> QED
        BY <1>1, <1>3, <2>1, <3>1, <3>3
    <2> QED
      BY <2>1, <2>3, <2>4 DEF Repair
  <1> QED
    BY <1>2, <1>3 DEF NoCallLost

\* No capability settles twice, the agent is called once for an event unless a receiver
\* failed between asking the gateway and its receipt, and no call gets lost.
THEOREM CallsOnce == ASSUME EventAssumption PROVE Spec => []NothingTwice
  <1>1. ASSUME IInv, EInv PROVE NothingTwice
    <2>1. SettledOnce
      BY <1>1, ClaimsAre DEF IInv, ClaimFits, SettledOnce, EventAssumption
    <2>2. CallsExplained
      <3>1. ASSUME NEW e \in EventIds PROVE admitted[e] <= 1 + doubts[e]
        <4>1. EventFits(e) /\ admitted[e] \in Nat /\ doubts[e] \in Nat
          BY <1>1, EventTypes DEF EInv
        <4> QED
          BY <4>1 DEF EventFits
      <3> QED
        BY <3>1 DEF CallsExplained
    <2> QED
      BY <1>1, <2>1, <2>2, LosesNoCall DEF NothingTwice, EInv
  <1> HIDE DEF EventAssumption
  <1>2. IInv /\ EInv => NothingTwice
    BY <1>1
  <1> QED
    BY <1>2, DeliveryInductive, PTL

\* What is closed stays closed, an issue or a repair as well as an event: who settles an
\* event holds its lease, and one that is done has none.
THEOREM ClosesForGood == ASSUME EventAssumption PROVE Spec => NothingReopened
  <1>1. ASSUME IInv, IInv', EInv, [Next]_vars, NEW q \in Identities, Done(q)
        PROVE  queue'[q] = queue[q]
    <2>1. queue[q].owner = None /\ queue[q].status = "done" /\ queue[q] # None
      BY <1>1 DEF EInv, Done
    <2>2. CASE AgentStep
      BY <1>1, <2>1, <2>2, QueueMoves
    <2>3. ASSUME NEW d \in Drains, NEW p \in Identities, DrainClaim(d, p)
          PROVE  queue'[q] = queue[q]
      <3>1. p # q
        BY <2>1, <2>3 DEF DrainClaim, Pending
      <3> QED
        BY <1>1, <2>3, <3>1, EventTypes DEF DrainClaim
    <2>4. ASSUME NEW d \in Drains, Settle(d) PROVE queue'[q] = queue[q]
      <3>1. queue[q].owner # d
        BY <2>1 DEF EventAssumption
      <3> QED
        BY <1>1, <2>4, <3>1, EventTypes DEF Settle
    <2>5. ASSUME NEW d \in Drains, Prepare(d) \/ Send(d) \/ Record(d) \/ Fails(d) \/ Die(d)
          PROVE  UNCHANGED queue
      BY <2>5 DEF Prepare, Send, Record, Fails, Die
    <2>6. ASSUME ReceiverStep \/ ReceiverFails PROVE UNCHANGED queue
      BY <2>6 DEF ReceiverStep, Verify, Submit, File, ReceiverFails
    <2>7. UNCHANGED vars => UNCHANGED queue
      BY DEF vars
    <2> QED
      BY <1>1, <2>2, <2>3, <2>4, <2>5, <2>6, <2>7 DEF Next, DrainStep
  <1> HIDE DEF EventAssumption
  <1>2. IInv /\ IInv' /\ EInv /\ [Next]_vars
        => [\A q \in Identities :
              queue[q] # None /\ queue[q].status = "done" => queue'[q] = queue[q]]_vars
    BY <1>1 DEF Done
  <1>3. Spec => DoneStays
    BY <1>2, DeliveryInductive, PTL DEF Spec, DoneStays
  <1>4. AgentSpec => ClosedStays
    BY ReopensNothing DEF EventAssumption
  <1> QED
    BY <1>3, <1>4, WorkImplemented DEF NothingReopened

----------------------------------------------------------------------------
(* The watcher of the cases.                                               *)

\* As long as every poll shows what the call showed, the watcher remembers just that, and
\* the time it counts is the time since the call.
WatchInv ==
    /\ log = [seen |-> log.seen, calm |-> log.calm, since |-> log.since, fired |-> log.fired]
    /\ log.calm \in BOOLEAN /\ log.fired \in BOOLEAN
    /\ log.calm => /\ log.since = age
                   /\ watch.error = log.seen.failed /\ watch.revision = log.seen.revision

\* A poll shows a signal or a failure.
LEMMA PollShows ==
    ASSUME Poll(Signal) \/ Poll(Failure)
    PROVE  \E o : o.failed \in BOOLEAN /\ Poll(o)
<1>1. CASE Poll(Signal)
  <2>1. PICK o : o = Signal
    OBVIOUS
  <2>2. Poll(o)
    BY <1>1, <2>1 DEF Poll, Fires, WatchAfter, AgeAfter
  <2>3. o.failed \in BOOLEAN
    BY <2>1 DEF Signal
  <2> QED BY <2>2, <2>3
<1>2. CASE Poll(Failure)
  <2>1. PICK o : o = Failure
    OBVIOUS
  <2>2. Poll(o)
    BY <1>2, <2>1 DEF Poll, Fires, WatchAfter, AgeAfter
  <2>3. o.failed \in BOOLEAN
    BY <2>1 DEF Failure
  <2> QED BY <2>2, <2>3
<1> QED BY <1>1, <1>2

\* What the watcher remembers of a poll is what it showed.
LEMMA PollKeeps ==
    ASSUME WatchInv, Poll(Signal) \/ Poll(Failure)
    PROVE  WatchInv'
<1>0. PICK o : o.failed \in BOOLEAN /\ Poll(o)
  BY PollShows, Zenon
<1>1. /\ watch'.error = o.failed /\ watch'.revision = o.revision
      /\ age' = IF Fires(o) THEN 0 ELSE age
  BY <1>0 DEF Poll, WatchAfter, AgeAfter
<1>2. CASE Fires(o)
  <2>1. log' = [seen |-> o, calm |-> TRUE, since |-> 0, fired |-> TRUE]
    BY <1>0, <1>2 DEF Poll
  <2> QED BY <1>0, <1>1, <1>2, <2>1 DEF WatchInv
<1>3. CASE ~Fires(o)
  <2>1. log' = [log EXCEPT !.calm = @ /\ log.seen = o, !.fired = FALSE]
    BY <1>0, <1>3 DEF Poll
  <2>2. log' = [seen |-> log.seen, calm |-> (log.calm /\ log.seen = o), since |-> log.since,
                fired |-> FALSE]
    BY <2>1 DEF WatchInv
  <2> QED BY <1>0, <1>1, <1>3, <2>2 DEF WatchInv
<1> QED BY <1>2, <1>3

LEMMA WatchStep ==
    ASSUME WatchInv, [WatchNext]_watchVars
    PROVE  WatchInv'
<1>0. ASSUME Poll(Signal) \/ Poll(Failure) PROVE WatchInv'
  BY <1>0, PollKeeps
<1>1. CASE PollSignal
  BY <1>1, <1>0, Zenon DEF PollSignal
<1>2. CASE PollFails
  BY <1>2, <1>0, Zenon DEF PollFails
<1>3. CASE PollMissing
  <2>1. CASE Poll(Failure)
    BY <2>1, <1>0, Zenon
  <2>2. CASE log' = [log EXCEPT !.fired = FALSE, !.calm = FALSE]
    <3>1. log' = [seen |-> log.seen, calm |-> FALSE, since |-> log.since, fired |-> FALSE]
      BY <2>2 DEF WatchInv
    <3> QED BY <3>1 DEF WatchInv
  <2> QED BY <1>3, <2>1, <2>2, Zenon DEF PollMissing
<1>4. CASE Tick
  <2>1. /\ log' = [log EXCEPT !.since = Older(@), !.fired = FALSE]
        /\ age' = Older(age) /\ watch' = watch
    BY <1>4 DEF Tick
  <2>2. log' = [seen |-> log.seen, calm |-> log.calm, since |-> Older(log.since), fired |-> FALSE]
    BY <2>1 DEF WatchInv
  <2> QED BY <2>1, <2>2 DEF WatchInv
<1>5. CASE UNCHANGED <<watch, age, log>>
  BY <1>5, Zenon DEF WatchInv
<1>6. CASE \E r \in Runs : Stop(r)
  BY <1>5, <1>6 DEF Stop, polledVars
<1>7. CASE \E r \in Runs, c \in Cases :
              ClaimSaved(r, c) \/ ClaimLost(r, c) \/ SettleHeld(r, c) \/ Release(r, c)
  <2>1. PICK r \in Runs, c \in Cases :
              ClaimSaved(r, c) \/ ClaimLost(r, c) \/ SettleHeld(r, c) \/ Release(r, c)
    BY <1>7
  <2> QED BY <1>5, <2>1, Zenon
       DEF ClaimSaved, ClaimLost, ClaimReady, SettleHeld, Release, polledVars
<1>8. CASE \E c \in Cases : Attempt(c) \/ Resume(c)
  BY <1>5, <1>8 DEF Attempt, Resume, polledVars
<1>9. CASE Deploy
  BY <1>5, <1>9 DEF Deploy, polledVars
<1>10. CASE UNCHANGED watchVars
  BY <1>5, <1>10 DEF watchVars
<1> QED BY <1>1, <1>2, <1>3, <1>4, <1>6, <1>7, <1>8, <1>9, <1>10, Zenon DEF WatchNext

\* A poll that fires although it shows what the call showed is at least as far from it as the
\* watcher is told to wait.
LEMMA PollWaits ==
    ASSUME WatchInv, Poll(Signal) \/ Poll(Failure), log'.fired, log.calm,
           log'.seen = log.seen
    PROVE  log.since >= IF log.seen.failed THEN Alarm ELSE Rescue
<1>0. PICK o : o.failed \in BOOLEAN /\ Poll(o)
  BY PollShows, Zenon
<1>1. Fires(o) /\ log'.seen = o
  <2>1. CASE Fires(o)
    BY <1>0, <2>1 DEF Poll
  <2>2. CASE ~Fires(o)
    <3>1. log' = [log EXCEPT !.calm = @ /\ log.seen = o, !.fired = FALSE]
      BY <1>0, <2>2 DEF Poll
    <3>2. ~log'.fired
      BY <3>1 DEF WatchInv
    <3> QED BY <3>2
  <2> QED BY <2>1, <2>2
<1>2. watch.error = o.failed /\ watch.revision = o.revision /\ log.since = age /\ log.seen = o
  BY <1>0, <1>1 DEF WatchInv
<1> QED BY <1>0, <1>1, <1>2 DEF Fires

LEMMA StepWaits ==
    ASSUME WatchInv, WatchNext, log'.fired, log.calm, log'.seen = log.seen, log' # log
    PROVE  log.since >= IF log.seen.failed THEN Alarm ELSE Rescue
<1>0. ASSUME Poll(Signal) \/ Poll(Failure)
      PROVE  log.since >= IF log.seen.failed THEN Alarm ELSE Rescue
  BY <1>0, PollWaits
<1>1. CASE PollSignal
  BY <1>1, <1>0, Zenon DEF PollSignal
<1>2. CASE PollFails
  BY <1>2, <1>0, Zenon DEF PollFails
<1>3. CASE PollMissing
  <2>1. CASE Poll(Failure)
    BY <2>1, <1>0, Zenon
  <2>2. CASE log' = [log EXCEPT !.fired = FALSE, !.calm = FALSE]
    BY <2>2 DEF WatchInv
  <2> QED BY <1>3, <2>1, <2>2, Zenon DEF PollMissing
<1>4. CASE Tick
  BY <1>4 DEF Tick, WatchInv
<1>5. CASE \E r \in Runs : Stop(r)
  BY <1>5 DEF Stop, polledVars
<1>6. CASE \E r \in Runs, c \in Cases :
              ClaimSaved(r, c) \/ ClaimLost(r, c) \/ SettleHeld(r, c) \/ Release(r, c)
  BY <1>6 DEF ClaimSaved, ClaimLost, ClaimReady, SettleHeld, Release, polledVars
<1>7. CASE \E c \in Cases : Attempt(c) \/ Resume(c)
  BY <1>7 DEF Attempt, Resume, polledVars
<1>8. CASE Deploy
  BY <1>8 DEF Deploy, polledVars
<1> QED BY <1>1, <1>2, <1>3, <1>4, <1>5, <1>6, <1>7, <1>8, Zenon DEF WatchNext

\* The watcher does not call again soon about what it has called about, however often it polls,
\* cases are claimed and settled, and runs die in between (import-agent-client.mjs).
THEOREM CallsAreRare == WatchSpec => WatcherQuiet
<1> DEFINE Waits == log.since >= (IF log.seen.failed THEN Alarm ELSE Rescue)
<1>1. WatchInit => WatchInv
  BY DEF WatchInit, WatchInv
<1>2. WatchInv /\ [WatchNext]_watchVars => WatchInv'
  BY WatchStep
<1>3. WatchInv /\ [WatchNext]_watchVars
        => [(log'.fired /\ log.calm /\ log'.seen = log.seen) => Waits]_log
  <2> SUFFICES ASSUME WatchInv, [WatchNext]_watchVars, log' # log,
                      log'.fired, log.calm, log'.seen = log.seen
               PROVE  Waits
    BY Zenon
  <2>1. WatchNext
    BY DEF watchVars
  <2> QED BY <2>1, StepWaits
<1> QED BY <1>1, <1>2, <1>3, PTL DEF WatchSpec, WatcherQuiet

=============================================================================
