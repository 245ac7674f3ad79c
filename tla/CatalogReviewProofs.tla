------------------------ MODULE CatalogReviewProofs ------------------------
(***************************************************************************)
(* Proofs about CatalogReview, for all artists, pages, drafts and          *)
(* decisions.  Each way to write the lineup keeps it sound, whoever comes  *)
(* first; a change that could be approved now was saved over the value     *)
(* that is approved now; and a publication is new, because it is numbered  *)
(* or named by a change that was not decided before.                       *)
(*                                                                         *)
(* The second part is about the queues that administrators work off:       *)
(* festivals that visitors submitted, and candidates put up for review.    *)
(*                                                                         *)
(* The third part is about the requests of one check (SourceFetch): what   *)
(* the pages lead to was read or will be, and each request is accounted    *)
(* for by a page, a redirect or the attempts for the present page.         *)
(***************************************************************************)
EXTENDS CatalogReview, Queues, SourceFetch, FiniteSetTheorems, WellFoundedInduction, TLAPS

----------------------------------------------------------------------------
(* The lineup.                                                             *)

Entries == [Artists -> {Absent} \cup
                [billing : Billings, position : Nat, status : {"ANNOUNCED", "CANCELLED"}]]

LEMMA Least ==
    ASSUME NEW T \in SUBSET Nat, T # {}
    PROVE  \E k \in T : \A i \in T : k <= i
<1>1. PICK k \in T : \A i \in T : ~(<<i, k>> \in OpToRel(<, Nat))
  BY NatLessThanWellFounded, WFMin, Zenon
<1>2. \A i \in T : ~(i < k)
  BY <1>1, Zenon DEF OpToRel
<1> QED BY <1>2

\* A finite set of positions is bounded: a smallest one that is not has an element, and
\* is bounded without it.
LEMMA BoundedAbove ==
    ASSUME NEW S \in SUBSET Nat, IsFiniteSet(S)
    PROVE  \E m \in Nat : \A x \in S : x <= m
<1> DEFINE Free == {T \in SUBSET S : ~ \E m \in Nat : \A x \in T : x <= m}
<1>1. SUFFICES ASSUME S \in Free PROVE FALSE
  OBVIOUS
<1>2. Free \subseteq FiniteSubsetsOf(S)
  BY FS_FiniteSubsetsOfFinite
<1>3. PICK T \in Free : \A U \in Free : ~(<<U, T>> \in StrictSubsetOrdering(S))
  BY <1>1, <1>2, FS_StrictSubsetOrderingWellFounded, WFMin, Zenon
<1>4. PICK x \in T : TRUE
  <2>1. CASE T = {}
    BY <2>1, 0 \in Nat
  <2> QED BY <2>1
<1>5. T \ {x} \notin Free
  BY <1>3, <1>4 DEF StrictSubsetOrdering
<1>6. PICK m \in Nat : \A y \in T \ {x} : y <= m
  BY <1>5
<1>7. x \in Nat
  BY <1>4
<1>8. PICK n \in Nat : x <= n /\ m <= n
  BY <1>7
<1>9. \A y \in T : y <= n
  BY <1>6, <1>8
<1> QED BY <1>8, <1>9

LEMMA Greatest ==
    ASSUME NEW S \in SUBSET Nat, IsFiniteSet(S), S # {}
    PROVE  Max(S) \in S /\ \A x \in S : x <= Max(S)
<1> DEFINE Above == {m \in Nat : \A x \in S : x <= m}
<1>1. Above # {}
  BY BoundedAbove
<1>2. PICK m \in Above : \A i \in Above : m <= i
  BY <1>1, Least
<1>3. m \in S
  <2> SUFFICES ASSUME m \notin S PROVE FALSE
    OBVIOUS
  <2>1. PICK x \in S : TRUE
    OBVIOUS
  <2>2. \A y \in S : y <= m - 1
    BY DEF Above
  <2>3. m - 1 \in Nat
    BY <2>1, <2>2
  <2> QED BY <1>2, <2>2, <2>3
<1>4. \E x \in S : \A y \in S : x >= y
  BY <1>3
<1> QED BY <1>4, Zenon DEF Max
LEMMA PlaceOf ==
    ASSUME NEW names \in Bill, NEW a \in ToSet(names)
    PROVE  Place(names, a) \in 1..Len(names) /\ names[Place(names, a)] = a
<1> DEFINE places == {n \in DOMAIN names : names[n] = a}
<1>1. DOMAIN names = 1..Len(names) /\ Len(names) \in Nat
  BY DEF Bill
<1>2. places # {} /\ places \subseteq Nat
  BY <1>1 DEF ToSet
<1>3. PICK n \in places : \A m \in places : n <= m
  BY <1>2, Least
<1>4. \E k \in DOMAIN names : names[k] = a /\ \A m \in DOMAIN names : names[m] = a => k <= m
  BY <1>3
<1>5. Place(names, a) \in DOMAIN names /\ names[Place(names, a)] = a
  BY <1>4, Zenon DEF Place
<1> QED BY <1>1, <1>5

LEMMA NamesKnown ==
    ASSUME NEW names \in Bill
    PROVE  ToSet(names) \subseteq Artists
  BY DEF Bill, ToSet

LEMMA BillingsTwo ==
    ASSUME NEW b \in Billings
    PROVE  Other(b) \in Billings /\ Other(b) # b /\ \A o \in Billings : o = b \/ o = Other(b)
  BY DEF Billings, Other

LEMMA EntryTyped ==
    ASSUME NEW b \in Billings, NEW p \in Nat
    PROVE  /\ Entry(b, p) \in [billing : Billings, position : Nat,
                               status : {"ANNOUNCED", "CANCELLED"}]
           /\ Entry(b, p).billing = b /\ Entry(b, p).position = p
  BY DEF Entry

\* New artists join those that are known under slugs of their own.
LEMMA SlugsApart ==
    ASSUME NEW cat \in Catalog, SoundLineup(cat), NEW names, Identified(cat, names)
    PROVE  \A a, b \in cat.known \cup names : Slug[a] = Slug[b] => a = b
  BY DEF SoundLineup, Identified

LEMMA ReplacedSound ==
    ASSUME NEW cat \in Catalog, SoundLineup(cat), NEW b \in Billings, NEW names \in Bill,
           MayReplace(cat, b, names)
    PROVE  Replaced(cat, b, names) \in Catalog /\ SoundLineup(Replaced(cat, b, names))
<1>1. CASE names = Names(cat.entries, b)
  BY <1>1 DEF Replaced
<1>2. CASE names # Names(cat.entries, b)
  <2> DEFINE new == Replaced(cat, b, names)
  <2>1. /\ ToSet(names) \cap Billed(cat.entries, Other(b)) = {}
        /\ Identified(cat, ToSet(names))
    BY <1>2 DEF MayReplace
  <2>2. cat.entries \in Entries /\ cat.known \subseteq Artists
    BY DEF Catalog, Entries
  <2>3. ToSet(names) \subseteq Artists
    BY NamesKnown
  <2>4. new = [cat EXCEPT !.known = cat.known \cup ToSet(names), !.entries = new.entries]
    BY <1>2 DEF Replaced, Catalog
  <2>5. /\ new.known = cat.known \cup ToSet(names)
        /\ new.entries = [a \in Artists |->
               IF a \in ToSet(names) THEN Entry(b, Place(names, a) - 1)
               ELSE IF a \in Billed(cat.entries, b) THEN Absent ELSE cat.entries[a]]
    BY <1>2 DEF Replaced, Catalog
  <2>6. \A a \in ToSet(names) :
            /\ Place(names, a) - 1 \in Nat
            /\ \A c \in ToSet(names) : Place(names, a) = Place(names, c) => a = c
    BY PlaceOf DEF Bill
  <2>7. \A a \in Artists : new.entries[a] \in {Absent} \cup
            [billing : Billings, position : Nat, status : {"ANNOUNCED", "CANCELLED"}]
    BY <2>2, <2>5, <2>6, EntryTyped DEF Entries
  <2>8. new.entries \in Entries
    BY <2>5, <2>7 DEF Entries
  <2>9. new \in Catalog
    BY <2>2, <2>3, <2>4, <2>5, <2>8 DEF Catalog, Entries
  <2>10. ASSUME NEW a \in Artists, NEW c \in Artists, a # c,
                new.entries[a] # Absent, new.entries[c] # Absent
         PROVE  \/ new.entries[a].billing # new.entries[c].billing
                \/ new.entries[a].position # new.entries[c].position
    <3>1. \A x \in ToSet(names) : /\ new.entries[x].billing = b
                                  /\ new.entries[x].position = Place(names, x) - 1
      BY <2>3, <2>5, <2>6, EntryTyped
    <3>2. \A x \in Artists \ ToSet(names) : new.entries[x] # Absent =>
              new.entries[x] = cat.entries[x] /\ cat.entries[x].billing # b
      BY <2>2, <2>5 DEF Entries, Billed
    <3>3. CASE a \in ToSet(names) /\ c \in ToSet(names)
      <4>1. Place(names, a) \in Nat /\ Place(names, c) \in Nat
        BY <3>3, PlaceOf DEF Bill
      <4> QED BY <2>6, <2>10, <3>1, <3>3, <4>1
    <3>4. CASE a \notin ToSet(names) /\ c \notin ToSet(names)
      BY <2>10, <3>2, <3>4 DEF SoundLineup
    <3> QED BY <2>10, <3>1, <3>2, <3>3, <3>4
  <2>11. \A a \in Artists : new.entries[a] # Absent => a \in new.known
    BY <2>5 DEF SoundLineup
  <2>12. \A a, c \in new.known : Slug[a] = Slug[c] => a = c
    BY <2>1, <2>5, SlugsApart
  <2> QED BY <2>9, <2>10, <2>11, <2>12 DEF SoundLineup
<1> QED BY <1>1, <1>2

LEMMA ImageFinite ==
    ASSUME NEW A, IsFiniteSet(A), NEW f
    PROVE  IsFiniteSet({f[a].position : a \in A})
<1> DEFINE T == {f[a].position : a \in A}
           g == [a \in A |-> f[a].position]
<1>1. g \in Surjection(A, T)
  BY DEF Surjection
<1> QED BY <1>1, FS_Surjection

LEMMA BehindAll ==
    ASSUME NEW entries \in Entries, NEW b \in Billings
    PROVE  /\ Behind(entries, b) \in Nat
           /\ \A a \in Billed(entries, b) : entries[a].position < Behind(entries, b)
<1> DEFINE S == {entries[a].position : a \in Billed(entries, b)}
<1>1. \A a \in Billed(entries, b) : entries[a].position \in Nat
  BY DEF Billed, Entries
<1>2. Billed(entries, b) \subseteq Artists /\ IsFiniteSet(Billed(entries, b))
  BY ReviewAssumption, FS_Subset DEF Billed, ReviewAssumption
<1>3. IsFiniteSet(S)
  BY <1>2, ImageFinite
<1>4. CASE Billed(entries, b) = {}
  BY <1>4 DEF Behind
<1>5. CASE Billed(entries, b) # {}
  <2>1. S # {} /\ S \in SUBSET Nat
    BY <1>1, <1>5
  <2>2. Max(S) \in S /\ \A x \in S : x <= Max(S)
    BY <1>3, <2>1, Greatest
  <2>3. Behind(entries, b) = Max(S) + 1
    BY <1>5 DEF Behind
  <2>4. PICK m \in Nat : m = Max(S)
    BY <2>1, <2>2
  <2>5. \A a \in Billed(entries, b) : entries[a].position <= m
    BY <2>2, <2>4
  <2> HIDE DEF S
  <2> QED BY <1>1, <2>3, <2>4, <2>5
<1> QED BY <1>4, <1>5

\* The new artists of a page come one behind the other.
LEMMA EarlierCounts ==
    ASSUME NEW names \in Bill, NEW new \in SUBSET ToSet(names)
    PROVE  LET earlier(a) == {x \in new : Place(names, x) < Place(names, a)}
           IN  \A a \in new :
                  /\ Cardinality(earlier(a)) \in Nat
                  /\ \A c \in new : a # c => Cardinality(earlier(a)) # Cardinality(earlier(c))
<1> DEFINE earlier(a) == {x \in new : Place(names, x) < Place(names, a)}
<1>1. \A a \in new : Place(names, a) \in Nat /\ names[Place(names, a)] = a
  BY PlaceOf DEF Bill
<1>2. IsFiniteSet(new)
  BY ReviewAssumption, NamesKnown, FS_Subset DEF ReviewAssumption
<1>3. \A a \in new : IsFiniteSet(earlier(a)) /\ Cardinality(earlier(a)) \in Nat
  BY <1>2, FS_Subset, FS_CardinalityType
<1>4. ASSUME NEW a \in new, NEW c \in new, Place(names, a) < Place(names, c)
      PROVE  Cardinality(earlier(a)) < Cardinality(earlier(c))
  <2>1. a \notin earlier(a) /\ earlier(a) \cup {a} \subseteq earlier(c)
    BY <1>1, <1>4
  <2>2. Cardinality(earlier(a) \cup {a}) = Cardinality(earlier(a)) + 1
    BY <1>3, <2>1, FS_AddElement
  <2>3. Cardinality(earlier(a) \cup {a}) <= Cardinality(earlier(c))
    BY <1>3, <2>1, FS_Subset
  <2>4. Cardinality(earlier(a)) \in Nat /\ Cardinality(earlier(c)) \in Nat
    BY <1>3
  <2> HIDE DEF earlier
  <2> QED BY <2>2, <2>3, <2>4
<1>5. ASSUME NEW a \in new, NEW c \in new, a # c
      PROVE  Cardinality(earlier(a)) # Cardinality(earlier(c))
  <2>1. Place(names, a) < Place(names, c) \/ Place(names, c) < Place(names, a)
    BY <1>1, <1>5
  <2> HIDE DEF earlier
  <2> QED BY <1>3, <1>4, <2>1
<1> QED BY <1>3, <1>5
LEMMA ExtendedSound ==
    ASSUME NEW cat \in Catalog, SoundLineup(cat), NEW b \in Billings, NEW names \in Bill,
           NEW added \in SUBSET ToSet(names), MayAdd(cat, b, added)
    PROVE  /\ Extended(cat, b, names, added) \in Catalog
           /\ SoundLineup(Extended(cat, b, names, added))
<1> DEFINE next == Extended(cat, b, names, added)
           new == {a \in added : cat.entries[a] = Absent}
           earlier(a) == {x \in new : Place(names, x) < Place(names, a)}
           at(a) == Behind(cat.entries, b) + Cardinality(earlier(a))
<1>1. cat.entries \in Entries /\ cat.known \subseteq Artists /\ added \subseteq Artists
  BY NamesKnown DEF Catalog, Entries
<1>2. /\ next.known = cat.known \cup added
      /\ next.entries = [a \in Artists |->
             IF a \in new THEN Entry(b, at(a)) ELSE cat.entries[a]]
      /\ next = [cat EXCEPT !.known = cat.known \cup added, !.entries = next.entries]
  BY DEF Extended, Catalog
<1>3. Behind(cat.entries, b) \in Nat
      /\ \A a \in Billed(cat.entries, b) : cat.entries[a].position < Behind(cat.entries, b)
  BY <1>1, BehindAll
<1>4. \A a \in new : /\ Cardinality(earlier(a)) \in Nat
                     /\ \A c \in new : a # c => Cardinality(earlier(a)) # Cardinality(earlier(c))
  BY EarlierCounts
<1> HIDE DEF earlier
<1>5. \A a \in new : /\ at(a) \in Nat /\ at(a) >= Behind(cat.entries, b)
                     /\ \A c \in new : a # c => at(a) # at(c)
  BY <1>3, <1>4
<1> HIDE DEF at, next
<1>51. ASSUME NEW a \in new
       PROVE  /\ Entry(b, at(a)) \in [billing : Billings, position : Nat,
                                       status : {"ANNOUNCED", "CANCELLED"}]
              /\ Entry(b, at(a)).billing = b /\ Entry(b, at(a)).position = at(a)
  <2>1. at(a) \in Nat
    BY <1>5
  <2> QED BY <2>1, EntryTyped, Zenon
<1>6. \A a \in Artists : next.entries[a] \in {Absent} \cup
          [billing : Billings, position : Nat, status : {"ANNOUNCED", "CANCELLED"}]
  <2>1. \A a \in Artists : cat.entries[a] \in {Absent} \cup
            [billing : Billings, position : Nat, status : {"ANNOUNCED", "CANCELLED"}]
    BY <1>1 DEF Entries
  <2> HIDE DEF new
  <2> QED BY <1>2, <1>51, <2>1
<1>7. next \in Catalog
  BY <1>1, <1>2, <1>6 DEF Catalog, Entries
<1>8. ASSUME NEW a \in Artists, NEW c \in Artists, a # c,
             next.entries[a] # Absent, next.entries[c] # Absent
      PROVE  \/ next.entries[a].billing # next.entries[c].billing
             \/ next.entries[a].position # next.entries[c].position
  <2>1. \A x \in new : next.entries[x].billing = b /\ next.entries[x].position = at(x)
    BY <1>1, <1>2, <1>51
  <2>2. \A x \in Artists \ new : next.entries[x] = cat.entries[x]
    BY <1>2
  <2>3. ASSUME NEW x \in new, NEW y \in Artists \ new, cat.entries[y] # Absent,
               cat.entries[y].billing = b
        PROVE  cat.entries[y].position # at(x)
    <3>1. cat.entries[y].position \in Nat
      BY <1>1, <2>3 DEF Entries
    <3>2. cat.entries[y].position < Behind(cat.entries, b)
      BY <1>3, <2>3 DEF Billed
    <3> QED BY <1>3, <1>5, <3>1, <3>2
  <2> QED BY <1>5, <1>8, <2>1, <2>2, <2>3 DEF SoundLineup
<1>9. \A a \in Artists : next.entries[a] # Absent => a \in next.known
  BY <1>2 DEF SoundLineup
<1>10. \A a, c \in next.known : Slug[a] = Slug[c] => a = c
  BY <1>2, SlugsApart DEF MayAdd
<1> QED BY <1>7, <1>8, <1>9, <1>10 DEF SoundLineup, next

\* How many positions below p are free of a set of occupied ones.
Rank(occupied, p) == Cardinality({q \in Nat : q < p} \ occupied)

LEMMA RankSteps ==
    ASSUME NEW occupied, NEW p \in Nat
    PROVE  /\ Rank(occupied, p) \in Nat
           /\ Rank(occupied, p + 1) =
                  IF p \in occupied THEN Rank(occupied, p) ELSE Rank(occupied, p) + 1
<1> DEFINE below(n) == {q \in Nat : q < n} \ occupied
<1>1. {q \in Nat : q < p} = 0..(p - 1)
  OBVIOUS
<1>2. IsFiniteSet({q \in Nat : q < p})
  <2>1. 0 \in Int /\ p - 1 \in Int
    OBVIOUS
  <2> QED BY <1>1, <2>1, FS_Interval
<1>3. IsFiniteSet(below(p)) /\ Cardinality(below(p)) \in Nat
  BY <1>2, FS_Subset, FS_CardinalityType
<1>4. below(p + 1) = IF p \in occupied THEN below(p) ELSE below(p) \cup {p}
  OBVIOUS
<1>5. p \notin below(p)
  OBVIOUS
<1>6. Cardinality(below(p) \cup {p}) = Cardinality(below(p)) + 1
  BY <1>3, <1>5, FS_AddElement
<1> QED BY <1>3, <1>4, <1>6 DEF Rank

\* Far enough out there are as many free positions as one likes.
LEMMA RankGrows ==
    ASSUME NEW occupied, IsFiniteSet(occupied), NEW n \in Nat
    PROVE  /\ Cardinality(occupied) \in Nat
           /\ n <= Rank(occupied, n + Cardinality(occupied))
<1> DEFINE all == {q \in Nat : q < n + Cardinality(occupied)}
<1>1. PICK k \in Nat : k = Cardinality(occupied)
  BY FS_CardinalityType
<1>2. all = 0..(n + k - 1)
  BY <1>1
<1>3. IsFiniteSet(all) /\ Cardinality(all) = n + k
  <2>1. PICK m \in Int : m = n + k - 1
    OBVIOUS
  <2>2. IsFiniteSet(0..m) /\ Cardinality(0..m) = IF 0 > m THEN 0 ELSE m - 0 + 1
    BY FS_Interval
  <2>3. all = 0..m
    BY <1>2, <2>1
  <2> HIDE DEF all
  <2> QED BY <2>1, <2>2, <2>3
<1>4. Cardinality(all \ occupied) = Cardinality(all) - Cardinality(all \cap occupied)
  BY <1>3, FS_Difference
<1>5. Cardinality(all \cap occupied) <= Cardinality(occupied)
      /\ IsFiniteSet(all \cap occupied)
  BY FS_Intersection
<1>6. PICK m \in Nat : m = Cardinality(all \cap occupied)
  BY <1>5, FS_CardinalityType
<1> HIDE DEF all
<1>7. n <= Cardinality(all \ occupied)
  BY <1>1, <1>3, <1>4, <1>5, <1>6
<1> QED BY <1>1, <1>7 DEF Rank, all

\* The n-th free position exists: it comes before the first p with n free ones below it.
LEMMA RankReached ==
    ASSUME NEW occupied, IsFiniteSet(occupied), NEW n \in Nat \ {0}
    PROVE  \E p \in (0..(n + Cardinality(occupied))) \ occupied : Rank(occupied, p) = n - 1
<1> DEFINE Enough == {p \in Nat : n <= Rank(occupied, p)}
<1>1. PICK k \in Nat : k = Cardinality(occupied)
  BY RankGrows
<1>2. n + k \in Enough
  BY <1>1, RankGrows
<1>3. PICK p \in Enough : \A q \in Enough : p <= q
  BY <1>2, Least
<1>4. Rank(occupied, 0) = 0
  <2>1. {q \in Nat : q < 0} \ occupied = {}
    OBVIOUS
  <2> QED BY <2>1, FS_EmptySet DEF Rank
<1>5. p \in Nat /\ p # 0 /\ p <= n + k /\ n <= Rank(occupied, p)
  BY <1>2, <1>3, <1>4
<1>6. PICK q \in Nat : p = q + 1
  BY <1>5
<1>7. q \notin Enough
  BY <1>3, <1>6
<1>8. /\ Rank(occupied, q) \in Nat
      /\ Rank(occupied, p) = IF q \in occupied THEN Rank(occupied, q) ELSE Rank(occupied, q) + 1
  BY <1>6, RankSteps
<1>9. q \notin occupied /\ Rank(occupied, q) = n - 1
  BY <1>5, <1>7, <1>8
<1>10. q \in 0..(n + k)
  BY <1>5, <1>6
<1> QED BY <1>1, <1>9, <1>10

Occupied(cat, b) == {cat.entries[a].position : a \in Cancelled(cat) \cap Billed(cat.entries, b)}

\* An act gets a position that no cancelled entry of its billing holds, and that depends on
\* its place alone.
LEMMA FreePositionOf ==
    ASSUME NEW cat \in Catalog, NEW b \in Billings, NEW n \in Nat \ {0}
    PROVE  /\ FreePosition(cat, b, n) \in Nat
           /\ FreePosition(cat, b, n) \notin Occupied(cat, b)
           /\ Rank(Occupied(cat, b), FreePosition(cat, b, n)) = n - 1
<1> DEFINE occupied == Occupied(cat, b)
           free == (0..(n + Cardinality(occupied))) \ occupied
           Nth(p) == Cardinality({q \in free : q < p}) = n - 1
<1>1. IsFiniteSet(Cancelled(cat) \cap Billed(cat.entries, b))
  BY ReviewAssumption, FS_Subset DEF ReviewAssumption, Billed
<1>2. IsFiniteSet(occupied)
  BY <1>1, ImageFinite DEF Occupied
<1>3. PICK k \in Nat : k = Cardinality(occupied)
  BY <1>2, RankGrows
<1>4. \A p \in free : p \in Nat /\ {q \in free : q < p} = {q \in Nat : q < p} \ occupied
  BY <1>3
<1>5. \A p \in free : Nth(p) <=> Rank(occupied, p) = n - 1
  BY <1>4 DEF Rank
<1>6. \E p \in free : Nth(p)
  BY <1>2, <1>5, RankReached
<1>7. FreePosition(cat, b, n) = CHOOSE p \in free : Nth(p)
  BY DEF FreePosition, Occupied
<1> HIDE DEF Nth, free
<1>8. FreePosition(cat, b, n) \in free /\ Nth(FreePosition(cat, b, n))
  BY <1>6, <1>7, Zenon
<1> QED BY <1>4, <1>5, <1>8 DEF free
\* Two acts of one list get two positions, and none that is held.
LEMMA FreePositionsApart ==
    ASSUME NEW cat \in Catalog, NEW b \in Billings, NEW names \in Bill, IsInjective(names),
           NEW a \in ToSet(names)
    PROVE  /\ FreePosition(cat, b, Place(names, a)) \in Nat
           /\ FreePosition(cat, b, Place(names, a)) \notin Occupied(cat, b)
           /\ \A c \in ToSet(names) : a # c =>
                  FreePosition(cat, b, Place(names, a)) # FreePosition(cat, b, Place(names, c))
<1>1. \A x \in ToSet(names) : Place(names, x) \in Nat \ {0} /\ names[Place(names, x)] = x
  BY PlaceOf DEF Bill
<1>2. \A x \in ToSet(names) :
          /\ FreePosition(cat, b, Place(names, x)) \in Nat
          /\ FreePosition(cat, b, Place(names, x)) \notin Occupied(cat, b)
          /\ Rank(Occupied(cat, b), FreePosition(cat, b, Place(names, x))) = Place(names, x) - 1
  BY <1>1, FreePositionOf
<1>3. \A x, y \in ToSet(names) : x # y => Place(names, x) - 1 # Place(names, y) - 1
  BY <1>1
<1> QED BY <1>2, <1>3

LEMMA ReviewedSound ==
    ASSUME NEW cat \in Catalog, SoundLineup(cat), NEW heads \in Bill, NEW lineup \in Bill,
           IsInjective(heads), IsInjective(lineup), ToSet(heads) \cap ToSet(lineup) = {},
           Identified(cat, ToSet(heads) \cup ToSet(lineup)),
           (ToSet(heads) \cup ToSet(lineup)) \cap Cancelled(cat) = {}
    PROVE  /\ Reviewed(cat, heads, lineup) \in Catalog
           /\ SoundLineup(Reviewed(cat, heads, lineup))
<1> DEFINE next == Reviewed(cat, heads, lineup)
           head(a) == FreePosition(cat, "HEADLINER", Place(heads, a))
           line(a) == FreePosition(cat, "LINEUP", Place(lineup, a))
           Row == [billing : Billings, position : Nat, status : {"ANNOUNCED", "CANCELLED"}]
<1>1. cat.entries \in Entries /\ cat.known \subseteq Artists
      /\ ToSet(heads) \subseteq Artists /\ ToSet(lineup) \subseteq Artists
  BY NamesKnown DEF Catalog, Entries
<1>2. /\ next.known = cat.known \cup ToSet(heads) \cup ToSet(lineup)
      /\ next.entries = [a \in Artists |->
             IF a \in ToSet(heads) THEN Entry("HEADLINER", head(a))
             ELSE IF a \in ToSet(lineup) THEN Entry("LINEUP", line(a))
             ELSE IF a \in Cancelled(cat) THEN cat.entries[a] ELSE Absent]
      /\ next = [cat EXCEPT !.known = next.known, !.entries = next.entries]
  BY DEF Reviewed, Catalog
<1>3. "HEADLINER" \in Billings /\ "LINEUP" \in Billings
  BY DEF Billings
<1>4. \A a \in ToSet(heads) :
          /\ head(a) \in Nat /\ head(a) \notin Occupied(cat, "HEADLINER")
          /\ \A c \in ToSet(heads) : a # c => head(a) # head(c)
  BY <1>3, FreePositionsApart
<1>5. \A a \in ToSet(lineup) :
          /\ line(a) \in Nat /\ line(a) \notin Occupied(cat, "LINEUP")
          /\ \A c \in ToSet(lineup) : a # c => line(a) # line(c)
  BY <1>3, FreePositionsApart
<1> HIDE DEF head, line
<1>6. ASSUME NEW a \in ToSet(heads)
      PROVE  /\ Entry("HEADLINER", head(a)) \in Row
             /\ Entry("HEADLINER", head(a)).billing = "HEADLINER"
             /\ Entry("HEADLINER", head(a)).position = head(a)
  <2>1. head(a) \in Nat
    BY <1>4
  <2> QED BY <1>3, <2>1, EntryTyped
<1>7. ASSUME NEW a \in ToSet(lineup)
      PROVE  /\ Entry("LINEUP", line(a)) \in Row
             /\ Entry("LINEUP", line(a)).billing = "LINEUP"
             /\ Entry("LINEUP", line(a)).position = line(a)
  <2>1. line(a) \in Nat
    BY <1>5
  <2> QED BY <1>3, <2>1, EntryTyped
<1> HIDE DEF next
<1>8. \A a \in Artists : next.entries[a] \in {Absent} \cup Row
  <2>1. \A a \in Artists : cat.entries[a] \in {Absent} \cup Row
    BY <1>1 DEF Entries
  <2> HIDE DEF Row
  <2> QED BY <1>2, <1>6, <1>7, <2>1
<1>9. next \in Catalog
  BY <1>1, <1>2, <1>8 DEF Catalog, Entries
<1>10. \A a \in ToSet(heads) : /\ next.entries[a].billing = "HEADLINER"
                               /\ next.entries[a].position = head(a)
  BY <1>1, <1>2, <1>6
<1>11. \A a \in ToSet(lineup) : /\ next.entries[a].billing = "LINEUP"
                                /\ next.entries[a].position = line(a)
  BY <1>1, <1>2, <1>7
<1>12. \A a \in Artists \ (ToSet(heads) \cup ToSet(lineup)) : next.entries[a] # Absent =>
           /\ next.entries[a] = cat.entries[a] /\ cat.entries[a] # Absent
           /\ cat.entries[a].position \in Occupied(cat, cat.entries[a].billing)
  BY <1>2 DEF Occupied, Cancelled, Billed
<1>13. ASSUME NEW a \in Artists, NEW c \in Artists, a # c,
              next.entries[a] # Absent, next.entries[c] # Absent,
              next.entries[a].billing = next.entries[c].billing
       PROVE  next.entries[a].position # next.entries[c].position
  <2>1. CASE a \in ToSet(heads) /\ c \in ToSet(heads)
    BY <1>4, <1>10, <1>13, <2>1
  <2>2. CASE a \in ToSet(lineup) /\ c \in ToSet(lineup)
    BY <1>5, <1>11, <1>13, <2>2
  <2>3. CASE a \notin ToSet(heads) \cup ToSet(lineup) /\ c \notin ToSet(heads) \cup ToSet(lineup)
    BY <1>12, <1>13, <2>3 DEF SoundLineup
  <2>4. CASE a \in ToSet(heads) \cup ToSet(lineup) /\ c \notin ToSet(heads) \cup ToSet(lineup)
    BY <1>4, <1>5, <1>10, <1>11, <1>12, <1>13, <2>4
  <2>5. CASE a \notin ToSet(heads) \cup ToSet(lineup) /\ c \in ToSet(heads) \cup ToSet(lineup)
    BY <1>4, <1>5, <1>10, <1>11, <1>12, <1>13, <2>5
  <2>6. ~(a \in ToSet(heads) /\ c \in ToSet(lineup)) /\ ~(a \in ToSet(lineup) /\ c \in ToSet(heads))
    BY <1>10, <1>11, <1>13
  <2> QED BY <2>1, <2>2, <2>3, <2>4, <2>5, <2>6
<1>14. \A a \in Artists : next.entries[a] # Absent => a \in next.known
  BY <1>2, <1>12 DEF SoundLineup
<1>15. \A a, c \in next.known : Slug[a] = Slug[c] => a = c
  <2>1. next.known = cat.known \cup (ToSet(heads) \cup ToSet(lineup))
    BY <1>2
  <2> QED BY <2>1, SlugsApart
<1> QED BY <1>9, <1>13, <1>14, <1>15 DEF SoundLineup, next
----------------------------------------------------------------------------
(* The invariant.                                                          *)

Publication == [source : {"admin", "ingestion", "agent"} \X Nat, fields : SUBSET Fields,
                refresh : BOOLEAN]

Value == Texts \cup Bill \cup {Absent}

Change == [kind : Kinds, field : Fields, base : Nat,
           before : Value \cup {Names(c.entries, "LINEUP") : c \in Catalog}, after : Value,
           draft : {Absent} \cup (Kinds \X Nat), parser : BOOLEAN,
           status : {"PENDING", "APPROVED", "REJECTED"}]

Draft == [id : Kinds \X Nat, kind : Kinds, by : Editors, base : Nat, revision : Nat,
          status : {"QUEUED", "APPLIED", "REJECTED"}]

\* A change carries a value of its field.
FitsField(ch) == ch.after \in IF ch.field \in Scalars THEN Texts ELSE Bill

RowsTyped ==
    /\ changes \in Seq({Absent} \cup Change)
    /\ \A c \in DOMAIN changes : changes[c] # Absent => FitsField(changes[c])

Typed ==
    /\ catalog \in Catalog
    /\ publications \in SUBSET Publication /\ IsFiniteSet(publications)
    /\ resources \in [Kinds -> [revision : Nat, values : [Fields -> Value]]]
    /\ drafts \in SUBSET Draft
    /\ RowsTyped
    /\ run \in [status : {"none", "RUNNING", "FAILED", "SUCCEEDED"}, saw : {Absent} \cup Catalog]
    /\ candidate = Absent \/ candidate \in [page : Pages, saw : Catalog]
    /\ agentSaw \in {Absent} \cup Catalog

\* Drafts are named by their kind and base.
DraftsNamed ==
    \A d \in drafts : d.id = <<d.kind, d.base>> /\ d.revision = d.base + 1

Ids == {d.id : d \in drafts}

\* c is a change of a draft.
Drafted(c) == changes[c] # Absent /\ changes[c].draft # Absent

\* A change belongs to a draft of its kind that is still there.
Filed ==
    \A c \in DOMAIN changes : Drafted(c) =>
        changes[c].draft \in Ids /\ changes[c].draft[1] = changes[c].kind

\* The changes of a draft wait for one revision, and are about different fields.
OnePerField ==
    \A c, x \in DOMAIN changes :
        Drafted(c) /\ Drafted(x) /\ Pending(c) /\ Pending(x) /\ c # x
        /\ changes[c].draft = changes[x].draft =>
            changes[c].base = changes[x].base /\ changes[c].field # changes[x].field

\* A change that could be approved now was saved over the value that is approved now.
SavedOver ==
    \A c \in DOMAIN changes : Drafted(c) /\ Pending(c) =>
        /\ changes[c].base <= resources[changes[c].kind].revision
        /\ Current(changes[c]) =>
               changes[c].before = resources[changes[c].kind].values[changes[c].field]

\* The publications of an administrator are those of changes that are decided, the others
\* are numbered.
Decided ==
    \A p \in publications : p.source[1] = "admin" =>
        p.source[2] \in DOMAIN changes /\ ~Pending(p.source[2])

Counted ==
    \A p \in publications : p.source[1] # "admin" =>
        p.source[2] < Cardinality(By(p.source[1]))

IInv == Typed /\ SoundLineup(catalog) /\ DraftsNamed /\ Filed /\ OnePerField /\ SavedOver
        /\ Decided /\ Counted

----------------------------------------------------------------------------
(* Lists of changes.                                                       *)

LEMMA FieldsFinite == IsFiniteSet(Fields)
<1>1. IsFiniteSet({"city"}) /\ IsFiniteSet({"city"} \cup {"officialUrl"})
  BY FS_Singleton, FS_AddElement
<1>2. IsFiniteSet({"city"} \cup {"officialUrl"} \cup {"headliners"})
  BY <1>1, FS_AddElement
<1>3. IsFiniteSet({"city"} \cup {"officialUrl"} \cup {"headliners"} \cup {"lineup"})
  BY <1>2, FS_AddElement
<1>4. Fields = {"city"} \cup {"officialUrl"} \cup {"headliners"} \cup {"lineup"}
  BY DEF Fields, Scalars
<1> QED BY <1>3, <1>4

LEMMA InTurn ==
    ASSUME NEW fields \in SUBSET Fields
    PROVE  /\ Cardinality(fields) \in Nat
           /\ \A n \in 1..Cardinality(fields) :
                 /\ SetToSeq(fields)[n] \in fields
                 /\ \A m \in 1..Cardinality(fields) :
                       n # m => SetToSeq(fields)[n] # SetToSeq(fields)[m]
<1>1. IsFiniteSet(fields)
  BY FieldsFinite, FS_Subset
<1>2. Cardinality(fields) \in Nat /\ ExistsBijection(1..Cardinality(fields), fields)
  BY <1>1, FS_CardinalityType
<1>3. \E f \in [1..Cardinality(fields) -> fields] : IsInjective(f)
  BY <1>2 DEF ExistsBijection, Bijection, Injection, Surjection
<1>4. SetToSeq(fields) \in [1..Cardinality(fields) -> fields] /\ IsInjective(SetToSeq(fields))
  BY <1>3, Zenon DEF SetToSeq
<1> QED BY <1>2, <1>4 DEF IsInjective

LEMMA ListOf ==
    ASSUME NEW n \in Nat, NEW S, NEW f \in [1..n -> S]
    PROVE  f \in Seq(S) /\ Len(f) = n /\ DOMAIN f = 1..n
  OBVIOUS

LEMMA Appended ==
    ASSUME NEW S, NEW s \in Seq(S), NEW t \in Seq(S)
    PROVE  /\ s \o t \in Seq(S)
           /\ DOMAIN (s \o t) = 1..(Len(s) + Len(t))
           /\ \A i \in 1..Len(s) : (s \o t)[i] = s[i]
           /\ \A i \in (1..(Len(s) + Len(t))) \ (1..Len(s)) :
                 i - Len(s) \in 1..Len(t) /\ (s \o t)[i] = t[i - Len(s)]
  OBVIOUS
\* What holds of changes that are queued for the draft d.
Drawn(new, d) ==
    \A n \in DOMAIN new : /\ new[n].status = "PENDING" /\ new[n].draft = d
                          /\ new[n].kind = d[1] /\ new[n].base = resources[d[1]].revision
                          /\ new[n].before = resources[d[1]].values[new[n].field]
                          /\ \A m \in DOMAIN new : n # m => new[n].field # new[m].field

LEMMA DraftChangesSound ==
    ASSUME Typed, NEW k \in Kinds, NEW values \in DraftValues[k]
    PROVE  LET new == DraftChanges(k, resources[k].revision, <<k, resources[k].revision>>, values)
           IN  /\ new \in Seq(Change)
               /\ \A n \in DOMAIN new : FitsField(new[n])
               /\ Drawn(new, <<k, resources[k].revision>>)
<1> DEFINE base == resources[k].revision
           new == DraftChanges(k, base, <<k, base>>, values)
           fields == DOMAIN values
           Nth(n) == SetToSeq(fields)[n]
<1>1. /\ fields \in SUBSET Fields
      /\ \A f \in fields : values[f] \in IF f \in Scalars THEN Texts ELSE Bill
  BY ReviewAssumption DEF ReviewAssumption
<1>2. base \in Nat /\ \A f \in Fields : resources[k].values[f] \in Value
  BY DEF Typed
<1>3. /\ Cardinality(fields) \in Nat
      /\ \A n \in 1..Cardinality(fields) :
            /\ Nth(n) \in fields
            /\ \A m \in 1..Cardinality(fields) : n # m => Nth(n) # Nth(m)
  BY <1>1, InTurn
<1>4. new = [n \in 1..Cardinality(fields) |->
         [kind |-> k, field |-> Nth(n), base |-> base, before |-> resources[k].values[Nth(n)],
          after |-> values[Nth(n)], draft |-> <<k, base>>, parser |-> FALSE,
          status |-> "PENDING"]]
  BY DEF DraftChanges
<1> HIDE DEF Nth, fields, base, new
<1>5. ASSUME NEW n \in 1..Cardinality(fields)
      PROVE  new[n] \in Change /\ FitsField(new[n])
  <2>1. Nth(n) \in Fields /\ resources[k].values[Nth(n)] \in Value
    BY <1>1, <1>2, <1>3
  <2>2. values[Nth(n)] \in IF Nth(n) \in Scalars THEN Texts ELSE Bill
    BY <1>1, <1>3
  <2>3. values[Nth(n)] \in Value
    BY <2>2 DEF Value
  <2> QED BY <1>2, <1>4, <2>1, <2>2, <2>3 DEF Change, FitsField
<1>6. new \in [1..Cardinality(fields) -> Change]
  BY <1>4, <1>5
<1>7. new \in Seq(Change) /\ DOMAIN new = 1..Cardinality(fields)
  BY <1>3, <1>6, ListOf
<1>8. Drawn(new, <<k, base>>)
  BY <1>3, <1>4 DEF Drawn, base
<1> QED BY <1>5, <1>7, <1>8 DEF new, base

\* The rows late are those of the draft d, of kind k; of the others, some may be deleted.
Queued(late, k, d) ==
    /\ d[1] = k /\ d \in Ids' /\ Ids \subseteq Ids'
    /\ \A c \in DOMAIN changes' : c \in DOMAIN changes \/ c \in late
    /\ \A c \in DOMAIN changes : changes'[c] # Absent =>
           changes'[c] = changes[c] /\ changes[c] # Absent /\ changes[c].draft # d
    /\ \A c \in late :
           /\ changes'[c].draft = d /\ changes'[c].kind = k /\ changes'[c].status = "PENDING"
           /\ changes'[c].base = resources[k].revision
           /\ changes'[c].before = resources[k].values[changes'[c].field]
           /\ \A x \in late : c # x => changes'[c].field # changes'[x].field
    /\ UNCHANGED resources

LEMMA QueuedRows ==
    ASSUME IInv, NEW late, NEW k \in Kinds, NEW d, Queued(late, k, d)
    PROVE  Filed' /\ OnePerField' /\ SavedOver'
<1> USE DEF Queued
<1>1. Filed'
  <2> SUFFICES ASSUME NEW c \in DOMAIN changes', changes'[c] # Absent, changes'[c].draft # Absent
               PROVE  changes'[c].draft \in Ids' /\ changes'[c].draft[1] = changes'[c].kind
    BY DEF Filed, Drafted
  <2>1. CASE c \in DOMAIN changes
    BY <2>1 DEF IInv, Filed, Drafted
  <2> QED BY <2>1
<1>2. OnePerField'
  <2> SUFFICES ASSUME NEW c \in DOMAIN changes', NEW x \in DOMAIN changes', c # x,
               Drafted(c)', Drafted(x)', Pending(c)', Pending(x)',
               changes'[c].draft = changes'[x].draft
        PROVE  changes'[c].base = changes'[x].base /\ changes'[c].field # changes'[x].field
    BY DEF OnePerField
  <2>1. CASE c \in DOMAIN changes /\ x \in DOMAIN changes
    BY <2>1 DEF IInv, OnePerField, Drafted, Pending
  <2>2. CASE c \in late /\ x \in late
    BY <2>2
  <2>3. c \in late /\ x \notin late => x \in DOMAIN changes
    OBVIOUS
  <2> QED BY <2>1, <2>2 DEF Drafted
<1>3. SavedOver'
  <2> SUFFICES ASSUME NEW c \in DOMAIN changes', Drafted(c)', Pending(c)'
        PROVE  /\ changes'[c].base <= resources[changes'[c].kind].revision
               /\ changes'[c].base = resources[changes'[c].kind].revision =>
                      changes'[c].before
                          = resources[changes'[c].kind].values[changes'[c].field]
    BY DEF SavedOver, Current
  <2>1. CASE c \in DOMAIN changes
    BY <2>1 DEF IInv, SavedOver, Drafted, Pending, Current
  <2>2. CASE c \in late
    <3>1. resources[k].revision \in Nat
      BY DEF IInv, Typed
    <3> QED BY <2>2, <3>1
  <2> QED BY <2>1, <2>2
<1> QED BY <1>1, <1>2, <1>3

\* Changes of the draft d are queued behind old, which differs from the list as it is by rows
\* that were deleted, and in which d has no changes.
LEMMA Queueing ==
    ASSUME IInv,
           NEW old, old \in Seq({Absent} \cup Change), Len(old) = Len(changes),
           \A c \in DOMAIN changes : old[c] \in {changes[c], Absent},
           NEW k \in Kinds, NEW values \in DraftValues[k],
           \A c \in DOMAIN changes : old[c] # Absent =>
               old[c].draft # <<k, resources[k].revision>>,
           changes' = old \o DraftChanges(k, resources[k].revision,
                                          <<k, resources[k].revision>>, values),
           Ids \cup {<<k, resources[k].revision>>} \subseteq Ids',
           UNCHANGED <<resources, publications>>
    PROVE  RowsTyped' /\ Filed' /\ OnePerField' /\ SavedOver' /\ Decided' /\ Counted'
<1> DEFINE d == <<k, resources[k].revision>>
           new == DraftChanges(k, resources[k].revision, d, values)
           N == Len(changes)
           late == DOMAIN changes' \ (1..N)
           Row == {Absent} \cup Change
<1>1. new \in Seq(Change) /\ (\A n \in DOMAIN new : FitsField(new[n])) /\ Drawn(new, d)
  BY DraftChangesSound DEF IInv
<1>2. changes \in Seq(Row) /\ N \in Nat /\ DOMAIN changes = 1..N
  BY DEF IInv, Typed, RowsTyped
<1>3. changes' = old \o new /\ old \in Seq(Row) /\ Len(old) = N
  OBVIOUS
<1>4. d[1] = k /\ \A c \in DOMAIN changes : old[c] # Absent => old[c].draft # d
  OBVIOUS
<1>5. Change \subseteq Row
  OBVIOUS
<1> HIDE DEF new, d, Row
<1>6. new \in Seq(Row) /\ DOMAIN new = 1..Len(new) /\ Len(new) \in Nat
  BY <1>1, <1>5
<1>7. /\ changes' \in Seq(Row)
      /\ DOMAIN changes' = 1..(N + Len(new))
      /\ \A c \in 1..N : changes'[c] = old[c]
      /\ \A c \in late : c - N \in 1..Len(new) /\ changes'[c] = new[c - N]
  <2>1. /\ old \o new \in Seq(Row)
        /\ DOMAIN (old \o new) = 1..(Len(old) + Len(new))
        /\ \A c \in 1..Len(old) : (old \o new)[c] = old[c]
        /\ \A c \in (1..(Len(old) + Len(new))) \ (1..Len(old)) :
               c - Len(old) \in 1..Len(new) /\ (old \o new)[c] = new[c - Len(old)]
    BY <1>3, <1>6, Appended, Zenon
  <2> HIDE DEF N
  <2> QED BY <1>3, <2>1, Zenon
<1> HIDE DEF N, late
<1>8. \A c \in late : c \in Int /\ c - N \in DOMAIN new /\ changes'[c] = new[c - N]
  <2>1. \A c \in late : c \in Int
    BY <1>7 DEF late
  <2> QED BY <1>6, <1>7, <2>1, Zenon
<1>9. \A c \in 1..N : changes'[c] # Absent => changes'[c] = changes[c] /\ changes[c] # Absent
                                              /\ changes[c].draft # d
  BY <1>2, <1>4, <1>7
<1>10. \A c \in late : changes'[c] \in Change /\ FitsField(changes'[c])
  <2>1. \A n \in DOMAIN new : new[n] \in Change
    BY <1>1
  <2> QED BY <1>1, <1>8, <2>1
<1>11. \A c \in late :
          /\ changes'[c].draft = d /\ changes'[c].kind = k /\ changes'[c].status = "PENDING"
          /\ changes'[c].base = resources[k].revision
          /\ changes'[c].before = resources[k].values[changes'[c].field]
          /\ \A x \in late : c # x => changes'[c].field # changes'[x].field
  <2>1. \A c, x \in late : c # x => c - N # x - N
    BY <1>2, <1>8
  <2>2. \A n, m \in DOMAIN new : n # m => new[n].field # new[m].field
    BY <1>1 DEF Drawn
  <2>3. \A c, x \in late : c # x => new[c - N].field # new[x - N].field
    BY <1>8, <2>1, <2>2, Zenon
  <2>4. \A n \in DOMAIN new :
            /\ new[n].draft = d /\ new[n].kind = k /\ new[n].status = "PENDING"
            /\ new[n].base = resources[k].revision
            /\ new[n].before = resources[k].values[new[n].field]
    BY <1>1, <1>4 DEF Drawn
  <2>5. ASSUME NEW c \in late, NEW x \in late, c # x
        PROVE  changes'[c].field # changes'[x].field
    <3>1. changes'[c] = new[c - N] /\ changes'[x] = new[x - N]
      BY <1>8
    <3>2. new[c - N].field # new[x - N].field
      BY <2>3, <2>5, Zenon
    <3> QED BY <3>1, <3>2, Zenon
  <2>6. ASSUME NEW c \in late
        PROVE  changes'[c] = new[c - N] /\ c - N \in DOMAIN new
    BY <1>8
  <2> QED BY <2>4, <2>5, <2>6
<1>12. \A c \in DOMAIN changes' : c \in 1..N \/ c \in late
  BY DEF late
<1>13. RowsTyped'
  <2>1. changes' \in Seq({Absent} \cup Change)
    BY <1>7 DEF Row
  <2>2. \A c \in 1..N : changes[c] # Absent => FitsField(changes[c])
    BY <1>2 DEF IInv, Typed, RowsTyped
  <2>3. \A c \in DOMAIN changes' : changes'[c] # Absent => FitsField(changes'[c])
    BY <1>9, <1>10, <1>12, <2>2
  <2> QED BY <2>1, <2>3 DEF RowsTyped, FitsField
<1>14. Filed' /\ OnePerField' /\ SavedOver'
  <2>1. d \in Ids' /\ Ids \subseteq Ids'
    BY DEF d
  <2>2. UNCHANGED resources
    OBVIOUS
  <2>3. \A c \in DOMAIN changes' : c \in DOMAIN changes \/ c \in late
    BY <1>2, <1>12
  <2>4. \A c \in DOMAIN changes : changes'[c] # Absent =>
            changes'[c] = changes[c] /\ changes[c] # Absent /\ changes[c].draft # d
    BY <1>2, <1>9
  <2>5. PICK e, l : e = d /\ l = late
    OBVIOUS
  <2>6. /\ e[1] = k /\ e \in Ids'
        /\ \A c \in DOMAIN changes' : c \in DOMAIN changes \/ c \in l
        /\ \A c \in DOMAIN changes : changes'[c] # Absent =>
               changes'[c] = changes[c] /\ changes[c] # Absent /\ changes[c].draft # e
    BY <1>4, <2>1, <2>3, <2>4, <2>5
  <2>7. \A c \in l :
            /\ changes'[c].draft = e /\ changes'[c].kind = k /\ changes'[c].status = "PENDING"
            /\ changes'[c].base = resources[k].revision
            /\ changes'[c].before = resources[k].values[changes'[c].field]
            /\ \A x \in l : c # x => changes'[c].field # changes'[x].field
    BY <1>11, <2>5
  <2>8. Queued(l, k, e)
    BY <2>1, <2>2, <2>6, <2>7 DEF Queued
  <2> QED BY <2>8, QueuedRows
<1>15. Decided'
  <2>1. \A c \in DOMAIN changes : c \in DOMAIN changes' /\ (~Pending(c) => ~Pending(c)')
    BY <1>2, <1>6, <1>7, <1>9 DEF Pending
  <2> QED BY <2>1 DEF IInv, Decided
<1>16. Counted'
  BY DEF IInv, Counted, By
<1> QED BY <1>13, <1>14, <1>15, <1>16
----------------------------------------------------------------------------
(* The ledger.                                                             *)

LEMMA Publishing ==
    ASSUME Typed, NEW path \in {"admin", "ingestion", "agent"}, NEW n \in Nat,
           NEW fields \in SUBSET Fields, NEW deferred \in BOOLEAN,
           Publish(<<path, n>>, fields, deferred)
    PROVE  /\ publications' \in SUBSET Publication /\ IsFiniteSet(publications')
           /\ publications \subseteq publications'
           /\ \A p \in publications' \ publications : p.source = <<path, n>>
           /\ (\A p \in publications : p.source # <<path, n>>) =>
                  \A f \in fields : \E p \in publications' \ publications :
                      /\ publications' = publications \cup {p} /\ f \in p.fields
                      /\ p.source[1] = path
                      /\ p.refresh <=> ~deferred /\ fields \cap {"headliners", "lineup"} # {}
<1> DEFINE new == [source |-> <<path, n>>, fields |-> fields,
                   refresh |-> ~deferred /\ fields \cap {"headliners", "lineup"} # {}]
<1>1. new \in Publication /\ new.source = <<path, n>> /\ new.fields = fields
      /\ (new.refresh <=> ~deferred /\ fields \cap {"headliners", "lineup"} # {})
  BY DEF Publication
<1>2. publications' = IF fields = {} THEN publications ELSE publications \cup {new}
  BY DEF Publish
<1>3. publications \in SUBSET Publication /\ IsFiniteSet(publications)
  BY DEF Typed
<1> HIDE DEF new
<1>4. IsFiniteSet(publications \cup {new})
  BY <1>3, FS_AddElement
<1>5. ASSUME \A p \in publications : p.source # <<path, n>>, NEW f \in fields
      PROVE  \E p \in publications' \ publications :
                 /\ publications' = publications \cup {p} /\ f \in p.fields
                 /\ p.source[1] = path
                 /\ p.refresh <=> ~deferred /\ fields \cap {"headliners", "lineup"} # {}
  <2>1. new \in publications' \ publications /\ publications' = publications \cup {new}
    BY <1>1, <1>2, <1>5
  <2>2. new.source[1] = path
    BY <1>1
  <2> QED BY <1>1, <1>5, <2>1, <2>2
<1> QED BY <1>1, <1>2, <1>3, <1>4, <1>5

\* The publications of ingestion and agent are numbered in turn.
LEMMA Numbering ==
    ASSUME Typed, Counted, NEW path \in {"ingestion", "agent"},
           NEW fields \in SUBSET Fields, NEW deferred \in BOOLEAN,
           Publish(<<path, Cardinality(By(path))>>, fields, deferred)
    PROVE  /\ Cardinality(By(path)) \in Nat /\ Counted'
           /\ \A p \in publications : p.source # <<path, Cardinality(By(path))>>
<1>1. publications \in SUBSET Publication /\ IsFiniteSet(publications)
      /\ \A q \in {"admin", "ingestion", "agent"} :
             By(q) \subseteq publications /\ IsFiniteSet(By(q)) /\ Cardinality(By(q)) \in Nat
  BY FS_Subset, FS_CardinalityType DEF Typed, By
<1>2. PICK n \in Nat : n = Cardinality(By(path))
  BY <1>1
<1>3. \A p \in publications : p.source # <<path, n>>
  <2> SUFFICES ASSUME NEW p \in publications, p.source = <<path, n>> PROVE FALSE
    OBVIOUS
  <2>1. p.source[1] = path /\ p.source[2] = n /\ path # "admin"
    OBVIOUS
  <2> QED BY <1>2, <2>1 DEF Counted
<1> DEFINE new == [source |-> <<path, n>>, fields |-> fields,
                   refresh |-> ~deferred /\ fields \cap {"headliners", "lineup"} # {}]
<1>4. publications' = IF fields = {} THEN publications ELSE publications \cup {new}
  BY <1>2 DEF Publish
<1>5. new.source = <<path, n>>
  OBVIOUS
<1> HIDE DEF new
<1>6. CASE fields = {}
  <2>1. publications' = publications
    BY <1>4, <1>6
  <2> QED BY <1>1, <1>2, <1>3, <2>1 DEF Counted, By
<1>7. CASE fields # {}
  <2>1. publications' = publications \cup {new} /\ new \notin publications
    BY <1>3, <1>4, <1>5, <1>7
  <2>2. /\ By(path)' = By(path) \cup {new} /\ new \notin By(path)
        /\ \A q \in {"admin", "ingestion", "agent"} \ {path} : By(q)' = By(q)
    BY <1>5, <2>1 DEF By
  <2>3. Cardinality(By(path)') = n + 1
    BY <1>1, <1>2, <2>2, FS_AddElement
  <2>4. ASSUME NEW p \in publications', p.source[1] # "admin"
        PROVE  p.source[2] < Cardinality(By(p.source[1])')
    <3>1. CASE p = new
      BY <1>5, <2>3, <3>1
    <3>2. CASE p \in publications
      <4>1. p.source[1] \in {"admin", "ingestion", "agent"} /\ p.source[2] \in Nat
        BY <1>1, <3>2 DEF Publication
      <4>2. p.source[2] < Cardinality(By(p.source[1]))
        BY <2>4, <3>2 DEF Counted
      <4>3. CASE p.source[1] = path
        BY <1>2, <2>3, <4>1, <4>2, <4>3
      <4>4. CASE p.source[1] # path
        <5>1. By(p.source[1])' = By(p.source[1])
          BY <2>2, <4>1, <4>4
        <5> QED BY <4>2, <5>1
      <4> QED BY <4>3, <4>4
    <3> QED BY <2>1, <2>4, <3>1, <3>2
  <2> QED BY <1>2, <1>3, <2>4 DEF Counted, By
<1> QED BY <1>6, <1>7

\* The names shown of a billing depend on its entries alone.
LEMMA NamesKept ==
    ASSUME NEW e1 \in Entries, NEW e2 \in Entries, NEW b \in Billings,
           Billed(e1, b) = Billed(e2, b),
           \A a \in Billed(e1, b) : e1[a].position = e2[a].position
    PROVE  Names(e1, b) = Names(e2, b)
<1>1. [a \in Billed(e1, b) |-> e1[a].position] = [a \in Billed(e2, b) |-> e2[a].position]
  OBVIOUS
<1> QED BY <1>1 DEF Names
----------------------------------------------------------------------------
(* The invariant is kept.                                                  *)

LEMMA InitInv == Init => IInv
<1> SUFFICES ASSUME Init PROVE IInv
  OBVIOUS
<1>1. catalog \in Catalog /\ SoundLineup(catalog)
  BY ReviewAssumption DEF Init, ReviewAssumption
<1>2. publications = {} /\ drafts = {} /\ changes = <<>> /\ candidate = Absent
      /\ agentSaw = Absent /\ run = [status |-> "none", saw |-> Absent]
      /\ resources = [k \in Kinds |-> [revision |-> 0, values |-> [f \in Fields |-> Absent]]]
  BY DEF Init
<1>3. resources \in [Kinds -> [revision : Nat, values : [Fields -> Value]]]
  BY <1>2 DEF Value
<1>4. IsFiniteSet(publications)
  BY <1>2, FS_EmptySet
<1>5. RowsTyped
  BY <1>2 DEF RowsTyped
<1>6. Typed
  BY <1>1, <1>2, <1>3, <1>4, <1>5 DEF Typed
<1>7. DraftsNamed /\ Filed /\ OnePerField /\ SavedOver /\ Decided /\ Counted
  BY <1>2 DEF DraftsNamed, Filed, OnePerField, SavedOver, Decided, Counted
<1> QED BY <1>1, <1>6, <1>7 DEF IInv

LEMMA SaveDraftInv ==
    ASSUME IInv, NEW e \in Editors, NEW k \in Kinds, NEW values \in DraftValues[k],
           SaveDraft(e, k, values)
    PROVE  IInv'
<1> DEFINE base == resources[k].revision
           new == [id |-> <<k, base>>, kind |-> k, by |-> e, status |-> "QUEUED",
                   base |-> base, revision |-> base + 1]
<1>1. /\ drafts' = drafts \cup {new}
      /\ changes' = changes \o DraftChanges(k, base, <<k, base>>, values)
      /\ UNCHANGED <<catalog, publications, resources, run, candidate, agentSaw>>
      /\ ~RevisionTaken(k)
  BY DEF SaveDraft
<1>2. base \in Nat /\ new \in Draft /\ changes \in Seq({Absent} \cup Change)
  BY DEF IInv, Typed, RowsTyped, Draft
<1>3. <<k, base>> \notin Ids
  BY <1>1 DEF IInv, DraftsNamed, RevisionTaken, Ids
<1>4. \A c \in DOMAIN changes : changes[c] # Absent => changes[c].draft # <<k, base>>
  <2>1. ASSUME NEW c \in DOMAIN changes, changes[c] # Absent, changes[c].draft = <<k, base>>
        PROVE  FALSE
    <3>1. changes[c].draft = Absent
      BY <1>3, <2>1 DEF IInv, Filed, Drafted
    <3> QED BY <1>2, <2>1, <3>1, ReviewAssumption DEF ReviewAssumption
  <2> QED BY <2>1
<1>5. Ids' = Ids \cup {<<k, base>>}
  <2>1. PICK row, b : row = new /\ b = base
    OBVIOUS
  <2>2. row.id = <<k, b>> /\ drafts' = drafts \cup {row}
    BY <1>1, <2>1
  <2>3. Ids' = Ids \cup {<<k, b>>}
    BY <2>2 DEF Ids
  <2> QED BY <2>1, <2>3
<1>6. RowsTyped' /\ Filed' /\ OnePerField' /\ SavedOver' /\ Decided' /\ Counted'
  <2>1. PICK old : old = changes
    OBVIOUS
  <2>2. /\ old \in Seq({Absent} \cup Change) /\ Len(old) = Len(changes)
        /\ \A c \in DOMAIN changes : old[c] \in {changes[c], Absent}
        /\ \A c \in DOMAIN changes : old[c] # Absent =>
               old[c].draft # <<k, resources[k].revision>>
    BY <1>2, <1>4, <2>1
  <2>3. /\ changes' = old \o DraftChanges(k, resources[k].revision,
                                          <<k, resources[k].revision>>, values)
        /\ Ids \cup {<<k, resources[k].revision>>} \subseteq Ids'
        /\ UNCHANGED <<resources, publications>>
    BY <1>1, <1>5, <2>1
  <2> QED BY <2>2, <2>3, Queueing
<1>7. Typed' /\ SoundLineup(catalog)'
  BY <1>1, <1>2, <1>6 DEF IInv, Typed, SoundLineup, RowsTyped
<1>8. DraftsNamed'
  BY <1>1 DEF IInv, DraftsNamed
<1> QED BY <1>6, <1>7, <1>8 DEF IInv

\* Deleting the changes of a draft.
LEMMA WithoutSound ==
    ASSUME IInv, NEW d \in drafts
    PROVE  /\ Without(d) \in Seq({Absent} \cup Change) /\ Len(Without(d)) = Len(changes)
           /\ DOMAIN Without(d) = DOMAIN changes
           /\ \A c \in DOMAIN changes : /\ Without(d)[c] \in {changes[c], Absent}
                                        /\ Without(d)[c] # Absent => Without(d)[c].draft # d.id
<1>1. changes \in Seq({Absent} \cup Change)
  BY DEF IInv, Typed, RowsTyped
<1>2. Without(d) = [c \in 1..Len(changes) |-> IF c \in ChangesOf(d) THEN Absent ELSE changes[c]]
  BY <1>1 DEF Without
<1>3. Without(d) \in [1..Len(changes) -> {Absent} \cup Change]
  BY <1>1, <1>2
<1>4. Without(d) \in Seq({Absent} \cup Change) /\ Len(Without(d)) = Len(changes)
      /\ DOMAIN Without(d) = DOMAIN changes
  BY <1>1, <1>3, ListOf
<1>5. \A c \in DOMAIN changes : /\ Without(d)[c] \in {changes[c], Absent}
                                /\ Without(d)[c] # Absent => Without(d)[c].draft # d.id
  BY <1>1, <1>2 DEF ChangesOf
<1> QED BY <1>4, <1>5

LEMMA UpdateDraftInv ==
    ASSUME IInv, NEW e \in Editors, NEW d \in drafts, NEW values \in DraftValues[d.kind],
           UpdateDraft(e, d, values)
    PROVE  IInv'
<1> DEFINE base == resources[d.kind].revision
<1>1. d.kind \in Kinds /\ d.id = <<d.kind, base>> /\ d.base = base
  BY DEF IInv, Typed, Draft, DraftsNamed, UpdateDraft
<1>2. /\ changes' = Without(d) \o DraftChanges(d.kind, base, <<d.kind, base>>, values)
      /\ UNCHANGED <<catalog, publications, resources, drafts, run, candidate, agentSaw>>
  BY <1>1 DEF UpdateDraft
<1>3. PICK k \in Kinds : k = d.kind
  BY <1>1
<1>4. Ids \cup {<<k, base>>} \subseteq Ids'
  BY <1>1, <1>2, <1>3 DEF Ids
<1>5. RowsTyped' /\ Filed' /\ OnePerField' /\ SavedOver' /\ Decided' /\ Counted'
  <2>1. PICK old : old = Without(d)
    OBVIOUS
  <2>2. /\ old \in Seq({Absent} \cup Change) /\ Len(old) = Len(changes)
        /\ \A c \in DOMAIN changes : old[c] \in {changes[c], Absent}
        /\ \A c \in DOMAIN changes : old[c] # Absent =>
               old[c].draft # <<k, resources[k].revision>>
    BY <1>1, <1>3, <2>1, WithoutSound
  <2>3. /\ changes' = old \o DraftChanges(k, resources[k].revision,
                                          <<k, resources[k].revision>>, values)
        /\ Ids \cup {<<k, resources[k].revision>>} \subseteq Ids'
        /\ UNCHANGED <<resources, publications>> /\ values \in DraftValues[k]
    BY <1>2, <1>3, <1>4, <2>1
  <2> QED BY <2>2, <2>3, Queueing
<1>6. Typed' /\ SoundLineup(catalog)' /\ DraftsNamed'
  BY <1>2, <1>5 DEF IInv, Typed, SoundLineup, RowsTyped, DraftsNamed
<1> QED BY <1>5, <1>6 DEF IInv

LEMMA DeleteDraftInv ==
    ASSUME IInv, NEW e \in Editors, NEW d \in drafts, DeleteDraft(e, d)
    PROVE  IInv'
<1>1. /\ changes' = Without(d) /\ drafts' = drafts \ {d}
      /\ UNCHANGED <<catalog, publications, resources, run, candidate, agentSaw>>
  BY DEF DeleteDraft
<1>2. /\ changes' \in Seq({Absent} \cup Change) /\ DOMAIN changes' = DOMAIN changes
      /\ \A c \in DOMAIN changes : changes'[c] # Absent =>
             changes'[c] = changes[c] /\ changes[c] # Absent /\ changes[c].draft # d.id
  BY <1>1, WithoutSound
<1>3. \A i \in Ids : i # d.id => i \in Ids'
  BY <1>1 DEF Ids
<1>4. RowsTyped'
  BY <1>2 DEF IInv, Typed, RowsTyped, FitsField
<1>5. Filed'
  BY <1>2, <1>3 DEF IInv, Filed, Drafted
<1>6. OnePerField'
  BY <1>2 DEF IInv, OnePerField, Drafted, Pending
<1>7. SavedOver'
  BY <1>1, <1>2 DEF IInv, SavedOver, Drafted, Pending, Current
<1>8. Decided' /\ Counted'
  BY <1>1, <1>2 DEF IInv, Decided, Pending, Counted, By
<1>9. Typed' /\ SoundLineup(catalog)' /\ DraftsNamed'
  BY <1>1, <1>4 DEF IInv, Typed, SoundLineup, RowsTyped, DraftsNamed
<1> QED BY <1>4, <1>5, <1>6, <1>7, <1>8, <1>9 DEF IInv

\* Closing a draft leaves its name.
LEMMA Closing ==
    ASSUME IInv, NEW c, NEW status \in {"APPLIED", "REJECTED"}, Close(c, status)
    PROVE  drafts' \in SUBSET Draft /\ DraftsNamed' /\ Ids' = Ids
<1> DEFINE Completed(d) == d.id = changes[c].draft
                      /\ \A x \in ChangesOf(d) \ {c} : changes[x].status # "PENDING"
           Closed(d) == IF Completed(d) THEN [d EXCEPT !.status = status] ELSE d
<1>1. drafts' = {Closed(d) : d \in drafts}
  BY DEF Close
<1>2. \A d \in drafts : /\ Closed(d) \in Draft /\ Closed(d).id = d.id
                        /\ Closed(d).kind = d.kind /\ Closed(d).base = d.base
                        /\ Closed(d).revision = d.revision
  <2>1. \A d \in drafts : d \in Draft
    BY DEF IInv, Typed
  <2> HIDE DEF Completed
  <2> QED BY <2>1 DEF Draft
<1> HIDE DEF Closed
<1>3. Ids' = Ids
  BY <1>1, <1>2 DEF Ids
<1>4. DraftsNamed'
  BY <1>1, <1>2 DEF IInv, DraftsNamed
<1> QED BY <1>1, <1>2, <1>3, <1>4

\* What a decision on the change c leaves of the list.
Deciding(c, status) ==
    /\ c \in DOMAIN changes /\ Pending(c) /\ status # "PENDING"
    /\ DOMAIN changes' = DOMAIN changes
    /\ changes'[c] = [changes[c] EXCEPT !.status = status]
    /\ \A x \in DOMAIN changes \ {c} : ~Pending(x) => changes'[x] = changes[x]

LEMMA DecidingRows ==
    ASSUME Typed, NEW c, NEW status \in {"APPROVED", "REJECTED"}, Deciding(c, status)
    PROVE  /\ c \in Nat /\ changes[c] \in Change
           /\ changes'[c] \in Change
           /\ changes'[c].status = status /\ changes'[c].draft = changes[c].draft
           /\ changes'[c].kind = changes[c].kind /\ changes'[c].field = changes[c].field
           /\ changes'[c].after = changes[c].after
           /\ ~Pending(c)'
<1>1. c \in Nat /\ changes[c] \in Change
  BY DEF Typed, RowsTyped, Deciding, Pending
<1>2. changes'[c] = [changes[c] EXCEPT !.status = status]
  BY DEF Deciding
<1>3. /\ changes'[c] \in Change
      /\ changes'[c].status = status /\ changes'[c].draft = changes[c].draft
      /\ changes'[c].kind = changes[c].kind /\ changes'[c].field = changes[c].field
      /\ changes'[c].after = changes[c].after
  BY <1>1, <1>2 DEF Change
<1>4. status # "PENDING"
  OBVIOUS
<1> QED BY <1>1, <1>3, <1>4 DEF Pending

LEMMA RejectInv ==
    ASSUME IInv, NEW c \in DOMAIN changes, Reject(c)
    PROVE  IInv'
<1>1. /\ Pending(c) /\ changes' = [changes EXCEPT ![c].status = "REJECTED"]
      /\ UNCHANGED <<catalog, publications, resources, run, candidate, agentSaw>>
  BY DEF Reject
<1>2. drafts' \in SUBSET Draft /\ DraftsNamed' /\ Ids' = Ids
  BY Closing DEF Reject
<1>3. changes \in Seq({Absent} \cup Change)
  BY DEF IInv, Typed, RowsTyped
<1>4. Deciding(c, "REJECTED") /\ \A x \in DOMAIN changes \ {c} : changes'[x] = changes[x]
  BY <1>1, <1>3 DEF Deciding
<1>5. /\ changes[c] \in Change /\ changes'[c] \in Change /\ ~Pending(c)'
      /\ changes'[c].draft = changes[c].draft /\ changes'[c].kind = changes[c].kind
      /\ changes'[c].field = changes[c].field /\ changes'[c].after = changes[c].after
  BY <1>4, DecidingRows DEF IInv
<1>6. DOMAIN changes' = DOMAIN changes /\ changes' \in Seq({Absent} \cup Change)
  <2> HIDE DEF Change
  <2>1. DOMAIN changes = 1..Len(changes) /\ Len(changes) \in Nat
    BY <1>3
  <2>2. DOMAIN changes' = 1..Len(changes)
        /\ changes' = [x \in 1..Len(changes) |-> changes'[x]]
    BY <1>1, <2>1
  <2>3. \A x \in 1..Len(changes) : changes'[x] \in {Absent} \cup Change
    BY <1>3, <1>4, <1>5, <2>1
  <2>4. changes' \in [1..Len(changes) -> {Absent} \cup Change]
    BY <2>2, <2>3
  <2> QED BY <2>1, <2>2, <2>4, ListOf
<1>7. RowsTyped'
  <2>1. \A x \in DOMAIN changes : changes[x] # Absent => FitsField(changes[x])
    BY DEF IInv, Typed, RowsTyped
  <2>2. FitsField(changes'[c])
    BY <1>1, <1>5, <2>1 DEF Pending, FitsField
  <2>3. \A x \in DOMAIN changes' : changes'[x] # Absent => FitsField(changes'[x])
    BY <1>4, <1>6, <2>1, <2>2
  <2> QED BY <1>6, <2>3 DEF RowsTyped, FitsField
<1>8. Filed'
  BY <1>1, <1>2, <1>4, <1>5, <1>6 DEF IInv, Filed, Drafted, Pending
<1>9. OnePerField'
  BY <1>4, <1>5, <1>6 DEF IInv, OnePerField, Drafted, Pending
<1>10. SavedOver'
  BY <1>1, <1>4, <1>5, <1>6 DEF IInv, SavedOver, Drafted, Pending, Current
<1>11. Decided' /\ Counted'
  BY <1>1, <1>4, <1>5, <1>6 DEF IInv, Decided, Counted, Pending, By
<1>12. Typed' /\ SoundLineup(catalog)'
  BY <1>1, <1>2, <1>7 DEF IInv, Typed, SoundLineup, RowsTyped
<1> QED BY <1>2, <1>7, <1>8, <1>9, <1>10, <1>11, <1>12 DEF IInv

\* What the catalogue accepts of a change keeps it sound.
LEMMA AppliedSound ==
    ASSUME NEW cat \in Catalog, SoundLineup(cat), NEW ch \in Change, FitsField(ch),
           MayApply(cat, ch)
    PROVE  Applied(cat, ch) \in Catalog /\ SoundLineup(Applied(cat, ch))
<1>1. ch.field \in Fields
  BY DEF Change
<1>2. CASE ch.field \in Scalars
  <2>1. Applied(cat, ch) = [cat EXCEPT ![ch.field] = ch.after] /\ ch.after \in Texts
    BY <1>2 DEF Applied, FitsField
  <2>2. ch.field = "city" \/ ch.field = "officialUrl"
    BY <1>2 DEF Scalars
  <2>3. [cat EXCEPT ![ch.field] = ch.after] \in Catalog
        /\ [cat EXCEPT ![ch.field] = ch.after].known = cat.known
        /\ [cat EXCEPT ![ch.field] = ch.after].entries = cat.entries
    BY <2>1, <2>2 DEF Catalog
  <2> QED BY <2>1, <2>3 DEF SoundLineup
<1>3. CASE ch.field \notin Scalars
  <2>1. Applied(cat, ch) = Replaced(cat, BillingOf(ch.field), ch.after)
        /\ MayReplace(cat, BillingOf(ch.field), ch.after) /\ ch.after \in Bill
    BY <1>3 DEF Applied, FitsField, MayApply
  <2>2. BillingOf(ch.field) \in Billings
    BY DEF BillingOf, Billings
  <2> QED BY <2>1, <2>2, ReplacedSound
<1> QED BY <1>2, <1>3

\* The approval of c moves the changes that wait with it to the next revision.
MovedAlong(x, c) ==
    x # c /\ changes[c].draft # Absent /\ Pending(x) /\ changes[x].draft = changes[c].draft

LEMMA ApprovedRows ==
    ASSUME IInv, NEW c \in DOMAIN changes, Approve(c)
    PROVE  /\ Deciding(c, "APPROVED") /\ changes' \in Seq({Absent} \cup Change)
           /\ \A x \in DOMAIN changes \ {c} : changes'[x] =
                  IF MovedAlong(x, c)
                  THEN [changes[x] EXCEPT !.base = resources[changes[c].kind].revision + 1]
                  ELSE changes[x]
<1> DEFINE next == resources[changes[c].kind].revision + 1
           Row == {Absent} \cup Change
<1>1. Pending(c) /\ changes \in Seq(Row)
  BY DEF Approve, IInv, Typed, RowsTyped
<1>2. changes' = [x \in DOMAIN changes |->
          CASE x = c -> [changes[c] EXCEPT !.status = "APPROVED"]
            [] MovedAlong(x, c) -> [changes[x] EXCEPT !.base = next]
            [] OTHER -> changes[x]]
  BY DEF Approve, MovedAlong
<1>3. changes[c] \in Change
  BY <1>1 DEF Pending
<1>4. next \in Nat
  BY <1>3 DEF IInv, Typed, Change
<1>5. \A x \in DOMAIN changes \ {c} : MovedAlong(x, c) => changes[x] \in Change
  BY <1>1 DEF MovedAlong, Pending
<1> HIDE DEF next
<1>6. [changes[c] EXCEPT !.status = "APPROVED"] \in Change
      /\ \A x \in DOMAIN changes \ {c} : MovedAlong(x, c) =>
             [changes[x] EXCEPT !.base = next] \in Change
  BY <1>3, <1>4, <1>5 DEF Change
<1> HIDE DEF Row
<1>7. /\ DOMAIN changes' = DOMAIN changes
      /\ changes'[c] = [changes[c] EXCEPT !.status = "APPROVED"]
      /\ \A x \in DOMAIN changes \ {c} : changes'[x] =
             IF MovedAlong(x, c) THEN [changes[x] EXCEPT !.base = next] ELSE changes[x]
  <2>1. ~MovedAlong(c, c)
    BY DEF MovedAlong
  <2> QED BY <1>2, <2>1
<1>8. DOMAIN changes = 1..Len(changes) /\ Len(changes) \in Nat
      /\ \A x \in DOMAIN changes : changes[x] \in Row
  BY <1>1
<1>9. \A x \in 1..Len(changes) : changes'[x] \in Row
  BY <1>6, <1>7, <1>8 DEF Row
<1>10. changes' \in [1..Len(changes) -> Row]
  <2>1. changes' = [x \in 1..Len(changes) |-> changes'[x]]
    BY <1>2, <1>8
  <2> QED BY <1>9, <2>1
<1>11. changes' \in Seq(Row)
  BY <1>8, <1>10, ListOf
<1>12. Deciding(c, "APPROVED")
  <2>1. \A x \in DOMAIN changes \ {c} : ~Pending(x) => ~MovedAlong(x, c)
    BY DEF MovedAlong
  <2> QED BY <1>1, <1>7, <2>1 DEF Deciding
<1> QED BY <1>7, <1>11, <1>12 DEF Row, next

LEMMA ApprovedKept ==
    ASSUME IInv, NEW c \in DOMAIN changes, Approve(c)
    PROVE  RowsTyped' /\ Filed' /\ OnePerField' /\ SavedOver'
<1> DEFINE k == changes[c].kind
           f == changes[c].field
           revision == resources[k].revision
<1>1. /\ Deciding(c, "APPROVED") /\ changes' \in Seq({Absent} \cup Change)
      /\ \A x \in DOMAIN changes \ {c} : changes'[x] =
             IF MovedAlong(x, c) THEN [changes[x] EXCEPT !.base = revision + 1]
             ELSE changes[x]
  BY ApprovedRows
<1>2. DOMAIN changes' = DOMAIN changes /\ Pending(c) /\ changes[c] # Absent
  BY <1>1 DEF Deciding, Pending
<1>3. /\ changes[c] \in Change /\ changes'[c] \in Change /\ ~Pending(c)'
      /\ changes'[c].draft = changes[c].draft /\ changes'[c].kind = k
      /\ changes'[c].field = f /\ changes'[c].after = changes[c].after
  BY <1>1, DecidingRows DEF IInv
<1>4. k \in Kinds /\ f \in Fields /\ revision \in Nat
  BY <1>3 DEF IInv, Typed, Change
<1>5. \A x \in DOMAIN changes : changes[x] # Absent => changes[x] \in Change
  BY DEF IInv, Typed, RowsTyped
<1>6. \A x \in DOMAIN changes \ {c} : changes'[x] # Absent =>
          /\ changes[x] # Absent
          /\ changes'[x].draft = changes[x].draft /\ changes'[x].kind = changes[x].kind
          /\ changes'[x].field = changes[x].field /\ changes'[x].after = changes[x].after
          /\ changes'[x].before = changes[x].before
          /\ changes'[x].status = changes[x].status
          /\ changes'[x].base = IF MovedAlong(x, c) THEN revision + 1 ELSE changes[x].base
  <2> SUFFICES ASSUME NEW x \in DOMAIN changes \ {c}, changes'[x] # Absent
        PROVE  /\ changes[x] # Absent
          /\ changes'[x].draft = changes[x].draft /\ changes'[x].kind = changes[x].kind
          /\ changes'[x].field = changes[x].field /\ changes'[x].after = changes[x].after
          /\ changes'[x].before = changes[x].before
          /\ changes'[x].status = changes[x].status
          /\ changes'[x].base = IF MovedAlong(x, c) THEN revision + 1 ELSE changes[x].base
    OBVIOUS
  <2>1. CASE ~MovedAlong(x, c)
    BY <1>1, <2>1
  <2>2. CASE MovedAlong(x, c)
    <3>1. changes[x] # Absent
      BY <2>2 DEF MovedAlong, Pending
    <3>2. changes[x] \in Change /\ changes'[x] = [changes[x] EXCEPT !.base = revision + 1]
      BY <1>1, <1>5, <2>2, <3>1
    <3> HIDE DEF revision
    <3> QED BY <2>2, <3>1, <3>2 DEF Change
  <2> QED BY <2>1, <2>2
<1>7. resources' = [resources EXCEPT ![k].revision = revision + 1, ![k].values[f] = changes[c].after]
  BY DEF Approve
<1>8. /\ resources[k].revision \in Nat /\ resources'[k].revision = revision + 1
      /\ \A g \in Fields \ {f} : resources'[k].values[g] = resources[k].values[g]
      /\ \A l \in Kinds \ {k} : resources'[l] = resources[l]
  <2>1. resources \in [Kinds -> [revision : Nat, values : [Fields -> Value]]]
    BY DEF IInv, Typed
  <2> HIDE DEF k, f
  <2> QED BY <1>4, <1>7, <2>1
<1>9. Ids' = Ids
  BY Closing DEF Approve
<1>10. RowsTyped'
  <2>1. \A x \in DOMAIN changes : changes[x] # Absent => FitsField(changes[x])
    BY DEF IInv, Typed, RowsTyped
  <2>2. \A x \in DOMAIN changes' : changes'[x] # Absent => FitsField(changes'[x])
    BY <1>2, <1>3, <1>6, <2>1 DEF FitsField
  <2> QED BY <1>1, <2>2 DEF RowsTyped, FitsField
<1>11. Filed'
  BY <1>2, <1>3, <1>6, <1>9 DEF IInv, Filed, Drafted
<1>12. \A x \in DOMAIN changes : Drafted(x)' /\ Pending(x)' =>
           x # c /\ Drafted(x) /\ Pending(x) /\ changes'[x] # Absent
  BY <1>2, <1>3, <1>6 DEF Drafted, Pending
<1>13. OnePerField'
  <2> SUFFICES ASSUME NEW x \in DOMAIN changes, NEW y \in DOMAIN changes, x # y,
               Drafted(x)', Drafted(y)', Pending(x)', Pending(y)',
               changes'[x].draft = changes'[y].draft
        PROVE  changes'[x].base = changes'[y].base /\ changes'[x].field # changes'[y].field
    BY <1>2 DEF OnePerField
  <2>1. /\ x # c /\ Drafted(x) /\ Pending(x) /\ changes'[x] # Absent
        /\ y # c /\ Drafted(y) /\ Pending(y) /\ changes'[y] # Absent
    BY <1>12
  <2>2. changes[x].draft = changes[y].draft
    BY <1>6, <2>1
  <2>3. changes[x].base = changes[y].base /\ changes[x].field # changes[y].field
    BY <2>1, <2>2 DEF IInv, OnePerField
  <2>4. MovedAlong(x, c) <=> MovedAlong(y, c)
    BY <2>1, <2>2 DEF MovedAlong
  <2> QED BY <1>6, <2>1, <2>3, <2>4
<1>14. SavedOver'
  <2> SUFFICES ASSUME NEW x \in DOMAIN changes, Drafted(x)', Pending(x)'
        PROVE  /\ changes'[x].base <= resources'[changes'[x].kind].revision
               /\ changes'[x].base = resources'[changes'[x].kind].revision =>
                      changes'[x].before
                          = resources'[changes'[x].kind].values[changes'[x].field]
    BY <1>2 DEF SavedOver, Current
  <2>1. x # c /\ Drafted(x) /\ Pending(x) /\ changes'[x] # Absent
    BY <1>12
  <2>2. /\ changes[x].base <= resources[changes[x].kind].revision
        /\ changes[x].base = resources[changes[x].kind].revision =>
               changes[x].before = resources[changes[x].kind].values[changes[x].field]
    BY <2>1 DEF IInv, SavedOver, Current
  <2>3. /\ changes'[x].kind = changes[x].kind /\ changes'[x].field = changes[x].field
        /\ changes'[x].before = changes[x].before
        /\ changes'[x].base = IF MovedAlong(x, c) THEN revision + 1 ELSE changes[x].base
        /\ changes[x] \in Change /\ changes[x].kind \in Kinds /\ changes[x].field \in Fields
        /\ changes[x].base \in Nat
    BY <1>5, <1>6, <2>1 DEF Drafted, Change
  <2>4. CASE MovedAlong(x, c)
    <3>1. Drafted(c) /\ changes[x].draft = changes[c].draft
      BY <1>2, <2>4 DEF MovedAlong, Drafted
    <3>2. changes[x].kind = k
      BY <2>1, <3>1 DEF IInv, Filed
    <3>3. changes[x].base = changes[c].base /\ changes[x].field # f
      BY <1>2, <2>1, <3>1 DEF IInv, OnePerField
    <3>4. changes[c].base = revision
      BY DEF Approve, Current
    <3>5. changes[x].before = resources[k].values[changes[x].field]
      BY <2>2, <3>2, <3>3, <3>4
    <3> HIDE DEF revision, k, f
    <3> QED BY <1>4, <1>8, <2>3, <2>4, <3>2, <3>3, <3>5
  <2>5. CASE ~MovedAlong(x, c) /\ changes[x].kind = k
    <3> HIDE DEF k, f
    <3> QED BY <1>4, <1>8, <2>2, <2>3, <2>5 DEF revision
  <2>6. CASE ~MovedAlong(x, c) /\ changes[x].kind # k
    <3> HIDE DEF k, f, revision
    <3> QED BY <1>8, <2>2, <2>3, <2>6
  <2> QED BY <2>4, <2>5, <2>6
<1> QED BY <1>10, <1>11, <1>13, <1>14

\* What is published with the approval of c.
LEMMA ApprovedLedger ==
    ASSUME IInv, NEW c \in DOMAIN changes, Approve(c)
    PROVE  /\ Decided' /\ Counted'
           /\ publications' \in SUBSET Publication /\ IsFiniteSet(publications')
           /\ changes[c].kind # "PLAYLIST" =>
                \A f \in {changes[c].field} \ {g \in Fields : Shown(catalog, g) = changes[c].after} :
                  \E p \in publications' \ publications :
                      /\ publications' = publications \cup {p} /\ f \in p.fields
                      /\ p.source[1] = "admin"
                      /\ f \notin Scalars => p.refresh
<1> DEFINE fields == {changes[c].field} \ {g \in Fields : Shown(catalog, g) = changes[c].after}
<1>1. Deciding(c, "APPROVED")
  BY ApprovedRows
<1>2. c \in Nat /\ changes[c] \in Change /\ ~Pending(c)' /\ Pending(c)
  BY <1>1, DecidingRows DEF IInv, Deciding
<1>3. \A x \in DOMAIN changes : ~Pending(x) => ~Pending(x)'
  BY <1>1, <1>2 DEF Deciding, Pending
<1>4. DOMAIN changes' = DOMAIN changes
  BY <1>1 DEF Deciding
<1>5. fields \in SUBSET Fields
  BY <1>2 DEF Change
<1>6. \A p \in publications : p.source # <<"admin", c>>
  <2> SUFFICES ASSUME NEW p \in publications, p.source = <<"admin", c>> PROVE FALSE
    OBVIOUS
  <2>1. p.source[1] = "admin" /\ p.source[2] = c
    OBVIOUS
  <2> QED BY <1>2, <2>1 DEF IInv, Decided
<1>7. /\ publications' \in SUBSET Publication /\ IsFiniteSet(publications')
      /\ \A p \in publications' \ publications : p.source = <<"admin", c>>
      /\ publications \subseteq publications'
      /\ changes[c].kind # "PLAYLIST" =>
           \A f \in fields : \E p \in publications' \ publications :
                      /\ publications' = publications \cup {p} /\ f \in p.fields
                      /\ p.source[1] = "admin"
                      /\ p.refresh <=> fields \cap {"headliners", "lineup"} # {}
  <2>1. CASE changes[c].kind = "PLAYLIST"
    <3>1. publications' = publications
      BY <2>1 DEF Approve
    <3> QED BY <2>1, <3>1 DEF IInv, Typed
  <2>2. CASE changes[c].kind # "PLAYLIST"
    <3>1. Publish(<<"admin", c>>, fields, FALSE)
      BY <2>2 DEF Approve
    <3>2. Typed
      BY DEF IInv
    <3>3. PICK fs, n : fs = fields /\ n = c
      OBVIOUS
    <3> HIDE DEF fields
    <3>4. Publish(<<"admin", n>>, fs, FALSE) /\ n \in Nat /\ fs \in SUBSET Fields
          /\ \A p \in publications : p.source # <<"admin", n>>
      BY <1>2, <1>5, <1>6, <3>1, <3>3
    <3>5. FALSE \in BOOLEAN /\ "admin" \in {"admin", "ingestion", "agent"}
      OBVIOUS
    <3>6. /\ publications' \in SUBSET Publication /\ IsFiniteSet(publications')
          /\ publications \subseteq publications'
          /\ \A p \in publications' \ publications : p.source = <<"admin", n>>
          /\ \A f \in fs : \E p \in publications' \ publications :
                      /\ publications' = publications \cup {p} /\ f \in p.fields
                      /\ p.source[1] = "admin"
                      /\ p.refresh <=> ~FALSE /\ fs \cap {"headliners", "lineup"} # {}
      BY <3>2, <3>4, <3>5, Publishing
    <3> QED BY <3>3, <3>6
  <2> QED BY <2>1, <2>2
<1>8. Decided'
  <2> SUFFICES ASSUME NEW p \in publications', p.source[1] = "admin"
        PROVE  p.source[2] \in DOMAIN changes' /\ ~Pending(p.source[2])'
    BY DEF Decided
  <2>1. CASE p \in publications
    BY <1>3, <1>4, <2>1 DEF IInv, Decided
  <2>2. CASE p \notin publications
    <3>1. p.source[2] = c
      BY <1>7, <2>2
    <3> QED BY <1>2, <1>4, <3>1
  <2> QED BY <2>1, <2>2
<1>9. Counted'
  <2>1. \A p \in publications' \ publications : p.source[1] = "admin"
    BY <1>7
  <2>2. \A q \in {"ingestion", "agent"} : By(q)' = By(q)
    BY <1>7, <2>1 DEF By
  <2> SUFFICES ASSUME NEW p \in publications', p.source[1] # "admin"
        PROVE  p.source[2] < Cardinality(By(p.source[1])')
    BY DEF Counted, By
  <2>3. p \in publications /\ p.source[1] \in {"ingestion", "agent"}
    BY <1>7, <2>1 DEF Publication
  <2>4. p.source[2] < Cardinality(By(p.source[1]))
    BY <2>3 DEF IInv, Counted
  <2>5. By(p.source[1])' = By(p.source[1])
    BY <2>2, <2>3
  <2> QED BY <2>4, <2>5
<1>10. \A f \in fields : f \notin Scalars => fields \cap {"headliners", "lineup"} # {}
  BY <1>5 DEF Fields
<1> QED BY <1>7, <1>8, <1>9, <1>10

LEMMA ApproveInv ==
    ASSUME IInv, NEW c \in DOMAIN changes, Approve(c)
    PROVE  IInv'
<1>1. RowsTyped' /\ Filed' /\ OnePerField' /\ SavedOver'
  BY ApprovedKept
<1>2. /\ Decided' /\ Counted'
      /\ publications' \in SUBSET Publication /\ IsFiniteSet(publications')
  BY ApprovedLedger
<1>3. drafts' \in SUBSET Draft /\ DraftsNamed'
  BY Closing DEF Approve
<1>4. Pending(c) /\ changes[c] \in Change /\ FitsField(changes[c])
  BY DEF Approve, Pending, IInv, Typed, RowsTyped
<1>5. catalog' \in Catalog /\ SoundLineup(catalog')
  <2>1. catalog \in Catalog /\ SoundLineup(catalog)
    BY DEF IInv, Typed
  <2>2. CASE changes[c].kind = "PLAYLIST"
    <3>1. catalog' = catalog
      BY <2>2 DEF Approve
    <3> QED BY <2>1, <3>1
  <2>3. CASE changes[c].kind # "PLAYLIST"
    <3>1. PICK ch : ch = changes[c]
      OBVIOUS
    <3>2. MayApply(catalog, ch) /\ catalog' = Applied(catalog, ch)
      BY <2>3, <3>1 DEF Approve
    <3>3. PICK cat : cat = catalog
      OBVIOUS
    <3> QED BY <1>4, <2>1, <3>1, <3>2, <3>3, AppliedSound
  <2> QED BY <2>2, <2>3
<1>6. resources' \in [Kinds -> [revision : Nat, values : [Fields -> Value]]]
  <2>1. resources \in [Kinds -> [revision : Nat, values : [Fields -> Value]]]
    BY DEF IInv, Typed
  <2>2. PICK k, f, v : k = changes[c].kind /\ f = changes[c].field /\ v = changes[c].after
    OBVIOUS
  <2>3. k \in Kinds /\ f \in Fields /\ v \in Value
    BY <1>4, <2>2 DEF Change
  <2>4. resources' = [resources EXCEPT ![k].revision = @ + 1, ![k].values[f] = v]
    BY <2>2 DEF Approve
  <2>5. resources[k].revision + 1 \in Nat
    BY <2>1, <2>3
  <2> QED BY <2>1, <2>3, <2>4, <2>5
<1>7. UNCHANGED <<run, candidate, agentSaw>>
  BY DEF Approve
<1>8. Typed' /\ SoundLineup(catalog)'
  BY <1>1, <1>2, <1>3, <1>5, <1>6, <1>7 DEF IInv, Typed, SoundLineup
<1> QED BY <1>1, <1>2, <1>3, <1>8 DEF IInv

\* A step that touches none of the tables.
LEMMA AsideInv ==
    ASSUME IInv, UNCHANGED <<catalog, publications, resources, drafts, changes>>,
           run' \in [status : {"none", "RUNNING", "FAILED", "SUCCEEDED"}, saw : {Absent} \cup Catalog],
           candidate' = Absent \/ candidate' \in [page : Pages, saw : Catalog],
           agentSaw' \in {Absent} \cup Catalog
    PROVE  IInv'
<1>1. Typed' /\ SoundLineup(catalog)'
  BY DEF IInv, Typed, SoundLineup, RowsTyped, FitsField
<1>2. DraftsNamed' /\ Filed' /\ OnePerField' /\ SavedOver'
  BY DEF IInv, DraftsNamed, Filed, Ids, Drafted, OnePerField, SavedOver, Pending, Current
<1>3. Decided' /\ Counted'
  BY DEF IInv, Decided, Counted, Pending, By
<1> QED BY <1>1, <1>2, <1>3 DEF IInv

LEMMA RefreshStartInv == ASSUME IInv, RefreshStart PROVE IInv'
<1>1. run' = [status |-> "RUNNING", saw |-> catalog] /\ catalog \in Catalog
      /\ UNCHANGED <<catalog, publications, resources, drafts, changes, candidate, agentSaw>>
  BY DEF RefreshStart, IInv, Typed
<1> QED BY <1>1, AsideInv DEF IInv, Typed

LEMMA RefreshEndInv == ASSUME IInv, RefreshEnd PROVE IInv'
<1>1. /\ run' \in [status : {"none", "RUNNING", "FAILED", "SUCCEEDED"}, saw : {Absent} \cup Catalog]
      /\ UNCHANGED <<catalog, publications, resources, drafts, changes, candidate, agentSaw>>
  BY DEF RefreshEnd
<1> QED BY <1>1, AsideInv DEF IInv, Typed

LEMMA ObserveInv == ASSUME IInv, NEW page \in Pages, Observe(page) PROVE IInv'
<1>1. candidate' = [page |-> page, saw |-> catalog] /\ catalog \in Catalog
      /\ UNCHANGED <<catalog, publications, resources, drafts, changes, run, agentSaw>>
  BY DEF Observe, IInv, Typed
<1> QED BY <1>1, AsideInv DEF IInv, Typed

LEMMA SnapshotInv == ASSUME IInv, Snapshot \/ GiveUp PROVE IInv'
<1>1. agentSaw' \in {Absent, catalog} /\ catalog \in Catalog
      /\ UNCHANGED <<catalog, publications, resources, drafts, changes, run, candidate>>
  BY DEF Snapshot, GiveUp, IInv, Typed
<1> QED BY <1>1, AsideInv DEF IInv, Typed

\* The changes of a parser are queued behind the others, and are on no draft.
LEMMA RefreshQueueRows ==
    ASSUME IInv, NEW page \in Pages, RefreshQueue(page)
    PROVE  /\ run' \in [status : {"none", "RUNNING", "FAILED", "SUCCEEDED"},
                        saw : {Absent} \cup Catalog]
           /\ RowsTyped' /\ DOMAIN changes \subseteq DOMAIN changes'
           /\ \A c \in DOMAIN changes' : \/ c \in DOMAIN changes /\ changes'[c] = changes[c]
                                         \/ c \notin DOMAIN changes /\ changes'[c].draft = Absent
<1> DEFINE fields == ParserFields(page, run.saw)
           Nth(n) == SetToSeq(fields)[n]
           seen(f) == IF f = "lineup" THEN Names(run.saw.entries, "LINEUP") ELSE run.saw[f]
           new == [n \in 1..Cardinality(fields) |->
                     [kind |-> "FESTIVAL", field |-> Nth(n), base |-> 0, draft |-> Absent,
                      before |-> seen(Nth(n)), after |-> page[Nth(n)], parser |-> TRUE,
                      status |-> "PENDING"]]
           Row == {Absent} \cup Change
           N == Len(changes)
<1>1. /\ changes' = changes \o new /\ run' = [run EXCEPT !.saw = Absent] /\ run.saw # Absent
      /\ UNCHANGED <<catalog, publications, resources, drafts, candidate, agentSaw>>
  BY DEF RefreshQueue
<1>2. run.saw \in Catalog
      /\ run' \in [status : {"none", "RUNNING", "FAILED", "SUCCEEDED"}, saw : {Absent} \cup Catalog]
  BY <1>1 DEF IInv, Typed
<1>3. /\ fields \in SUBSET Fields /\ fields \subseteq {"city", "lineup"}
      /\ "city" \in fields => page.city \in Texts
      /\ "lineup" \in fields => page.lineup \in Bill
  <2>1. /\ "city" \in DOMAIN page => page.city \in Texts
        /\ "lineup" \in DOMAIN page => page.lineup \in Bill
    BY ReviewAssumption DEF ReviewAssumption
  <2>2. fields \subseteq {"city", "lineup"} /\ fields \subseteq DOMAIN page
    BY DEF ParserFields
  <2> HIDE DEF fields
  <2> QED BY <2>1, <2>2 DEF Fields, Scalars
<1>4. Cardinality(fields) \in Nat /\ \A n \in 1..Cardinality(fields) : Nth(n) \in fields
  BY <1>3, InTurn
<1>5. \A f \in fields :
          /\ seen(f) \in Value \cup {Names(c.entries, "LINEUP") : c \in Catalog}
          /\ page[f] \in Value /\ page[f] \in IF f \in Scalars THEN Texts ELSE Bill
  <2>1. ASSUME "city" \in fields
        PROVE  seen("city") \in Texts /\ page["city"] \in Texts
    BY <1>2, <1>3, <2>1 DEF Catalog
  <2>2. ASSUME "lineup" \in fields
        PROVE  /\ seen("lineup") \in {Names(c.entries, "LINEUP") : c \in Catalog}
               /\ page["lineup"] \in Bill
    BY <1>2, <1>3, <2>2
  <2>3. "city" \in Scalars /\ "lineup" \notin Scalars
    BY DEF Scalars
  <2> HIDE DEF seen, fields
  <2> QED BY <1>3, <2>1, <2>2, <2>3 DEF Value
<1> HIDE DEF fields, Nth, seen
<1>6. ASSUME NEW n \in 1..Cardinality(fields)
      PROVE  new[n] \in Change /\ FitsField(new[n]) /\ new[n].draft = Absent
  <2>1. "FESTIVAL" \in Kinds /\ Nth(n) \in Fields
    BY <1>3, <1>4 DEF Kinds
  <2>2. /\ seen(Nth(n)) \in Value \cup {Names(c.entries, "LINEUP") : c \in Catalog}
        /\ page[Nth(n)] \in Value
        /\ page[Nth(n)] \in IF Nth(n) \in Scalars THEN Texts ELSE Bill
    BY <1>4, <1>5
  <2> QED BY <2>1, <2>2 DEF Change, FitsField
<1>7. DOMAIN new = 1..Cardinality(fields)
  OBVIOUS
<1> HIDE DEF new
<1>8. new \in Seq(Row) /\ DOMAIN new = 1..Len(new) /\ Len(new) \in Nat
  <2>1. new = [n \in 1..Cardinality(fields) |-> new[n]]
    BY <1>7 DEF new
  <2>2. new \in [1..Cardinality(fields) -> Row]
    BY <1>6, <2>1
  <2> HIDE DEF Row
  <2> QED BY <1>4, <1>7, <2>2, ListOf
<1>9. \A n \in DOMAIN new : FitsField(new[n]) /\ new[n].draft = Absent
  BY <1>6, <1>7
<1> HIDE DEF Row
<1>10. changes \in Seq(Row) /\ DOMAIN changes = 1..N /\ N \in Nat
  BY DEF IInv, Typed, RowsTyped, Row
<1>11. /\ changes' \in Seq(Row) /\ DOMAIN changes' = 1..(N + Len(new))
       /\ \A c \in 1..N : changes'[c] = changes[c]
       /\ \A c \in (1..(N + Len(new))) \ (1..N) :
              c - N \in 1..Len(new) /\ changes'[c] = new[c - N]
  BY <1>1, <1>8, <1>10, Appended
<1>12. DOMAIN changes \subseteq DOMAIN changes'
  BY <1>8, <1>10, <1>11
<1>13. \A c \in DOMAIN changes' : \/ c \in DOMAIN changes /\ changes'[c] = changes[c]
                                  \/ c \notin DOMAIN changes /\ FitsField(changes'[c])
                                     /\ changes'[c].draft = Absent
  BY <1>8, <1>9, <1>10, <1>11
<1>14. RowsTyped'
  <2>1. \A c \in DOMAIN changes : changes[c] # Absent => FitsField(changes[c])
    BY DEF IInv, Typed, RowsTyped
  <2>2. \A c \in DOMAIN changes' : changes'[c] # Absent => FitsField(changes'[c])
    BY <1>13, <2>1
  <2> QED BY <1>11, <2>2 DEF RowsTyped, FitsField, Row
<1> QED BY <1>2, <1>12, <1>13, <1>14

LEMMA RefreshQueueInv == ASSUME IInv, NEW page \in Pages, RefreshQueue(page) PROVE IInv'
<1>1. UNCHANGED <<catalog, publications, resources, drafts, candidate, agentSaw>>
  BY DEF RefreshQueue
<1>2. /\ run' \in [status : {"none", "RUNNING", "FAILED", "SUCCEEDED"}, saw : {Absent} \cup Catalog]
      /\ RowsTyped' /\ DOMAIN changes \subseteq DOMAIN changes'
      /\ \A c \in DOMAIN changes' : \/ c \in DOMAIN changes /\ changes'[c] = changes[c]
                                    \/ c \notin DOMAIN changes /\ changes'[c].draft = Absent
  BY RefreshQueueRows
<1>3. \A c \in DOMAIN changes' : changes'[c] # Absent /\ changes'[c].draft # Absent =>
           c \in DOMAIN changes /\ changes'[c] = changes[c]
  BY <1>2
<1>4. Filed' /\ OnePerField' /\ SavedOver'
  BY <1>1, <1>3 DEF IInv, Filed, Ids, Drafted, OnePerField, SavedOver, Pending, Current
<1>5. \A c \in DOMAIN changes : c \in DOMAIN changes' /\ changes'[c] = changes[c]
  BY <1>2
<1>6. Decided' /\ Counted'
  BY <1>1, <1>5 DEF IInv, Decided, Counted, Pending, By
<1>7. Typed' /\ SoundLineup(catalog)' /\ DraftsNamed'
  BY <1>1, <1>2 DEF IInv, Typed, SoundLineup, RowsTyped, DraftsNamed
<1> QED BY <1>2, <1>4, <1>6, <1>7 DEF IInv

\* A publication of the ingestion or of the agent.
LEMMA PublishedBy ==
    ASSUME IInv, NEW path \in {"ingestion", "agent"}, NEW fields \in SUBSET Fields,
           NEW deferred \in BOOLEAN, UNCHANGED changes,
           Publish(<<path, Cardinality(By(path))>>, fields, deferred)
    PROVE  /\ publications' \in SUBSET Publication /\ IsFiniteSet(publications')
           /\ Decided' /\ Counted'
           /\ \A f \in fields : \E p \in publications' \ publications :
                  publications' = publications \cup {p} /\ f \in p.fields /\ p.source[1] = path
<1>1. Typed /\ Counted /\ Decided
  BY DEF IInv
<1>2. /\ Cardinality(By(path)) \in Nat /\ Counted'
      /\ \A p \in publications : p.source # <<path, Cardinality(By(path))>>
  BY <1>1, Numbering
<1>3. PICK n : n = Cardinality(By(path))
  OBVIOUS
<1>4. /\ publications' \in SUBSET Publication /\ IsFiniteSet(publications')
      /\ \A p \in publications' \ publications : p.source = <<path, n>>
      /\ \A f \in fields : \E p \in publications' \ publications :
             publications' = publications \cup {p} /\ f \in p.fields /\ p.source[1] = path
  <2>1. Publish(<<path, n>>, fields, deferred) /\ n \in Nat
        /\ path \in {"admin", "ingestion", "agent"}
        /\ \A p \in publications : p.source # <<path, n>>
    BY <1>2, <1>3
  <2>2. ASSUME deferred = TRUE
        PROVE  /\ publications' \in SUBSET Publication /\ IsFiniteSet(publications')
               /\ \A p \in publications' \ publications : p.source = <<path, n>>
               /\ \A f \in fields : \E p \in publications' \ publications :
                      /\ publications' = publications \cup {p} /\ f \in p.fields
                      /\ p.source[1] = path
                      /\ p.refresh <=> ~TRUE /\ fields \cap {"headliners", "lineup"} # {}
    <3>1. Publish(<<path, n>>, fields, TRUE)
      BY <2>1, <2>2
    <3> QED BY <1>1, <2>1, <3>1, Publishing
  <2>3. ASSUME deferred = FALSE
        PROVE  /\ publications' \in SUBSET Publication /\ IsFiniteSet(publications')
               /\ \A p \in publications' \ publications : p.source = <<path, n>>
               /\ \A f \in fields : \E p \in publications' \ publications :
                      /\ publications' = publications \cup {p} /\ f \in p.fields
                      /\ p.source[1] = path
                      /\ p.refresh <=> ~FALSE /\ fields \cap {"headliners", "lineup"} # {}
    <3>1. Publish(<<path, n>>, fields, FALSE)
      BY <2>1, <2>3
    <3> QED BY <1>1, <2>1, <3>1, Publishing
  <2> QED BY <2>2, <2>3
<1>5. Decided'
  <2>1. \A p \in publications' : p.source[1] = "admin" => p \in publications
    BY <1>4
  <2> QED BY <1>1, <2>1 DEF Decided, Pending
<1> QED BY <1>2, <1>4, <1>5

\* A publication that leaves the review alone.
LEMMA PublishedInv ==
    ASSUME IInv, catalog' \in Catalog, SoundLineup(catalog'),
           publications' \in SUBSET Publication, IsFiniteSet(publications'),
           Decided', Counted',
           UNCHANGED <<resources, drafts, changes, run>>,
           candidate' \in {candidate, Absent}, agentSaw' \in {agentSaw, Absent}
    PROVE  IInv'
<1>1. RowsTyped'
  BY DEF IInv, Typed, RowsTyped, FitsField
<1>2. Typed'
  BY <1>1 DEF IInv, Typed
<1>3. DraftsNamed' /\ Filed' /\ OnePerField' /\ SavedOver'
  BY DEF IInv, DraftsNamed, Filed, Ids, Drafted, OnePerField, SavedOver, Pending, Current
<1> QED BY <1>2, <1>3 DEF IInv, SoundLineup

\* What a candidate adds.  A page that shows no lineup adds nothing.
Enlarged(cat, page, added) == Extended(WithCity(cat, page), "LINEUP", page.lineup, added)

LEMMA WithCitySound ==
    ASSUME NEW cat \in Catalog, NEW page \in Pages
    PROVE  /\ WithCity(cat, page) \in Catalog
           /\ WithCity(cat, page).known = cat.known
           /\ WithCity(cat, page).entries = cat.entries
           /\ WithCity(cat, page).officialUrl = cat.officialUrl
           /\ WithCity(cat, page).city = IF "city" \in DOMAIN page THEN page.city ELSE cat.city
<1>1. "city" \in DOMAIN page => page.city \in Texts
  BY ReviewAssumption DEF ReviewAssumption
<1>2. CASE "city" \in DOMAIN page
  <2>1. WithCity(cat, page) = [cat EXCEPT !.city = page.city]
    BY <1>2 DEF WithCity
  <2> QED BY <1>1, <1>2, <2>1 DEF Catalog
<1>3. CASE "city" \notin DOMAIN page
  BY <1>3 DEF WithCity
<1> QED BY <1>2, <1>3

LEMMA EnlargedIs ==
    ASSUME NEW cat \in Catalog, NEW page \in Pages, NEW added
    PROVE  LET next == Enlarged(cat, page, added)
           IN  /\ next.city = WithCity(cat, page).city /\ next.officialUrl = cat.officialUrl
               /\ \A a \in Artists :
                      IF a \in added /\ cat.entries[a] = Absent
                      THEN next.entries[a].billing = "LINEUP"
                      ELSE next.entries[a] = cat.entries[a]
<1> DEFINE new == {a \in added : cat.entries[a] = Absent}
           earlier(a) == {x \in new : Place(page.lineup, x) < Place(page.lineup, a)}
           at == [a \in Artists |-> Behind(cat.entries, "LINEUP") + Cardinality(earlier(a))]
           with == WithCity(cat, page)
           next == Enlarged(cat, page, added)
<1>1. with \in Catalog /\ with.entries = cat.entries /\ with.known = cat.known
      /\ with.officialUrl = cat.officialUrl
  BY WithCitySound
<1>2. next = [with EXCEPT !.known = with.known \cup added,
                          !.entries = [a \in Artists |->
                IF a \in new THEN Entry("LINEUP", at[a]) ELSE cat.entries[a]]]
  <2>1. \A a \in Artists : at[a] = Behind(cat.entries, "LINEUP") + Cardinality(earlier(a))
    OBVIOUS
  <2>2. next = [with EXCEPT !.known = with.known \cup added,
                          !.entries = [a \in Artists |->
                IF a \in new
                THEN Entry("LINEUP", Behind(cat.entries, "LINEUP") + Cardinality(earlier(a)))
                ELSE cat.entries[a]]]
    BY <1>1 DEF Enlarged, Extended
  <2> HIDE DEF new, earlier, at, with, next
  <2> QED BY <2>1, <2>2
<1> HIDE DEF new, at, with, next
<1>3. /\ next.city = with.city /\ next.officialUrl = cat.officialUrl
      /\ next.entries = [a \in Artists |->
             IF a \in new THEN Entry("LINEUP", at[a]) ELSE cat.entries[a]]
  BY <1>1, <1>2 DEF Catalog
<1>4. \A p : Entry("LINEUP", p).billing = "LINEUP"
  BY DEF Entry
<1>5. \A a \in Artists :
          IF a \in new THEN next.entries[a].billing = "LINEUP"
          ELSE next.entries[a] = cat.entries[a]
  BY <1>3, <1>4
<1> QED BY <1>3, <1>5 DEF new, with, next

LEMMA EnlargedSound ==
    ASSUME NEW cat \in Catalog, SoundLineup(cat), NEW page \in Pages, NEW saw \in Catalog,
           MayAdd(cat, "LINEUP", Additions(page, saw))
    PROVE  /\ Enlarged(cat, page, Additions(page, saw)) \in Catalog
           /\ SoundLineup(Enlarged(cat, page, Additions(page, saw)))
<1>1. PICK with, added : with = WithCity(cat, page) /\ added = Additions(page, saw)
  OBVIOUS
<1>2. with \in Catalog /\ with.known = cat.known /\ with.entries = cat.entries
  BY <1>1, WithCitySound
<1>3. SoundLineup(with) /\ MayAdd(with, "LINEUP", added)
  BY <1>1, <1>2 DEF SoundLineup, MayAdd, Identified
<1>4. CASE "lineup" \in DOMAIN page
  <2>1. page.lineup \in Bill
    BY <1>4, ReviewAssumption DEF ReviewAssumption
  <2>2. added \in SUBSET ToSet(page.lineup) /\ "LINEUP" \in Billings
    BY <1>1, <1>4 DEF Additions, Billings
  <2>3. PICK names : names = page.lineup
    OBVIOUS
  <2> QED BY <1>1, <1>2, <1>3, <2>1, <2>2, <2>3, ExtendedSound DEF Enlarged
<1>5. CASE "lineup" \notin DOMAIN page
  <2>1. added = {}
    BY <1>1, <1>5 DEF Additions
  <2>2. with.entries = [a \in Artists |-> with.entries[a]]
    BY <1>2 DEF Catalog
  <2>3. Enlarged(cat, page, added)
            = [with EXCEPT !.known = with.known, !.entries = with.entries]
    BY <1>1, <2>1, <2>2 DEF Enlarged, Extended
  <2>4. [with EXCEPT !.known = with.known, !.entries = with.entries] = with
    BY <1>2 DEF Catalog
  <2> QED BY <1>1, <1>2, <1>3, <2>3, <2>4
<1> QED BY <1>4, <1>5

\* The fields a candidate is published with.
Enlarges(page, added) ==
    {f \in {"city"} : f \in DOMAIN page /\ page[f] # catalog[f]} \cup
    {f \in {"lineup"} : \E a \in added : catalog.entries[a] = Absent}

LEMMA PublishCandidateIs ==
    ASSUME IInv, PublishCandidate
    PROVE  LET page == candidate.page
               added == Additions(page, candidate.saw)
           IN  /\ page \in Pages /\ candidate.saw \in Catalog
               /\ candidate # Absent /\ candidate' = Absent
               /\ UNCHANGED <<resources, drafts, changes, run, agentSaw>>
               /\ \/ /\ "city" \in DOMAIN page =>
                            Fresh(catalog, "city", candidate.saw.city, page.city)
                     /\ MayAdd(catalog, "LINEUP", added)
                     /\ catalog' = Enlarged(catalog, page, added)
                     /\ Publish(<<"ingestion", Cardinality(By("ingestion"))>>,
                                Enlarges(page, added), page.explicitOnly)
                  \/ UNCHANGED <<catalog, publications>>
  BY DEF PublishCandidate, Enlarged, Enlarges, IInv, Typed

LEMMA PublishCandidateInv == ASSUME IInv, PublishCandidate PROVE IInv'
<1>1. PICK page, saw, added : /\ page = candidate.page /\ saw = candidate.saw
                              /\ added = Additions(page, saw)
  OBVIOUS
<1>2. /\ page \in Pages /\ saw \in Catalog /\ candidate' = Absent
      /\ UNCHANGED <<resources, drafts, changes, run, agentSaw>>
  BY <1>1, PublishCandidateIs
<1>3. catalog \in Catalog /\ SoundLineup(catalog) /\ Decided /\ Counted
      /\ publications \in SUBSET Publication /\ IsFiniteSet(publications)
  BY DEF IInv, Typed
<1>4. CASE UNCHANGED <<catalog, publications>>
  <2>1. Decided' /\ Counted'
    BY <1>2, <1>3, <1>4 DEF Decided, Counted, Pending, By
  <2> QED BY <1>2, <1>3, <1>4, <2>1, PublishedInv
<1>5. CASE /\ MayAdd(catalog, "LINEUP", added) /\ catalog' = Enlarged(catalog, page, added)
           /\ Publish(<<"ingestion", Cardinality(By("ingestion"))>>,
                      Enlarges(page, added), page.explicitOnly)
  <2>1. catalog' \in Catalog /\ SoundLineup(catalog')
    <3>1. PICK cat : cat = catalog
      OBVIOUS
    <3> QED BY <1>1, <1>2, <1>3, <1>5, <3>1, EnlargedSound
  <2>2. Enlarges(page, added) \in SUBSET Fields
    BY DEF Enlarges, Fields, Scalars
  <2>3. page.explicitOnly \in BOOLEAN
    BY <1>2, ReviewAssumption DEF ReviewAssumption
  <2>4. /\ publications' \in SUBSET Publication /\ IsFiniteSet(publications')
        /\ Decided' /\ Counted'
    <3>1. PICK fields, deferred : fields = Enlarges(page, added) /\ deferred = page.explicitOnly
      OBVIOUS
    <3>2. "ingestion" \in {"ingestion", "agent"} /\ UNCHANGED changes
          /\ fields \in SUBSET Fields /\ deferred \in BOOLEAN
          /\ Publish(<<"ingestion", Cardinality(By("ingestion"))>>, fields, deferred)
      BY <1>2, <1>5, <2>2, <2>3, <3>1
    <3> QED BY <3>2, PublishedBy
  <2> QED BY <1>2, <2>1, <2>4, PublishedInv
<1> QED BY <1>1, <1>4, <1>5, PublishCandidateIs

\* What the agent makes of the catalogue.
Resolved(cat, f) ==
    [IF SameBill(cat, f) THEN cat ELSE Reviewed(cat, f.headliners, f.lineup) EXCEPT !.city = f.city]

Resolves(f) ==
    (IF SameBill(catalog, f) THEN {} ELSE {"headliners", "lineup"})
        \cup {x \in {"city"} : catalog.city # f.city}

LEMMA ResolvedSound ==
    ASSUME NEW cat \in Catalog, SoundLineup(cat), NEW f \in Facts, MayReview(cat, f)
    PROVE  Resolved(cat, f) \in Catalog /\ SoundLineup(Resolved(cat, f))
<1>1. f.city \in Texts /\ f.headliners \in Bill /\ f.lineup \in Bill
  BY ReviewAssumption DEF ReviewAssumption
<1>2. PICK next : next = IF SameBill(cat, f) THEN cat ELSE Reviewed(cat, f.headliners, f.lineup)
  OBVIOUS
<1>3. next \in Catalog /\ SoundLineup(next)
  <2>1. CASE SameBill(cat, f)
    BY <1>2, <2>1
  <2>2. CASE ~SameBill(cat, f)
    <3>1. PICK heads, lineup : heads = f.headliners /\ lineup = f.lineup
      OBVIOUS
    <3>2. /\ IsInjective(heads) /\ IsInjective(lineup) /\ ToSet(heads) \cap ToSet(lineup) = {}
          /\ Identified(cat, ToSet(heads) \cup ToSet(lineup))
          /\ (ToSet(heads) \cup ToSet(lineup)) \cap Cancelled(cat) = {}
      BY <2>2, <3>1 DEF MayReview
    <3>3. Reviewed(cat, heads, lineup) \in Catalog /\ SoundLineup(Reviewed(cat, heads, lineup))
      BY <1>1, <3>1, <3>2, ReviewedSound
    <3> QED BY <1>2, <2>2, <3>1, <3>3
  <2> QED BY <2>1, <2>2
<1>4. Resolved(cat, f) = [next EXCEPT !.city = f.city]
  BY <1>2 DEF Resolved
<1>5. /\ [next EXCEPT !.city = f.city] \in Catalog
      /\ [next EXCEPT !.city = f.city].known = next.known
      /\ [next EXCEPT !.city = f.city].entries = next.entries
  BY <1>1, <1>3 DEF Catalog
<1> QED BY <1>3, <1>4, <1>5 DEF SoundLineup

LEMMA ResolveInv == ASSUME IInv, NEW f \in Facts, Resolve(f) PROVE IInv'
<1>1. /\ MayReview(catalog, f) /\ catalog' = Resolved(catalog, f)
      /\ Publish(<<"agent", Cardinality(By("agent"))>>, Resolves(f), TRUE)
      /\ agentSaw' = Absent /\ UNCHANGED <<resources, drafts, changes, run, candidate>>
  BY DEF Resolve, Resolved, Resolves
<1>2. catalog \in Catalog /\ SoundLineup(catalog)
  BY DEF IInv, Typed
<1>3. catalog' \in Catalog /\ SoundLineup(catalog')
  <2>1. PICK cat : cat = catalog
    OBVIOUS
  <2> QED BY <1>1, <1>2, <2>1, ResolvedSound
<1>4. /\ publications' \in SUBSET Publication /\ IsFiniteSet(publications')
      /\ Decided' /\ Counted'
  <2>1. PICK fields : fields = Resolves(f)
    OBVIOUS
  <2>2. "agent" \in {"ingestion", "agent"} /\ fields \in SUBSET Fields /\ TRUE \in BOOLEAN
    BY <2>1 DEF Resolves, Fields, Scalars
  <2> QED BY <1>1, <2>1, <2>2, PublishedBy
<1> QED BY <1>1, <1>3, <1>4, PublishedInv
----------------------------------------------------------------------------
LEMMA NextInv == ASSUME IInv, [Next]_vars PROVE IInv'
<1>1. ASSUME UNCHANGED vars PROVE IInv'
  <2>1. UNCHANGED <<catalog, publications, resources, drafts, changes, run, candidate, agentSaw>>
    BY <1>1 DEF vars
  <2> QED BY <2>1, AsideInv DEF IInv, Typed
<1>2. ASSUME NEW e \in Editors, NEW k \in Kinds, NEW values \in DraftValues[k],
             SaveDraft(e, k, values)
      PROVE  IInv'
  BY <1>2, SaveDraftInv
<1>3. ASSUME NEW e \in Editors, NEW d \in drafts, DeleteDraft(e, d) PROVE IInv'
  BY <1>3, DeleteDraftInv
<1>4. ASSUME NEW e \in Editors, NEW d \in drafts, NEW values \in DraftValues[d.kind],
             UpdateDraft(e, d, values)
      PROVE  IInv'
  BY <1>4, UpdateDraftInv
<1>5. ASSUME NEW c \in DOMAIN changes, Reject(c) PROVE IInv'
  BY <1>5, RejectInv
<1>6. ASSUME NEW c \in DOMAIN changes, Approve(c) PROVE IInv'
  BY <1>6, ApproveInv
<1>7. ASSUME RefreshStart \/ RefreshEnd PROVE IInv'
  BY <1>7, RefreshStartInv, RefreshEndInv
<1>8. ASSUME NEW page \in Pages, RefreshQueue(page) \/ Observe(page) PROVE IInv'
  BY <1>8, RefreshQueueInv, ObserveInv
<1>9. ASSUME PublishCandidate \/ Snapshot \/ GiveUp PROVE IInv'
  BY <1>9, PublishCandidateInv, SnapshotInv
<1>10. ASSUME NEW f \in Facts, Resolve(f) PROVE IInv'
  BY <1>10, ResolveInv
<1> QED BY <1>1, <1>2, <1>3, <1>4, <1>5, <1>6, <1>7, <1>8, <1>9, <1>10 DEF Next

THEOREM Inductive == Spec => []IInv
<1>1. IInv /\ [Next]_vars => IInv'
  BY NextInv
<1> QED BY <1>1, InitInv, PTL DEF Spec

\* However editors, ingestion and agent take turns (applyFestivalChanges,
\* publishAgentFestivalResolution), the lineup they write keeps the unique keys of the
\* schema: one artist per position of a billing, no entry of an unknown artist, one artist
\* per slug.
THEOREM LineupSound == Spec => []LineupIsSound
<1>1. IInv => LineupIsSound
  <2> SUFFICES ASSUME IInv PROVE LineupIsSound
    OBVIOUS
  <2>1. \A c \in DOMAIN changes : changes[c] = Absent
            \/ changes[c].status \in {"PENDING", "APPROVED", "REJECTED"}
    BY DEF IInv, Typed, RowsTyped, Change
  <2>2. \A d \in drafts : d.status \in {"QUEUED", "APPLIED", "REJECTED"} /\ d.by \in Editors
    BY DEF IInv, Typed, Draft
  <2>3. \A p \in publications : p.fields \subseteq Fields /\ p.refresh \in BOOLEAN
    BY DEF IInv, Typed, Publication
  <2>4. /\ catalog \in Catalog /\ SoundLineup(catalog)
        /\ \A k \in Kinds : resources[k].revision \in Nat
        /\ run.status \in {"none", "RUNNING", "FAILED", "SUCCEEDED"}
    BY DEF IInv, Typed
  <2> QED BY <2>1, <2>2, <2>3, <2>4 DEF LineupIsSound, TypeOK
<1> QED BY <1>1, Inductive, PTL
----------------------------------------------------------------------------
(* Approvals.                                                              *)

\* The step as NoBlindApproval speaks of it.
Seen ==
    \A c \in DOMAIN changes :
        changes[c] # Absent /\ changes[c].draft # Absent /\ Pending(c)
        /\ changes'[c] # Absent /\ changes'[c].status = "APPROVED" =>
            resources[changes[c].kind].values[changes[c].field] = changes[c].before

\* Queueing does not touch the rows before.
LEMMA QueuedBehind ==
    ASSUME NEW S, NEW s \in Seq(S), NEW t \in Seq(S), NEW c \in DOMAIN s
    PROVE  (s \o t)[c] = s[c]
<1>1. c \in 1..Len(s)
  OBVIOUS
<1> QED BY <1>1, Appended

LEMMA SeenStep == ASSUME IInv, [Next]_vars PROVE Seen
<1>1. /\ changes \in Seq({Absent} \cup Change)
      /\ \A c \in DOMAIN changes : changes[c] # Absent => changes[c] \in Change
  BY DEF IInv, Typed, RowsTyped
<1>2. ASSUME \A c \in DOMAIN changes : changes'[c] # Absent => changes'[c] = changes[c]
      PROVE  Seen
  BY <1>2 DEF Seen, Pending
<1>3. ASSUME UNCHANGED changes PROVE Seen
  BY <1>2, <1>3
<1>4. ASSUME NEW e \in Editors, NEW k \in Kinds, NEW values \in DraftValues[k],
             SaveDraft(e, k, values)
      PROVE  Seen
  <2>1. PICK new : new = DraftChanges(k, resources[k].revision, <<k, resources[k].revision>>, values)
    OBVIOUS
  <2>2. new \in Seq(Change)
    BY <2>1, DraftChangesSound DEF IInv
  <2>3. changes' = changes \o new
    BY <1>4, <2>1 DEF SaveDraft
  <2>4. new \in Seq({Absent} \cup Change)
    <3> HIDE DEF Change
    <3> QED BY <2>2
  <2>5. \A c \in DOMAIN changes : changes'[c] = changes[c]
    BY <1>1, <2>3, <2>4, QueuedBehind
  <2> QED BY <1>2, <2>5
<1>5. ASSUME NEW e \in Editors, NEW d \in drafts, DeleteDraft(e, d) PROVE Seen
  <2>1. changes' = Without(d)
    BY <1>5 DEF DeleteDraft
  <2>2. \A c \in DOMAIN changes : changes'[c] \in {changes[c], Absent}
    BY <2>1, WithoutSound
  <2> QED BY <1>2, <2>2
<1>6. ASSUME NEW e \in Editors, NEW d \in drafts, NEW values \in DraftValues[d.kind],
             UpdateDraft(e, d, values)
      PROVE  Seen
  <2>1. d.kind \in Kinds /\ d.id = <<d.kind, d.base>> /\ d.base = resources[d.kind].revision
    BY <1>6 DEF IInv, Typed, Draft, DraftsNamed, UpdateDraft
  <2>2. PICK k, new, old :
            /\ k = d.kind /\ old = Without(d)
            /\ new = DraftChanges(k, resources[k].revision, <<k, resources[k].revision>>, values)
    OBVIOUS
  <2>3. new \in Seq(Change)
    BY <2>1, <2>2, DraftChangesSound DEF IInv
  <2>4. changes' = old \o new
    BY <1>6, <2>1, <2>2 DEF UpdateDraft
  <2>5. old \in Seq({Absent} \cup Change) /\ DOMAIN old = DOMAIN changes
        /\ \A c \in DOMAIN changes : old[c] \in {changes[c], Absent}
    BY <2>2, WithoutSound
  <2>6. new \in Seq({Absent} \cup Change)
    <3> HIDE DEF Change
    <3> QED BY <2>3
  <2>7. \A c \in DOMAIN changes : changes'[c] = old[c]
    BY <2>4, <2>5, <2>6, QueuedBehind
  <2> QED BY <1>2, <2>5, <2>7
<1>7. ASSUME NEW r \in DOMAIN changes, Reject(r) PROVE Seen
  <2>1. changes' = [changes EXCEPT ![r].status = "REJECTED"] /\ changes[r] \in Change
    BY <1>1, <1>7 DEF Reject, Pending
  <2>2. changes'[r].status = "REJECTED" /\ \A c \in DOMAIN changes \ {r} : changes'[c] = changes[c]
    BY <2>1 DEF Change
  <2> QED BY <2>2 DEF Seen, Pending
<1>8. ASSUME NEW r \in DOMAIN changes, Approve(r) PROVE Seen
  <2>1. \A c \in DOMAIN changes \ {r} : changes'[c] =
            IF MovedAlong(c, r)
            THEN [changes[c] EXCEPT !.base = resources[changes[r].kind].revision + 1]
            ELSE changes[c]
    BY <1>8, ApprovedRows
  <2>2. \A c \in DOMAIN changes \ {r} : Pending(c) => changes'[c].status = "PENDING"
    <3> SUFFICES ASSUME NEW c \in DOMAIN changes \ {r}, Pending(c)
                 PROVE  changes'[c].status = "PENDING"
      OBVIOUS
    <3>1. changes[c] \in Change /\ changes[c].status = "PENDING"
      BY <1>1 DEF Pending
    <3>2. PICK next : next = resources[changes[r].kind].revision + 1
      OBVIOUS
    <3>3. changes'[c] = [changes[c] EXCEPT !.base = next] \/ changes'[c] = changes[c]
      BY <2>1, <3>2
    <3> QED BY <3>1, <3>3 DEF Change
  <2>3. Drafted(r) => changes[r].before = resources[changes[r].kind].values[changes[r].field]
    BY <1>8 DEF Approve, IInv, SavedOver
  <2> QED BY <2>2, <2>3 DEF Seen, Drafted
<1>9. ASSUME NEW page \in Pages, RefreshQueue(page) PROVE Seen
  <2>1. \A c \in DOMAIN changes : changes'[c] = changes[c]
    BY <1>9, RefreshQueueRows
  <2> QED BY <1>2, <2>1
<1>10. CASE UNCHANGED vars
  BY <1>3, <1>10 DEF vars
<1>11. CASE RefreshStart \/ RefreshEnd \/ Snapshot \/ GiveUp \/ PublishCandidate
            \/ (\E page \in Pages : Observe(page)) \/ \E f \in Facts : Resolve(f)
  BY <1>3, <1>11 DEF RefreshStart, RefreshEnd, Snapshot, GiveUp, PublishCandidate, Observe, Resolve
<1> QED BY <1>4, <1>5, <1>6, <1>7, <1>8, <1>9, <1>10, <1>11 DEF Next

\* An editor's change is approved over the value its draft was saved against, however many
\* approvals, updates and refreshes came between (decideChange's revision).
THEOREM ApprovalsSeen == Spec => NoBlindApproval
<1>1. IInv /\ [Next]_vars => [Seen]_vars
  BY SeenStep
<1>2. [Seen]_vars => [\A c \in DOMAIN changes :
         changes[c] # Absent /\ changes[c].draft # Absent /\ Pending(c)
         /\ changes'[c] # Absent /\ changes'[c].status = "APPROVED" =>
            resources[changes[c].kind].values[changes[c].field] = changes[c].before]_vars
  BY DEF Seen
<1> QED BY <1>1, <1>2, Inductive, PTL DEF Spec, NoBlindApproval
----------------------------------------------------------------------------
(* What the ledger explains.                                               *)

\* The step as PublicationsExplained speaks of it.
Explains ==
    catalog' # catalog => \A f \in Fields : Shown(catalog, f) # Shown(catalog, f)' =>
         \E p \in publications' \ publications :
            /\ publications' = publications \cup {p}
            /\ f \in p.fields
            /\ p.source[1] = "admin" /\ f \notin Scalars => p.refresh

Keeps ==
    catalog' # catalog => \A a \in Cancelled(catalog) :
         catalog'.entries[a] = catalog.entries[a] \/ resources' # resources

Compares ==
    catalog'.city # catalog.city =>
         \/ agentSaw # agentSaw'
         \/ candidate # candidate' /\ candidate.saw.city = catalog.city
         \/ \E c \in DOMAIN changes : Pending(c) /\ changes'[c] # changes[c]
                /\ (changes[c].parser => changes[c].before = catalog.city)

\* A replaced billing leaves the other one as it was shown.
LEMMA ReplacedShows ==
    ASSUME NEW cat \in Catalog, SoundLineup(cat), NEW b \in Billings, NEW o \in Billings, o # b,
           NEW names \in Bill, MayReplace(cat, b, names)
    PROVE  /\ Names(Replaced(cat, b, names).entries, o) = Names(cat.entries, o)
           /\ Replaced(cat, b, names).city = cat.city
           /\ Replaced(cat, b, names).officialUrl = cat.officialUrl
           /\ names = Names(cat.entries, b) => Replaced(cat, b, names) = cat
<1>1. CASE names = Names(cat.entries, b)
  BY <1>1 DEF Replaced
<1>2. CASE names # Names(cat.entries, b)
  <2> DEFINE next == Replaced(cat, b, names)
  <2>1. o = Other(b) /\ ToSet(names) \cap Billed(cat.entries, o) = {}
    BY <1>2, BillingsTwo DEF MayReplace
  <2>2. /\ next.entries = [a \in Artists |->
               IF a \in ToSet(names) THEN Entry(b, Place(names, a) - 1)
               ELSE IF a \in Billed(cat.entries, b) THEN Absent ELSE cat.entries[a]]
        /\ next.city = cat.city /\ next.officialUrl = cat.officialUrl
    BY <1>2 DEF Replaced, Catalog
  <2>3. next \in Catalog
    BY ReplacedSound
  <2> HIDE DEF next
  <2>4. \A a \in ToSet(names) : next.entries[a].billing = b
    BY <2>2, NamesKnown DEF Entry
  <2>5. \A a \in Artists \ ToSet(names) :
            next.entries[a] = IF a \in Billed(cat.entries, b) THEN Absent ELSE cat.entries[a]
    BY <2>2
  <2>6. \A a \in Billed(cat.entries, b) : a \notin Billed(cat.entries, o)
    BY DEF Billed
  <2>7. /\ Billed(next.entries, o) = Billed(cat.entries, o)
        /\ \A a \in Billed(cat.entries, o) : next.entries[a].position = cat.entries[a].position
    BY <2>1, <2>4, <2>5, <2>6 DEF Billed
  <2>8. next.entries \in Entries /\ cat.entries \in Entries
    BY <2>3 DEF Catalog, Entries
  <2>9. Names(next.entries, o) = Names(cat.entries, o)
    <3>1. PICK e1, e2 : e1 = next.entries /\ e2 = cat.entries
      OBVIOUS
    <3> QED BY <2>7, <2>8, <3>1, NamesKept
  <2> QED BY <1>2, <2>2, <2>9 DEF next
<1> QED BY <1>1, <1>2

\* A change of an editor shows in its own field, and only if that showed something else.
LEMMA AppliedShows ==
    ASSUME NEW cat \in Catalog, SoundLineup(cat), NEW ch \in Change, FitsField(ch),
           MayApply(cat, ch), NEW f \in Fields, Shown(Applied(cat, ch), f) # Shown(cat, f)
    PROVE  f = ch.field /\ Shown(cat, f) # ch.after
<1>1. ch.field \in Fields
  BY DEF Change
<1>2. CASE ch.field \in Scalars
  <2>1. Applied(cat, ch) = [cat EXCEPT ![ch.field] = ch.after]
    BY <1>2 DEF Applied
  <2>2. /\ [cat EXCEPT ![ch.field] = ch.after].entries = cat.entries
        /\ [cat EXCEPT ![ch.field] = ch.after][ch.field] = ch.after
        /\ \A g \in Scalars \ {ch.field} : [cat EXCEPT ![ch.field] = ch.after][g] = cat[g]
    BY <1>2 DEF Catalog, Scalars
  <2>3. PICK next : next = Applied(cat, ch)
    OBVIOUS
  <2>4. /\ next.entries = cat.entries /\ next[ch.field] = ch.after
        /\ \A g \in Scalars \ {ch.field} : next[g] = cat[g]
    BY <2>1, <2>2, <2>3
  <2>5. Shown(next, f) # Shown(cat, f)
    BY <2>3
  <2>6. f \in Scalars
    BY <2>4, <2>5 DEF Shown
  <2>7. Shown(next, f) = next[f] /\ Shown(cat, f) = cat[f]
    BY <2>6 DEF Shown
  <2> QED BY <2>4, <2>5, <2>6, <2>7
<1>3. CASE ch.field \notin Scalars
  <2>1. PICK b, names, next :
            b = BillingOf(ch.field) /\ names = ch.after /\ next = Applied(cat, ch)
    OBVIOUS
  <2>2. /\ b \in Billings /\ names \in Bill /\ MayReplace(cat, b, names)
        /\ next = Replaced(cat, b, names)
    BY <1>3, <2>1 DEF Applied, MayApply, FitsField, BillingOf, Billings
  <2>3. \A o \in Billings \ {b} : Names(next.entries, o) = Names(cat.entries, o)
    BY <2>2, ReplacedShows
  <2>4. Other(b) \in Billings /\ Other(b) # b
    BY <2>2, BillingsTwo
  <2>5. /\ next.city = cat.city /\ next.officialUrl = cat.officialUrl
        /\ names = Names(cat.entries, b) => next = cat
    BY <2>2, <2>4, ReplacedShows
  <2>6. Shown(next, f) # Shown(cat, f)
    BY <2>1
  <2>7. f \notin Scalars
    BY <2>5, <2>6 DEF Shown, Scalars
  <2>8. Shown(next, f) = Names(next.entries, BillingOf(f))
        /\ Shown(cat, f) = Names(cat.entries, BillingOf(f))
    BY <2>7 DEF Shown
  <2>9. BillingOf(f) = b
    BY <2>3, <2>6, <2>8 DEF BillingOf, Billings
  <2>10. f = ch.field
    BY <1>1, <1>3, <2>1, <2>7, <2>9 DEF BillingOf, Fields
  <2>11. names # Names(cat.entries, b)
    BY <2>5, <2>6
  <2> QED BY <2>1, <2>8, <2>9, <2>10, <2>11
<1> QED BY <1>2, <1>3

LEMMA ApproveExplains ==
    ASSUME IInv, NEW c \in DOMAIN changes, Approve(c)
    PROVE  Explains /\ Keeps /\ Compares
<1>1. PICK ch, cat, next : ch = changes[c] /\ cat = catalog /\ next = catalog'
  OBVIOUS
<1>2. ch \in Change /\ FitsField(ch) /\ cat \in Catalog /\ SoundLineup(cat) /\ Pending(c)
  BY <1>1 DEF Approve, Pending, IInv, Typed, RowsTyped
<1>3. CASE changes[c].kind = "PLAYLIST"
  <2>1. catalog' = catalog
    BY <1>3 DEF Approve
  <2> QED BY <2>1 DEF Explains, Keeps, Compares
<1>4. CASE changes[c].kind # "PLAYLIST"
  <2>1. MayApply(cat, ch) /\ next = Applied(cat, ch)
    BY <1>1, <1>4 DEF Approve
  <2>2. Explains
    <3> SUFFICES ASSUME NEW f \in Fields, Shown(catalog, f) # Shown(catalog', f)
          PROVE  \E p \in publications' \ publications :
                     /\ publications' = publications \cup {p}
                     /\ f \in p.fields
                     /\ p.source[1] = "admin" /\ f \notin Scalars => p.refresh
      BY DEF Explains, Shown
    <3>1. Shown(next, f) # Shown(cat, f)
      BY <1>1
    <3>2. f = ch.field /\ Shown(cat, f) # ch.after
      BY <1>2, <2>1, <3>1, AppliedShows
    <3>3. f \in {changes[c].field} \ {g \in Fields : Shown(catalog, g) = changes[c].after}
      BY <1>1, <3>2
    <3>4. \E p \in publications' \ publications :
              /\ publications' = publications \cup {p} /\ f \in p.fields
              /\ p.source[1] = "admin"
              /\ f \notin Scalars => p.refresh
      BY <1>4, <3>3, ApprovedLedger
    <3> QED BY <3>4
  <2>3. Keeps
    <3>1. PICK k, f, v : k = changes[c].kind /\ f = changes[c].field /\ v = changes[c].after
      OBVIOUS
    <3>2. k \in Kinds
      BY <1>1, <1>2, <3>1 DEF Change
    <3>3. resources \in [Kinds -> [revision : Nat, values : [Fields -> Value]]]
      BY DEF IInv, Typed
    <3>4. resources' = [resources EXCEPT ![k].revision = @ + 1, ![k].values[f] = v]
      BY <3>1 DEF Approve
    <3>5. resources'[k].revision = resources[k].revision + 1 /\ resources[k].revision \in Nat
      BY <3>2, <3>3, <3>4
    <3> QED BY <3>5 DEF Keeps
  <2>4. Compares
    <3> SUFFICES ASSUME next.city # cat.city
          PROVE  /\ Pending(c) /\ changes'[c] # changes[c]
                 /\ changes[c].parser => changes[c].before = catalog.city
      BY <1>1 DEF Compares
    <3>1. Shown(next, "city") # Shown(cat, "city")
      BY DEF Shown, Scalars
    <3>2. ch.field = "city" /\ Shown(cat, "city") # ch.after
      BY <1>2, <2>1, <3>1, AppliedShows DEF Fields, Scalars
    <3>3. cat.city # ch.after
      BY <3>2 DEF Shown, Scalars
    <3>4. ch.parser => cat.city \in {ch.before, ch.after}
      BY <2>1, <3>2 DEF MayApply, Fresh, Scalars
    <3>5. changes'[c] # changes[c]
      BY <1>2, ApprovedRows, DecidingRows DEF IInv, Pending
    <3> QED BY <1>1, <1>2, <3>3, <3>4, <3>5
  <2> QED BY <2>2, <2>3, <2>4
<1> QED BY <1>3, <1>4

LEMMA CandidateExplains ==
    ASSUME IInv, PublishCandidate
    PROVE  Explains /\ Keeps /\ Compares
<1>1. PICK page, saw, added, cat, next :
          /\ page = candidate.page /\ saw = candidate.saw /\ added = Additions(page, saw)
          /\ cat = catalog /\ next = catalog'
  OBVIOUS
<1>2. /\ page \in Pages /\ saw \in Catalog /\ candidate' = Absent /\ candidate # Absent
      /\ UNCHANGED <<resources, drafts, changes, run, agentSaw>>
  BY <1>1, PublishCandidateIs
<1>3. cat \in Catalog /\ SoundLineup(cat)
  BY <1>1 DEF IInv, Typed
<1>4. CASE UNCHANGED <<catalog, publications>>
  BY <1>4 DEF Explains, Keeps, Compares
<1>5. CASE /\ "city" \in DOMAIN page => Fresh(cat, "city", saw.city, page.city)
           /\ MayAdd(cat, "LINEUP", added) /\ next = Enlarged(cat, page, added)
           /\ Publish(<<"ingestion", Cardinality(By("ingestion"))>>,
                      Enlarges(page, added), page.explicitOnly)
  <2> DEFINE new == {a \in added : cat.entries[a] = Absent}
  <2>1. /\ next.city = WithCity(cat, page).city /\ next.officialUrl = cat.officialUrl
        /\ \A a \in Artists : IF a \in new THEN next.entries[a].billing = "LINEUP"
                              ELSE next.entries[a] = cat.entries[a]
    BY <1>2, <1>3, <1>5, EnlargedIs
  <2>2. next.city = IF "city" \in DOMAIN page THEN page.city ELSE cat.city
    BY <1>2, <1>3, <2>1, WithCitySound
  <2>3. next \in Catalog
    BY <1>1, <1>2, <1>3, <1>5, EnlargedSound
  <2>4. next.entries \in Entries /\ cat.entries \in Entries
    BY <1>3, <2>3 DEF Catalog, Entries
  <2>5. Names(next.entries, "HEADLINER") = Names(cat.entries, "HEADLINER")
    <3>1. \A a \in Artists : a \in new => cat.entries[a] = Absent
      OBVIOUS
    <3>2. \A a \in Artists : a \in new =>
              next.entries[a].billing = "LINEUP" /\ cat.entries[a] = Absent
      BY <2>1, <3>1
    <3>3. \A a \in Artists : a \notin new => next.entries[a] = cat.entries[a]
      BY <2>1
    <3> HIDE DEF new
    <3>4. /\ Billed(next.entries, "HEADLINER") = Billed(cat.entries, "HEADLINER")
          /\ \A a \in Billed(cat.entries, "HEADLINER") :
                 next.entries[a].position = cat.entries[a].position
      BY <3>2, <3>3 DEF Billed
    <3>5. PICK e1, e2 : e1 = next.entries /\ e2 = cat.entries
      OBVIOUS
    <3>6. "HEADLINER" \in Billings
      BY DEF Billings
    <3> QED BY <2>4, <3>4, <3>5, <3>6, NamesKept
  <2>6. new = {} => next.entries = cat.entries
    BY <2>1, <2>4 DEF Entries
  <2>7. \A f \in Fields : Shown(next, f) # Shown(cat, f) => f \in Enlarges(page, added)
    <3> SUFFICES ASSUME NEW f \in Fields, Shown(next, f) # Shown(cat, f)
                 PROVE  f \in Enlarges(page, added)
      OBVIOUS
    <3>1. CASE f = "city"
      BY <1>1, <2>2, <3>1 DEF Shown, Scalars, Enlarges
    <3>2. f # "officialUrl"
      BY <2>1 DEF Shown, Scalars
    <3>3. f # "headliners"
      BY <2>5 DEF Shown, Scalars, BillingOf
    <3>4. CASE f = "lineup"
      <4>1. next.entries # cat.entries
        BY <3>4 DEF Shown, Scalars
      <4>2. \E a \in added : catalog.entries[a] = Absent
        BY <1>1, <2>6, <4>1
      <4> QED BY <3>4, <4>2 DEF Enlarges
    <3> QED BY <3>1, <3>2, <3>3, <3>4 DEF Fields, Scalars
  <2>8. \A f \in Enlarges(page, added) : \E p \in publications' \ publications :
            publications' = publications \cup {p} /\ f \in p.fields /\ p.source[1] = "ingestion"
    <3>1. PICK fields, deferred : fields = Enlarges(page, added) /\ deferred = page.explicitOnly
      OBVIOUS
    <3>2. page.explicitOnly \in BOOLEAN
      BY <1>2, ReviewAssumption DEF ReviewAssumption
    <3>3. "ingestion" \in {"ingestion", "agent"} /\ UNCHANGED changes
          /\ fields \in SUBSET Fields /\ deferred \in BOOLEAN
          /\ Publish(<<"ingestion", Cardinality(By("ingestion"))>>, fields, deferred)
      BY <1>2, <1>5, <3>1, <3>2 DEF Enlarges, Fields, Scalars
    <3>4. \A f \in fields : \E p \in publications' \ publications :
              publications' = publications \cup {p} /\ f \in p.fields /\ p.source[1] = "ingestion"
      BY <3>3, PublishedBy
    <3> QED BY <3>1, <3>4
  <2>9. Explains
    <3> SUFFICES ASSUME NEW f \in Fields, Shown(catalog, f) # Shown(catalog', f)
          PROVE  \E p \in publications' \ publications :
                     /\ publications' = publications \cup {p}
                     /\ f \in p.fields
                     /\ p.source[1] = "admin" /\ f \notin Scalars => p.refresh
      BY DEF Explains, Shown
    <3>1. f \in Enlarges(page, added)
      BY <1>1, <2>7
    <3> QED BY <2>8, <3>1
  <2>10. Keeps
    <3>1. \A a \in Cancelled(cat) : a \in Artists /\ a \notin new
      BY DEF Cancelled
    <3> QED BY <1>1, <2>1, <3>1 DEF Keeps
  <2>11. Compares
    BY <1>1, <1>2, <1>5, <2>2 DEF Compares, Fresh
  <2> QED BY <2>9, <2>10, <2>11
<1> QED BY <1>1, <1>4, <1>5, PublishCandidateIs

\* Each field the agent changes is in a publication of its own.
LEMMA ResolvedLedger ==
    ASSUME IInv, NEW f \in Facts, Resolve(f),
           \A g \in Fields : Shown(catalog', g) # Shown(catalog, g) => g \in Resolves(f)
    PROVE  Explains
<1>1. Publish(<<"agent", Cardinality(By("agent"))>>, Resolves(f), TRUE) /\ UNCHANGED changes
  BY DEF Resolve, Resolves
<1>2. PICK fields : fields = Resolves(f)
  OBVIOUS
<1>3. "agent" \in {"ingestion", "agent"} /\ fields \in SUBSET Fields /\ TRUE \in BOOLEAN
  BY <1>2 DEF Resolves, Fields, Scalars
<1>4. \A g \in fields : \E p \in publications' \ publications :
          publications' = publications \cup {p} /\ g \in p.fields /\ p.source[1] = "agent"
  BY <1>1, <1>2, <1>3, PublishedBy
<1> SUFFICES ASSUME NEW g \in Fields, Shown(catalog, g) # Shown(catalog', g)
      PROVE  \E p \in publications' \ publications :
                 /\ publications' = publications \cup {p}
                 /\ g \in p.fields
                 /\ p.source[1] = "admin" /\ g \notin Scalars => p.refresh
  BY DEF Explains, Shown
<1>5. g \in fields
  BY <1>2
<1> QED BY <1>4, <1>5

LEMMA ResolveExplains ==
    ASSUME IInv, NEW f \in Facts, Resolve(f)
    PROVE  Explains /\ Keeps /\ Compares
<1>1. PICK cat, next : cat = catalog /\ next = catalog'
  OBVIOUS
<1>2. /\ MayReview(cat, f) /\ next = Resolved(cat, f) /\ agentSaw = cat
      /\ Publish(<<"agent", Cardinality(By("agent"))>>, Resolves(f), TRUE)
      /\ agentSaw' = Absent /\ UNCHANGED <<resources, drafts, changes, run, candidate>>
  BY <1>1 DEF Resolve, Resolved, Resolves
<1>3. cat \in Catalog /\ SoundLineup(cat)
  BY <1>1 DEF IInv, Typed
<1>4. Compares
  BY <1>2, <1>3, ReviewAssumption DEF Compares, ReviewAssumption
<1>5. CASE SameBill(cat, f)
  <2>1. next = [cat EXCEPT !.city = f.city]
    BY <1>2, <1>5 DEF Resolved
  <2>2. next.entries = cat.entries /\ next.officialUrl = cat.officialUrl /\ next.city = f.city
    BY <1>3, <2>1 DEF Catalog
  <2>3. \A g \in Fields : Shown(next, g) # Shown(cat, g) => g \in Resolves(f)
    BY <1>1, <2>2 DEF Shown, Scalars, Resolves
  <2> QED
    BY <1>1, <1>2, <1>4, <2>2, <2>3, ResolvedLedger DEF Keeps
<1>6. CASE ~SameBill(cat, f)
  <2>1. PICK reviewed : reviewed = Reviewed(cat, f.headliners, f.lineup)
    OBVIOUS
  <2>2. next = [reviewed EXCEPT !.city = f.city]
    BY <1>2, <1>6, <2>1 DEF Resolved
  <2>3. /\ reviewed.officialUrl = cat.officialUrl
        /\ \A a \in Cancelled(cat) : a \notin ToSet(f.headliners) \cup ToSet(f.lineup) =>
               reviewed.entries[a] = cat.entries[a]
    BY <1>3, <2>1 DEF Reviewed, Catalog, Cancelled
  <2>4. next.entries = reviewed.entries /\ next.officialUrl = cat.officialUrl
        /\ next.city = f.city
    <3>1. reviewed = [cat EXCEPT !.known = reviewed.known, !.entries = reviewed.entries]
      BY <1>3, <2>1 DEF Reviewed, Catalog
    <3> QED BY <1>3, <2>2, <2>3, <3>1 DEF Catalog
  <2>5. \A g \in Fields : Shown(next, g) # Shown(cat, g) => g \in Resolves(f)
    BY <1>1, <1>6, <2>4 DEF Shown, Scalars, Fields, Resolves
  <2>6. \A a \in Cancelled(cat) : next.entries[a] = cat.entries[a]
    BY <1>2, <1>6, <2>3, <2>4 DEF MayReview
  <2> QED BY <1>1, <1>2, <1>4, <2>5, <2>6, ResolvedLedger DEF Keeps
<1> QED BY <1>5, <1>6

LEMMA ExplainsStep == ASSUME IInv, [Next]_vars PROVE Explains /\ Keeps /\ Compares
<1>1. ASSUME UNCHANGED catalog PROVE Explains /\ Keeps /\ Compares
  BY <1>1 DEF Explains, Keeps, Compares
<1>2. CASE UNCHANGED vars
  BY <1>1, <1>2 DEF vars
<1>3. ASSUME NEW e \in Editors PROVE
          /\ \A k \in Kinds : \A values \in DraftValues[k] :
                 SaveDraft(e, k, values) => UNCHANGED catalog
          /\ \A d \in drafts : /\ DeleteDraft(e, d) => UNCHANGED catalog
                               /\ \A values \in DraftValues[d.kind] :
                                      UpdateDraft(e, d, values) => UNCHANGED catalog
  BY DEF SaveDraft, DeleteDraft, UpdateDraft
<1>4. \A c \in DOMAIN changes : Reject(c) => UNCHANGED catalog
  BY DEF Reject
<1>5. /\ RefreshStart \/ RefreshEnd \/ Snapshot \/ GiveUp => UNCHANGED catalog
      /\ \A page \in Pages : RefreshQueue(page) \/ Observe(page) => UNCHANGED catalog
  BY DEF RefreshStart, RefreshEnd, Snapshot, GiveUp, RefreshQueue, Observe
<1> QED BY <1>1, <1>2, <1>3, <1>4, <1>5, ApproveExplains, CandidateExplains, ResolveExplains DEF Next

\* Whichever path changes what visitors see, one publication names each changed field and an
\* approved bill asks for new playlists (createPublication); ingestion and agent leave
\* cancelled entries where they are; and no city that a parser read a while ago lands on one
\* it was not compared with (applyFestivalChanges).
THEOREM Explained == Spec => PublicationsExplained
<1>1. IInv /\ [Next]_vars => [Explains]_vars
  BY ExplainsStep
<1>2. IInv /\ [Next]_vars => [Keeps]_vars
  BY ExplainsStep
<1>3. IInv /\ [Next]_vars => [Compares]_vars
  BY ExplainsStep
<1>4. Spec => LedgerExplains
  BY <1>1, Inductive, PTL DEF Spec, LedgerExplains, Explains
<1>5. Spec => CancellationsKept
  BY <1>2, Inductive, PTL DEF Spec, CancellationsKept, Keeps
<1>6. Spec => ParserComparesFirst
  BY <1>3, Inductive, PTL DEF Spec, ParserComparesFirst, Compares
<1> QED BY <1>4, <1>5, <1>6 DEF PublicationsExplained

----------------------------------------------------------------------------
(* Submissions.                                                            *)

Near(set, s, at) == {y \in set : y.submitter = s /\ y.at \in at .. at + Window}

RowsFit ==
    /\ hour \in Nat
    /\ IsFiniteSet(rows)
    /\ \A x \in rows :
          /\ x \in [festival : Festivals, at : Nat, submitter : Submitters,
                    status : {"PENDING", "APPROVED", "REJECTED"}]
          /\ x.at <= hour

OneRow == \A x, y \in rows : x.festival = y.festival => x = y

Limited == \A x \in rows : Cardinality(Near(rows, x.submitter, x.at)) <= Limit

\* A transaction read finitely many rows, and one that decides has found the row.
RequestsFit ==
    /\ tx = [r \in Requests |-> tx[r]]
    /\ \A r \in Requests : tx[r] # NoRequest =>
        /\ IsFiniteSet(tx[r].seen)
        /\ tx[r].what.festival \in Festivals
        /\ tx[r].what.op = "submit" => tx[r].what.by \in Submitters
        /\ tx[r].what.op = "decide" =>
             /\ tx[r].what.status \in {"APPROVED", "REJECTED"}
             /\ \E x \in rows : x.festival = tx[r].what.festival

\* Only rows are decided, and a decision and its entry go together.
Judged ==
    /\ \A e \in audit : \E x \in rows : x.festival = e.festival
    /\ \A x \in rows : x.status = "PENDING" => \A e \in audit : e.festival # x.festival
    /\ \A x \in rows : x.status # "PENDING" =>
          \E e \in audit : /\ e.festival = x.festival /\ e.action = x.status
                           /\ \A d \in audit : d.festival = x.festival => d = e

SubmissionInv == RowsFit /\ OneRow /\ Limited /\ RequestsFit /\ Judged

LEMMA SubmissionInitInv ==
    ASSUME SubmissionInit
    PROVE  SubmissionInv
<1>1. rows = {} /\ audit = {} /\ hour = 0
  BY DEF SubmissionInit
<1>2. RowsFit
  BY <1>1, FS_EmptySet DEF RowsFit
<1>3. RequestsFit
  BY DEF SubmissionInit, RequestsFit
<1> QED BY <1>1, <1>2, <1>3 DEF SubmissionInv, OneRow, Limited, Judged

LEMMA BeginInv ==
    ASSUME SubmissionInv, NEW r \in Requests,
           \/ \E s \in Submitters, f \in Festivals : Submit(r, s, f)
           \/ \E a \in Admins, x \in rows, status \in {"APPROVED", "REJECTED"} :
                 DecideSubmission(r, a, x, status)
    PROVE  SubmissionInv'
<1>1. UNCHANGED <<rows, audit, hour>>
  BY DEF Submit, DecideSubmission, Begin
<1>2. RowsFit' /\ OneRow' /\ Limited' /\ Judged'
  BY <1>1 DEF SubmissionInv, RowsFit, OneRow, Limited, Judged, Near
<1>3. CASE \E s \in Submitters, f \in Festivals : Submit(r, s, f)
  <2>1. PICK s \in Submitters, f \in Festivals :
            tx' = [tx EXCEPT ![r] = [what |-> [op |-> "submit", by |-> s, festival |-> f],
                                     seen |-> rows]]
    BY <1>3 DEF Submit, Begin
  <2>2. RequestsFit'
    BY <1>1, <2>1 DEF SubmissionInv, RequestsFit, RowsFit
  <2> QED BY <1>2, <2>2 DEF SubmissionInv
<1>4. CASE \E a \in Admins, x \in rows, status \in {"APPROVED", "REJECTED"} :
              DecideSubmission(r, a, x, status)
  <2>1. PICK a \in Admins, x \in rows, status \in {"APPROVED", "REJECTED"} :
            tx' = [tx EXCEPT ![r] = [what |-> [op |-> "decide", by |-> a,
                                               festival |-> x.festival, status |-> status],
                                     seen |-> rows]]
    BY <1>4 DEF DecideSubmission, Begin
  <2>2. RequestsFit'
    BY <1>1, <2>1 DEF SubmissionInv, RequestsFit, RowsFit
  <2> QED BY <1>2, <2>2 DEF SubmissionInv
<1> QED BY <1>3, <1>4

LEMMA AbortedInv ==
    ASSUME SubmissionInv, NEW r \in Requests, Aborted(r)
    PROVE  SubmissionInv'
<1>1. UNCHANGED <<rows, audit, hour>> /\ tx' = [tx EXCEPT ![r] = NoRequest]
  BY DEF Aborted, End
<1>2. RequestsFit'
  BY <1>1 DEF SubmissionInv, RequestsFit
<1> QED BY <1>1, <1>2 DEF SubmissionInv, RowsFit, OneRow, Limited, Judged, Near

LEMMA TickInv ==
    ASSUME SubmissionInv, Tick
    PROVE  SubmissionInv'
<1>1. UNCHANGED <<rows, audit, tx>> /\ hour' = hour + 1
  BY DEF Tick
<1>2. RowsFit'
  BY <1>1 DEF SubmissionInv, RowsFit
<1> QED BY <1>1, <1>2 DEF SubmissionInv, RequestsFit, OneRow, Limited, Judged, Near

\* Serializability: whatever could count against the new row was seen.
LEMMA SubmitLimited ==
    ASSUME SubmissionInv, NEW r \in Requests, tx[r] # NoRequest, tx[r].what.op = "submit",
           Cardinality(Recent(tx[r].seen, tx[r].what.by)) < Limit, Serializable(tx[r]),
           NEW n, n = Submission(tx[r].what.festival, hour, tx[r].what.by, "PENDING"),
           NEW x \in rows \cup {n}
    PROVE  Cardinality(Near(rows \cup {n}, x.submitter, x.at)) <= Limit
<1> DEFINE N == Near(rows \cup {n}, x.submitter, x.at)
           R == Recent(tx[r].seen, tx[r].what.by)
<1>1. n.at = hour /\ n.submitter = tx[r].what.by /\ hour \in Nat /\ Window \in Nat /\ Limit \in Nat
  BY SubmissionAssumption DEF Submission, SubmissionInv, RowsFit
<1>2. x.at \in Nat /\ x.at <= hour /\ \A y \in rows : y.at \in Nat
  BY <1>1 DEF SubmissionInv, RowsFit
<1>3. CASE n \notin N
  <2>1. x \in rows
    <3>1. n \in Near(rows \cup {n}, n.submitter, n.at)
      BY <1>1 DEF Near
    <3> QED BY <1>3, <3>1
  <2>2. N = Near(rows, x.submitter, x.at)
    BY <1>3 DEF Near
  <2> QED BY <2>1, <2>2 DEF SubmissionInv, Limited
<1>4. CASE n \in N
  <2>1. x.submitter = tx[r].what.by /\ hour <= x.at + Window
    BY <1>1, <1>4, <1>2 DEF Near
  <2>2. ASSUME NEW y \in N, y # n PROVE y \in R
    <3>1. y \in rows /\ y.submitter = tx[r].what.by /\ y.at >= x.at
      BY <2>1, <2>2, <1>2 DEF Near
    <3>2. y \in tx[r].seen
      BY <3>1 DEF Serializable
    <3>3. y.at + Window >= hour
      BY <2>1, <3>1, <1>1, <1>2
    <3> QED BY <3>1, <3>2, <3>3 DEF Recent
  <2>3. IsFiniteSet(R)
    <3>1. IsFiniteSet(tx[r].seen) /\ R \in SUBSET tx[r].seen
      BY DEF SubmissionInv, RequestsFit, Recent
    <3> QED BY <3>1, FS_Subset
  <2>4. IsFiniteSet(R \cup {n}) /\ Cardinality(R \cup {n}) <= Cardinality(R) + 1
    <3> HIDE DEF R
    <3>1. Cardinality(R) \in Nat
      BY <2>3, FS_CardinalityType
    <3>2. Cardinality(R \cup {n}) = IF n \in R THEN Cardinality(R) ELSE Cardinality(R) + 1
      BY <2>3, FS_AddElement
    <3>3. IsFiniteSet(R \cup {n})
      BY <2>3, FS_AddElement
    <3>4. Cardinality(R \cup {n}) <= Cardinality(R) + 1
      BY <3>1, <3>2
    <3> QED BY <3>3, <3>4
  <2>5. N \in SUBSET (R \cup {n})
    BY <2>2
  <2>6. Cardinality(N) <= Cardinality(R \cup {n}) /\ IsFiniteSet(N)
    BY <2>4, <2>5, FS_Subset
  <2>7. Cardinality(N) \in Nat /\ Cardinality(R) \in Nat /\ Cardinality(R \cup {n}) \in Nat
    BY <2>3, <2>4, <2>6, FS_CardinalityType
  <2>8. Cardinality(R) < Limit
    OBVIOUS
  <2> HIDE DEF N, R
  <2> QED BY <2>4, <2>6, <2>7, <2>8, <1>1 DEF N
<1> QED BY <1>3, <1>4

LEMMA SubmitInv ==
    ASSUME SubmissionInv, NEW r \in Requests, FinishSubmit(r), ~Aborted(r)
    PROVE  SubmissionInv'
<1> DEFINE t == tx[r]
<1>1. PICK n : n = Submission(t.what.festival, hour, t.what.by, "PENDING")
  OBVIOUS
<1>2. /\ t # NoRequest /\ t.what.op = "submit"
      /\ Cardinality(Recent(t.seen, t.what.by)) < Limit
      /\ \A x \in t.seen : x.festival # t.what.festival
      /\ Serializable(t)
      /\ rows' = rows \cup {n} /\ UNCHANGED <<audit, hour>>
      /\ tx' = [tx EXCEPT ![r] = NoRequest]
  BY <1>1 DEF FinishSubmit, End
<1>3. n \in [festival : Festivals, at : Nat, submitter : Submitters,
             status : {"PENDING", "APPROVED", "REJECTED"}]
      /\ n.at = hour /\ n.festival = t.what.festival /\ n.status = "PENDING"
  BY <1>1, <1>2 DEF SubmissionInv, RequestsFit, RowsFit, Submission
<1>4. \A x \in rows : x.festival # n.festival
  BY <1>2, <1>3 DEF Serializable
<1>5. RowsFit'
  <2>1. IsFiniteSet(rows')
    BY <1>2, FS_AddElement DEF SubmissionInv, RowsFit
  <2> QED BY <1>2, <1>3, <2>1 DEF SubmissionInv, RowsFit
<1>6. OneRow'
  BY <1>2, <1>4 DEF SubmissionInv, OneRow
<1>7. Limited'
  <2>1. ASSUME NEW x \in rows \cup {n}
        PROVE  Cardinality(Near(rows \cup {n}, x.submitter, x.at)) <= Limit
    BY <1>1, <1>2, SubmitLimited
  <2> QED BY <1>2, <2>1 DEF Limited, Near
<1>8. RequestsFit'
  BY <1>2 DEF SubmissionInv, RequestsFit
<1>9. Judged'
  <2>1. \A e \in audit : e.festival # n.festival
    BY <1>4 DEF SubmissionInv, Judged
  <2> QED BY <1>2, <1>3, <2>1 DEF SubmissionInv, Judged
<1> QED BY <1>5, <1>6, <1>7, <1>8, <1>9 DEF SubmissionInv

\* A decision moves no row: who is near whom stays.
LEMMA DecideLimited ==
    ASSUME SubmissionInv, NEW f, NEW status,
           rows' = {IF x.festival = f THEN Submission(x.festival, x.at, x.submitter, status)
                    ELSE x : x \in rows}
    PROVE  IsFiniteSet(rows') /\ Limited'
<1> DEFINE F(x) == IF x.festival = f THEN Submission(x.festival, x.at, x.submitter, status) ELSE x
<1>1. \A x \in rows : F(x).at = x.at /\ F(x).submitter = x.submitter
  BY DEF Submission
<1>2. rows' = {F(x) : x \in rows}
  OBVIOUS
<1> HIDE DEF F
<1>3. IsFiniteSet(rows) /\ Limit \in Nat
  BY SubmissionAssumption DEF SubmissionInv, RowsFit
<1>4. IsFiniteSet(rows')
  <2>1. [x \in rows |-> F(x)] \in Surjection(rows, rows')
    BY <1>2 DEF Surjection
  <2> QED BY <1>3, <2>1, FS_Surjection
<1>5. ASSUME NEW x \in rows'
      PROVE  Cardinality(Near(rows', x.submitter, x.at)) <= Limit
  <2>1. PICK z \in rows : x = F(z)
    BY <1>2
  <2> DEFINE N == Near(rows, z.submitter, z.at)
             M == Near(rows', x.submitter, x.at)
  <2>2. x.submitter = z.submitter /\ x.at = z.at
    BY <2>1, <1>1
  <2>3. M = {F(y) : y \in N}
    BY <1>1, <1>2, <2>2 DEF Near
  <2>4. N \in SUBSET rows
    BY DEF Near
  <2>5. Cardinality(N) <= Limit
    BY DEF SubmissionInv, Limited
  <2> HIDE DEF N, M
  <2>6. [y \in N |-> F(y)] \in Surjection(N, M)
    BY <2>3 DEF Surjection
  <2>7. IsFiniteSet(N)
    BY <1>3, <2>4, FS_Subset
  <2>8. IsFiniteSet(M) /\ Cardinality(M) <= Cardinality(N)
    BY <2>6, <2>7, FS_Surjection
  <2>9. Cardinality(M) \in Nat /\ Cardinality(N) \in Nat
    BY <2>7, <2>8, FS_CardinalityType
  <2>10. Cardinality(M) <= Limit
    BY <2>5, <2>8, <2>9, <1>3
  <2> QED BY <2>10 DEF M
<1> QED BY <1>4, <1>5 DEF Limited, Near

LEMMA DecideInv ==
    ASSUME SubmissionInv, NEW r \in Requests, FinishDecide(r), ~Aborted(r)
    PROVE  SubmissionInv'
<1> DEFINE t == tx[r]
<1>1. PICK f, status : f = t.what.festival /\ status = t.what.status
  OBVIOUS
<1>2. PICK e : e = [festival |-> f, actor |-> t.what.by, action |-> status]
  OBVIOUS
<1> DEFINE F(x) == IF x.festival = f THEN Submission(x.festival, x.at, x.submitter, status) ELSE x
<1>3. /\ t # NoRequest /\ t.what.op = "decide" /\ StillPending(t)
      /\ rows' = {F(x) : x \in rows}
      /\ audit' = audit \cup {e} /\ hour' = hour
      /\ tx' = [tx EXCEPT ![r] = NoRequest]
  BY <1>1, <1>2 DEF FinishDecide, End
<1>4. f \in Festivals /\ status \in {"APPROVED", "REJECTED"} /\ \E x \in rows : x.festival = f
  BY <1>1, <1>3 DEF SubmissionInv, RequestsFit
<1>5. \A x \in rows : /\ F(x).festival = x.festival
                      /\ F(x).at = x.at /\ F(x).submitter = x.submitter
                      /\ F(x).status = IF x.festival = f THEN status ELSE x.status
  BY DEF Submission
<1>6. \A x \in rows : F(x) \in [festival : Festivals, at : Nat, submitter : Submitters,
                                status : {"PENDING", "APPROVED", "REJECTED"}]
  BY <1>4 DEF Submission, SubmissionInv, RowsFit
<1>7. IsFiniteSet(rows') /\ Limited'
  BY <1>3, DecideLimited
<1> HIDE DEF F
<1>8. RowsFit'
  BY <1>3, <1>5, <1>6, <1>7 DEF SubmissionInv, RowsFit
<1>9. OneRow'
  BY <1>3, <1>5 DEF SubmissionInv, OneRow
<1>10. RequestsFit'
  <2>1. \A x \in rows : F(x) \in rows' /\ F(x).festival = x.festival
    BY <1>3, <1>5
  <2>2. tx' = [q \in Requests |-> tx'[q]]
    BY <1>3 DEF SubmissionInv, RequestsFit
  <2>3. \A q \in Requests : tx'[q] = NoRequest \/ tx'[q] = tx[q]
    BY <1>3 DEF SubmissionInv, RequestsFit
  <2> QED BY <2>1, <2>2, <2>3 DEF SubmissionInv, RequestsFit
<1>11. Judged'
  <2>1. \A x \in rows : x.festival = f => x.status = "PENDING"
    BY <1>1, <1>3 DEF StillPending, RowOf
  <2>2. \A d \in audit : d.festival # f
    BY <1>4, <2>1 DEF SubmissionInv, Judged
  <2>3. e.festival = f /\ e.action = status
    BY <1>2
  <2>4. \A d \in audit' : \E x \in rows' : x.festival = d.festival
    BY <1>3, <1>4, <1>5, <2>3 DEF SubmissionInv, Judged
  <2>5. ASSUME NEW x \in rows'
        PROVE  /\ x.status = "PENDING" => \A d \in audit' : d.festival # x.festival
               /\ x.status # "PENDING" =>
                    \E d \in audit' : /\ d.festival = x.festival /\ d.action = x.status
                                      /\ \A g \in audit' : g.festival = x.festival => g = d
    <3>1. PICK z \in rows : x = F(z)
      BY <1>3
    <3>2. x.festival = z.festival /\ x.status = IF z.festival = f THEN status ELSE z.status
      BY <3>1, <1>5
    <3>3. CASE z.festival = f
      BY <1>3, <1>4, <2>2, <2>3, <3>2, <3>3
    <3>4. CASE z.festival # f
      BY <1>3, <2>3, <3>2, <3>4 DEF SubmissionInv, Judged
    <3> QED BY <3>3, <3>4
  <2> QED BY <2>4, <2>5 DEF Judged
<1> QED BY <1>7, <1>8, <1>9, <1>10, <1>11 DEF SubmissionInv

LEMMA SubmissionNextInv ==
    ASSUME SubmissionInv, [SubmissionNext]_submissionVars
    PROVE  SubmissionInv'
<1>1. CASE UNCHANGED submissionVars
  BY <1>1 DEF submissionVars, SubmissionInv, RowsFit, OneRow, Limited, Near, RequestsFit, Judged
<1>2. ASSUME NEW r \in Requests,
             \/ \E s \in Submitters, f \in Festivals : Submit(r, s, f)
             \/ \E a \in Admins, x \in rows, status \in {"APPROVED", "REJECTED"} :
                   DecideSubmission(r, a, x, status)
      PROVE  SubmissionInv'
  BY <1>2, BeginInv
<1>3. ASSUME NEW r \in Requests, FinishSubmit(r) \/ FinishDecide(r)
      PROVE  SubmissionInv'
  BY <1>3, AbortedInv, SubmitInv, DecideInv
<1>4. CASE Tick
  BY <1>4, TickInv
<1> QED BY <1>1, <1>2, <1>3, <1>4 DEF SubmissionNext

LEMMA SubmissionsHold ==
    ASSUME SubmissionInv
    PROVE  LimitKept /\ ReviewedOnce
<1>1. LimitKept
  BY DEF SubmissionInv, OneRow, Limited, Near, LimitKept
<1>2. ASSUME NEW x \in rows
      PROVE  LET of == {e \in audit : e.festival = x.festival} IN
             /\ Cardinality(of) = (IF x.status = "PENDING" THEN 0 ELSE 1)
             /\ \A e \in of : e.action = x.status
  <2> DEFINE of == {e \in audit : e.festival = x.festival}
  <2>1. CASE x.status = "PENDING"
    <3>1. of = {}
      BY <2>1 DEF SubmissionInv, Judged
    <3> QED BY <2>1, <3>1, FS_EmptySet
  <2>2. CASE x.status # "PENDING"
    <3>1. PICK e \in audit : /\ e.festival = x.festival /\ e.action = x.status
                             /\ \A d \in audit : d.festival = x.festival => d = e
      BY <2>2 DEF SubmissionInv, Judged
    <3>2. of = {e}
      BY <3>1
    <3>3. Cardinality(of) = 1
      BY <3>2, FS_Singleton, Zenon
    <3> QED BY <2>2, <3>1, <3>2, <3>3
  <2> QED BY <2>1, <2>2
<1> QED BY <1>1, <1>2 DEF ReviewedOnce

----------------------------------------------------------------------------
(* The review queue.                                                       *)

QueueTyped ==
    /\ now \in Nat /\ now > 0
    /\ polled.updatedAt \in Nat /\ polled.updatedAt < now
    /\ polled.lastAttemptAt \in Nat /\ polled.lastAttemptAt < now
    /\ IsFiniteSet(recorded)
    /\ \A a \in recorded :
          /\ a.started \in Nat /\ a.ended \in Nat /\ a.started < a.ended /\ a.ended < now
          /\ a.pending => a.found \in Contents \cup {Placeholder}

\* No two attempts end at one instant.
EndsDiffer == \A a, b \in recorded : a.ended = b.ended => a = b

\* What a worker read, and when; its claim is older than its attempt.
WorkerFits(w) ==
    /\ worker[w].at \in {"idle", "read", "started", "persisted"}
    /\ worker[w].at # "idle" =>
         /\ worker[w].conf.updatedAt \in Nat /\ worker[w].conf.updatedAt < now
         /\ polled.updatedAt = worker[w].conf.updatedAt => polled.url = worker[w].conf.url
    /\ worker[w].at \in {"started", "persisted"} =>
         /\ worker[w].started \in Nat /\ worker[w].started < now
         /\ worker[w].conf.updatedAt < worker[w].started
    /\ worker[w].at = "persisted" =>
         \E b \in recorded : b.url = worker[w].conf.url /\ b.started = worker[w].started

WorkersFit ==
    /\ worker = [w \in Workers |-> worker[w]]
    /\ \A w \in Workers : WorkerFits(w)

As(s) == Configuration(s) = Configuration(polled)

\* What began after the row last changed, or after the attempt that was completed last, began
\* under today's configuration.
AsSince(t) ==
    /\ \A a \in recorded : a.started >= t => As(a.from)
    /\ \A w \in Workers : worker[w].at = "started" /\ worker[w].started >= t => As(worker[w].from)

Completed ==
    polled.updatedAt = polled.lastAttemptAt /\ polled.lastAttemptAt > 0 =>
        \E b \in recorded : b.url = polled.url /\ AsSince(b.started)

QueueInv ==
    QueueTyped /\ EndsDiffer /\ WorkersFit /\ AsSince(polled.updatedAt) /\ Completed

LEMMA QueueInitInv ==
    ASSUME QueueInit
    PROVE  QueueInv
<1>1. recorded = {} /\ now = 1 /\ polled.updatedAt = 0 /\ polled.lastAttemptAt = 0
  BY DEF QueueInit, SourceRow
<1>2. worker = [w \in Workers |-> worker[w]] /\ \A w \in Workers : worker[w].at = "idle"
  BY DEF QueueInit, Idle
<1> QED BY <1>1, <1>2, FS_EmptySet
        DEF QueueInv, QueueTyped, EndsDiffer, WorkersFit, WorkerFits, AsSince, Completed

\* The row is configured anew, or just claimed: what is known of it starts over.
LEMMA ChangeInv ==
    ASSUME QueueInv, now' = now + 1, recorded' = recorded,
           polled'.updatedAt = now, polled'.lastAttemptAt = polled.lastAttemptAt,
           worker' = [w \in Workers |-> worker'[w]],
           \A w \in Workers :
              \/ worker'[w] = worker[w]
              \/ worker'[w] = [at |-> "read", conf |-> polled', leased |-> TRUE]
    PROVE  QueueInv'
<1>1. QueueTyped'
  BY DEF QueueInv, QueueTyped
<1>2. EndsDiffer'
  BY DEF QueueInv, EndsDiffer
<1>3. WorkersFit'
  <2> SUFFICES ASSUME NEW w \in Workers PROVE WorkerFits(w)'
    BY DEF WorkersFit
  <2>1. CASE worker'[w] = worker[w]
    <3>1. WorkerFits(w)
      BY DEF QueueInv, WorkersFit
    <3> QED BY <2>1, <3>1 DEF QueueInv, QueueTyped, WorkerFits
  <2>2. CASE worker'[w] = [at |-> "read", conf |-> polled', leased |-> TRUE]
    BY <2>2 DEF QueueInv, QueueTyped, WorkerFits
  <2> QED BY <2>1, <2>2
<1>4. AsSince(polled.updatedAt)'
  BY DEF QueueInv, QueueTyped, WorkersFit, WorkerFits, AsSince
<1>5. Completed'
  BY DEF QueueInv, QueueTyped, Completed
<1> QED BY <1>1, <1>2, <1>3, <1>4, <1>5 DEF QueueInv

\* A worker moves on, and the row stays as it is configured and stamped.
LEMMA SameInv ==
    ASSUME QueueInv, now' = now + 1, recorded' = recorded,
           polled'.updatedAt = polled.updatedAt, polled'.lastAttemptAt = polled.lastAttemptAt,
           Configuration(polled') = Configuration(polled),
           worker' = [w \in Workers |-> worker'[w]],
           \A w \in Workers :
              \/ worker'[w] = worker[w]
              \/ worker'[w] = Idle
              \/ worker'[w] = [at |-> "read", conf |-> polled, leased |-> FALSE]
              \/ /\ worker[w].at = "read"
                 /\ worker'[w] = [at |-> "started", conf |-> worker[w].conf, from |-> polled,
                                  leased |-> worker[w].leased, started |-> now]
    PROVE  QueueInv'
<1>1. QueueTyped' /\ EndsDiffer'
  BY DEF QueueInv, QueueTyped, EndsDiffer
<1>2. polled'.url = polled.url
  BY DEF Configuration
<1>3. WorkersFit'
  <2> SUFFICES ASSUME NEW w \in Workers PROVE WorkerFits(w)'
    BY DEF WorkersFit
  <2>1. CASE worker'[w] = worker[w]
    <3>1. WorkerFits(w)
      BY DEF QueueInv, WorkersFit
    <3> QED BY <1>2, <2>1, <3>1 DEF QueueInv, QueueTyped, WorkerFits
  <2>2. CASE worker'[w] = Idle
    BY <2>2 DEF Idle, WorkerFits
  <2>3. CASE worker'[w] = [at |-> "read", conf |-> polled, leased |-> FALSE]
    BY <1>2, <2>3 DEF QueueInv, QueueTyped, WorkerFits
  <2>4. CASE /\ worker[w].at = "read"
             /\ worker'[w] = [at |-> "started", conf |-> worker[w].conf, from |-> polled,
                              leased |-> worker[w].leased, started |-> now]
    BY <1>2, <2>4 DEF QueueInv, QueueTyped, WorkersFit, WorkerFits
  <2> QED BY <2>1, <2>2, <2>3, <2>4
<1>4. ASSUME NEW t, AsSince(t) PROVE AsSince(t)'
  <2>1. \A s : As(s)' <=> As(s)
    BY DEF As
  <2>2. As(polled)
    BY DEF As
  <2>3. \A a \in recorded' : a.started >= t => As(a.from)'
    BY <1>4, <2>1 DEF AsSince
  <2>4. ASSUME NEW w \in Workers, worker'[w].at = "started", worker'[w].started >= t
        PROVE  Configuration(worker'[w].from) = Configuration(polled')
    <3>1. CASE worker'[w] = worker[w]
      BY <1>4, <2>4, <3>1 DEF AsSince, As
    <3>2. CASE worker'[w] # worker[w]
      <4>1. CASE worker'[w] = Idle
        BY <2>4, <4>1 DEF Idle
      <4>2. CASE worker'[w] = [at |-> "read", conf |-> polled, leased |-> FALSE]
        BY <2>4, <4>2
      <4>3. CASE /\ worker[w].at = "read"
                 /\ worker'[w] = [at |-> "started", conf |-> worker[w].conf, from |-> polled,
                                  leased |-> worker[w].leased, started |-> now]
        <5>1. worker'[w].from = polled
          BY <4>3
        <5> QED BY <5>1
      <4> QED BY <3>2, <4>1, <4>2, <4>3
    <3> QED BY <3>1, <3>2
  <2> QED BY <2>3, <2>4 DEF AsSince, As
<1>5. AsSince(polled.updatedAt)'
  <2>1. PICK t : t = polled.updatedAt
    OBVIOUS
  <2>2. AsSince(t)'
    BY <1>4, <2>1 DEF QueueInv
  <2> QED BY <2>1, <2>2
<1>6. Completed'
  <2> SUFFICES ASSUME polled.updatedAt = polled.lastAttemptAt, polled.lastAttemptAt > 0
               PROVE  \E b \in recorded : b.url = polled'.url /\ AsSince(b.started)'
    BY DEF Completed
  <2>1. PICK b \in recorded : b.url = polled.url /\ AsSince(b.started)
    BY DEF QueueInv, Completed
  <2>2. PICK t : t = b.started
    OBVIOUS
  <2>3. AsSince(t)'
    BY <1>4, <2>1, <2>2
  <2> QED BY <1>2, <2>1, <2>2, <2>3
<1> QED BY <1>1, <1>3, <1>5, <1>6 DEF QueueInv

\* Another instant passes, without a change of the row.
LEMMA Later ==
    ASSUME QueueInv, now' = now + 1, NEW new, IsFiniteSet(new),
           recorded' = new,
           polled'.updatedAt \in {polled.updatedAt, now},
           polled'.lastAttemptAt \in {polled.lastAttemptAt, now},
           \A a \in new :
              /\ a.started \in Nat /\ a.ended \in Nat /\ a.started < a.ended /\ a.ended <= now
              /\ a.pending => a.found \in Contents \cup {Placeholder}
    PROVE  QueueTyped'
<1>1. \A a \in new : a.ended < now'
  BY DEF QueueInv, QueueTyped
<1>2. /\ now' \in Nat /\ now' > 0
      /\ polled'.updatedAt \in Nat /\ polled'.updatedAt < now'
      /\ polled'.lastAttemptAt \in Nat /\ polled'.lastAttemptAt < now'
  BY DEF QueueInv, QueueTyped
<1> QED BY <1>1, <1>2 DEF QueueTyped

LEMMA PersistInv ==
    ASSUME QueueInv, NEW w \in Workers, PersistAttempt(w)
    PROVE  QueueInv'
<1> DEFINE saved == [at |-> "persisted", conf |-> worker[w].conf, started |-> worker[w].started]
<1>1. PICK found \in Contents \cup {Placeholder, Blank} : \E a :
        /\ a = [id |-> Cardinality(recorded), url |-> worker[w].conf.url,
                year |-> worker[w].conf.year, found |-> found,
                pending |-> found # Blank, started |-> worker[w].started,
                ended |-> now, from |-> worker[w].from]
        /\ recorded' = recorded \cup {a}
  BY DEF PersistAttempt
<1>2. PICK a :
        /\ a = [id |-> Cardinality(recorded), url |-> worker[w].conf.url,
                year |-> worker[w].conf.year, found |-> found,
                pending |-> found # Blank, started |-> worker[w].started,
                ended |-> now, from |-> worker[w].from]
        /\ recorded' = recorded \cup {a}
  BY <1>1
<1>3. worker[w].at = "started" /\ now' = now + 1 /\ polled' = polled
  BY DEF PersistAttempt, Instant
<1>4. PICK s : s \in {Idle, saved} /\ worker' = [worker EXCEPT ![w] = s]
  BY DEF PersistAttempt, Step
<1>5. worker' = [v \in Workers |-> IF v = w THEN s ELSE worker[v]]
  BY <1>4 DEF QueueInv, WorkersFit
<1>6. /\ worker[w].at = "started" /\ now' = now + 1 /\ polled' = polled
      /\ worker' = [v \in Workers |-> worker'[v]]
      /\ \A v \in Workers :
            \/ v # w /\ worker'[v] = worker[v]
            \/ v = w /\ worker'[v] = Idle
            \/ v = w /\ worker'[v] = saved
  BY <1>3, <1>4, <1>5
<1>7. /\ worker[w].started \in Nat /\ worker[w].started < now
      /\ worker[w].conf.updatedAt < worker[w].started
      /\ worker[w].conf.updatedAt \in Nat
  BY <1>6 DEF QueueInv, WorkersFit, WorkerFits
<1>8. QueueTyped'
  <2>1. IsFiniteSet(recorded')
    BY <1>2, FS_AddElement DEF QueueInv, QueueTyped
  <2>2. a.pending => a.found \in Contents \cup {Placeholder}
    BY <1>2
  <2>3. a.started \in Nat /\ a.ended \in Nat /\ a.started < a.ended /\ a.ended <= now
    BY <1>2, <1>7 DEF QueueInv, QueueTyped
  <2>4. \A b \in recorded' :
           /\ b.started \in Nat /\ b.ended \in Nat /\ b.started < b.ended /\ b.ended <= now
           /\ b.pending => b.found \in Contents \cup {Placeholder}
    BY <1>2, <2>2, <2>3 DEF QueueInv, QueueTyped
  <2>5. PICK new : new = recorded'
    OBVIOUS
  <2> QED BY <1>6, <2>1, <2>4, <2>5, Later
<1>9. EndsDiffer'
  <2>1. a.ended = now
    BY <1>2
  <2>2. \A b \in recorded : b.ended \in Nat /\ b.ended < now /\ now \in Nat
    BY DEF QueueInv, QueueTyped
  <2> QED BY <1>2, <2>1, <2>2 DEF QueueInv, EndsDiffer
<1>10. WorkersFit'
  <2>1. a.url = worker[w].conf.url /\ a.started = worker[w].started /\ a \in recorded'
    BY <1>2
  <2> SUFFICES ASSUME NEW v \in Workers PROVE WorkerFits(v)'
    BY <1>6 DEF WorkersFit
  <2>2. CASE worker'[v] = worker[v]
    <3>1. WorkerFits(v)
      BY DEF QueueInv, WorkersFit
    <3> QED BY <1>2, <1>6, <2>2, <3>1 DEF QueueInv, QueueTyped, WorkerFits
  <2>3. CASE worker'[v] = Idle
    BY <2>3 DEF Idle, WorkerFits
  <2>4. CASE v = w /\ worker'[v] = saved
    BY <1>6, <1>7, <2>1, <2>4 DEF QueueInv, QueueTyped, WorkersFit, WorkerFits
  <2> QED BY <1>6, <2>2, <2>3, <2>4
<1>11. ASSUME NEW t, AsSince(t) PROVE AsSince(t)'
  <2>1. a.started = worker[w].started /\ a.from = worker[w].from
    BY <1>2
  <2>2. \A v \in Workers : worker'[v].at = "started" => worker'[v] = worker[v]
    BY <1>6 DEF Idle
  <2> QED BY <1>2, <1>6, <1>11, <2>1, <2>2 DEF AsSince, As
<1>12. AsSince(polled.updatedAt)'
  <2>1. PICK t : t = polled.updatedAt
    OBVIOUS
  <2> QED BY <1>6, <1>11, <2>1 DEF QueueInv
<1>13. Completed'
  <2> SUFFICES ASSUME polled.updatedAt = polled.lastAttemptAt, polled.lastAttemptAt > 0
               PROVE  \E b \in recorded' : b.url = polled'.url /\ AsSince(b.started)'
    BY <1>6 DEF Completed
  <2>1. PICK b \in recorded : b.url = polled.url /\ AsSince(b.started)
    BY DEF QueueInv, Completed
  <2>2. PICK t : t = b.started
    OBVIOUS
  <2> QED BY <1>2, <1>6, <1>11, <2>1, <2>2
<1> QED BY <1>8, <1>9, <1>10, <1>12, <1>13 DEF QueueInv

\* A completion that is fenced found the row as the worker had claimed it: its attempt began
\* later, and whatever began since then began under the configuration of today.
LEMMA CompletedInv ==
    ASSUME QueueInv, NEW w \in Workers, worker[w].at = "persisted", Fenced(w),
           now' = now + 1, recorded' = recorded, polled' = WithLease(Blank, now, now),
           worker' = [worker EXCEPT ![w] = Idle]
    PROVE  QueueInv'
<1>1. polled'.updatedAt = now /\ polled'.lastAttemptAt = now /\ polled'.url = polled.url
      /\ Configuration(polled') = Configuration(polled)
  BY DEF WithLease, SourceRow, Configuration
<1>2. QueueTyped' /\ EndsDiffer'
  BY <1>1 DEF QueueInv, QueueTyped, EndsDiffer
<1>3. /\ worker' = [v \in Workers |-> worker'[v]]
      /\ \A v \in Workers : worker'[v] = Idle \/ worker'[v] = worker[v]
  BY DEF QueueInv, WorkersFit, WorkerFits
<1>4. WorkersFit'
  BY <1>1, <1>3 DEF QueueInv, QueueTyped, WorkersFit, WorkerFits, Idle
<1>5. AsSince(polled.updatedAt)'
  BY <1>1, <1>3 DEF QueueInv, QueueTyped, WorkersFit, WorkerFits, AsSince, Idle
<1>6. Completed'
  <2>1. PICK b \in recorded : b.url = worker[w].conf.url /\ b.started = worker[w].started
    BY DEF QueueInv, WorkersFit, WorkerFits
  <2>2. b.url = polled'.url
    BY <1>1, <2>1 DEF Fenced, QueueInv, WorkersFit, WorkerFits
  <2>3. b.started >= polled.updatedAt /\ b.started \in Nat /\ polled.updatedAt \in Nat
    BY <2>1 DEF Fenced, QueueInv, WorkersFit, WorkerFits, QueueTyped
  <2>4. AsSince(b.started)
    BY <2>3 DEF QueueInv, QueueTyped, WorkersFit, WorkerFits, AsSince
  <2>5. \A a \in recorded' : a.started >= b.started =>
            Configuration(a.from) = Configuration(polled')
    BY <1>1, <2>4 DEF AsSince, As
  <2>6. \A v \in Workers : worker'[v].at = "started" /\ worker'[v].started >= b.started =>
            Configuration(worker'[v].from) = Configuration(polled')
    BY <1>1, <1>3, <2>4 DEF AsSince, As, Idle
  <2>7. AsSince(b.started)'
    BY <2>5, <2>6 DEF AsSince, As
  <2> QED BY <2>1, <2>2, <2>7 DEF Completed
<1> QED BY <1>2, <1>4, <1>5, <1>6 DEF QueueInv

LEMMA CompleteInv ==
    ASSUME QueueInv, NEW w \in Workers, Complete(w)
    PROVE  QueueInv'
<1>1. /\ worker[w].at = "persisted" /\ now' = now + 1 /\ recorded' = recorded
      /\ worker' = [worker EXCEPT ![w] = Idle]
  BY DEF Complete, Instant, Step
<1>2. CASE Fenced(w)
  <2>1. polled' = WithLease(Blank, now, now)
    BY <1>2 DEF Complete
  <2> QED BY <1>1, <1>2, <2>1, CompletedInv
<1>3. CASE ~Fenced(w)
  <2>1. /\ polled'.updatedAt = polled.updatedAt /\ polled'.lastAttemptAt = polled.lastAttemptAt
        /\ Configuration(polled') = Configuration(polled)
    BY <1>3 DEF Complete, WithLease, SourceRow, Configuration
  <2>2. /\ worker' = [v \in Workers |-> worker'[v]]
        /\ \A v \in Workers : worker'[v] = worker[v] \/ worker'[v] = Idle
    BY <1>1 DEF QueueInv, WorkersFit, WorkerFits
  <2> QED BY <1>1, <2>1, <2>2, SameInv
<1> QED BY <1>2, <1>3

LEMMA DecideCandidateInv ==
    ASSUME QueueInv, NEW a \in recorded, DecideCandidate(a)
    PROVE  QueueInv'
<1>1. PICK d : d = Disposed(a)
  OBVIOUS
<1>2. /\ recorded' = (recorded \ {a}) \cup {d} /\ now' = now + 1
      /\ polled' = polled /\ worker' = worker
  BY <1>1 DEF DecideCandidate, Instant
<1>3. /\ d.started = a.started /\ d.ended = a.ended /\ d.url = a.url /\ d.from = a.from
      /\ d.pending = FALSE
  BY <1>1 DEF Disposed
<1>4. QueueTyped'
  <2>1. IsFiniteSet(recorded')
    BY <1>2, FS_AddElement, FS_RemoveElement DEF QueueInv, QueueTyped
  <2>2. \A b \in recorded' :
           /\ b.started \in Nat /\ b.ended \in Nat /\ b.started < b.ended /\ b.ended <= now
           /\ b.pending => b.found \in Contents \cup {Placeholder}
    BY <1>2, <1>3 DEF QueueInv, QueueTyped
  <2>3. PICK new : new = recorded'
    OBVIOUS
  <2> QED BY <1>2, <2>1, <2>2, <2>3, Later
<1>5. EndsDiffer'
  BY <1>2, <1>3 DEF QueueInv, EndsDiffer
<1>6. \A b \in recorded : \E c \in recorded' :
          c.url = b.url /\ c.started = b.started /\ c.from = b.from
  BY <1>2, <1>3
<1>7. WorkersFit'
  BY <1>2, <1>6 DEF QueueInv, QueueTyped, WorkersFit, WorkerFits
<1>8. \A t : AsSince(t) => AsSince(t)'
  BY <1>2, <1>3 DEF AsSince, As
<1>9. Completed'
  <2> SUFFICES ASSUME polled.updatedAt = polled.lastAttemptAt, polled.lastAttemptAt > 0
               PROVE  \E b \in recorded' : b.url = polled'.url /\ AsSince(b.started)'
    BY <1>2 DEF Completed
  <2>1. PICK b \in recorded : b.url = polled.url /\ AsSince(b.started)
    BY DEF QueueInv, Completed
  <2>2. PICK c \in recorded' : c.url = b.url /\ c.started = b.started
    BY <1>6
  <2>3. PICK t : t = b.started
    OBVIOUS
  <2>4. AsSince(t)'
    BY <1>8, <2>1, <2>3
  <2> QED BY <1>2, <2>1, <2>2, <2>3, <2>4
<1>10. AsSince(polled.updatedAt)'
  <2>1. PICK t : t = polled.updatedAt
    OBVIOUS
  <2>2. AsSince(t)'
    BY <1>8, <2>1 DEF QueueInv
  <2> QED BY <1>2, <2>1, <2>2
<1> QED BY <1>4, <1>5, <1>7, <1>9, <1>10 DEF QueueInv

LEMMA QueueNextInv ==
    ASSUME QueueInv, [QueueNext]_queueVars
    PROVE  QueueInv'
<1>1. CASE UNCHANGED queueVars
  BY <1>1 DEF queueVars, QueueInv, QueueTyped, EndsDiffer, WorkersFit, WorkerFits,
     AsSince, As, Completed
<1>2. ASSUME NEW w \in Workers, ClaimSource(w)
      PROVE  QueueInv'
  <2>1. /\ now' = now + 1 /\ recorded' = recorded
        /\ polled'.updatedAt = now /\ polled'.lastAttemptAt = polled.lastAttemptAt
    BY <1>2 DEF ClaimSource, Instant, WithLease, SourceRow
  <2>2. /\ worker' = [v \in Workers |-> worker'[v]]
        /\ \A v \in Workers :
              \/ worker'[v] = worker[v]
              \/ worker'[v] = [at |-> "read", conf |-> polled', leased |-> TRUE]
    BY <1>2 DEF ClaimSource, Step, QueueInv, WorkersFit
  <2> QED BY <2>1, <2>2, ChangeInv
<1>3. CASE Edit
  <2>1. /\ now' = now + 1 /\ recorded' = recorded /\ worker' = worker
        /\ polled'.updatedAt = now /\ polled'.lastAttemptAt = polled.lastAttemptAt
    BY <1>3 DEF Edit, Instant, SourceRow
  <2>2. worker = [w \in Workers |-> worker[w]]
    BY DEF QueueInv, WorkersFit
  <2> QED BY <2>1, <2>2, ChangeInv
<1>4. ASSUME NEW w \in Workers, Select(w) \/ Start(w)
      PROVE  QueueInv'
  <2> DEFINE reads == [at |-> "read", conf |-> polled, leased |-> FALSE]
             starts(v) == [at |-> "started", conf |-> worker[v].conf, from |-> polled,
                           leased |-> worker[v].leased, started |-> now]
  <2>1. now' = now + 1 /\ recorded' = recorded /\ polled' = polled
    BY <1>4 DEF Select, Start, Instant
  <2>2. PICK s : /\ s = reads \/ (worker[w].at = "read" /\ s = starts(w))
                 /\ worker' = [worker EXCEPT ![w] = s]
    BY <1>4 DEF Select, Start, Step
  <2>3. worker' = [v \in Workers |-> IF v = w THEN s ELSE worker[v]]
    BY <2>2 DEF QueueInv, WorkersFit
  <2> HIDE DEF reads, starts
  <2>4. /\ worker' = [v \in Workers |-> worker'[v]]
        /\ \A v \in Workers :
              worker'[v] = worker[v] \/ worker'[v] = reads
                \/ (worker[v].at = "read" /\ worker'[v] = starts(v))
    BY <2>2, <2>3
  <2> QED BY <2>1, <2>4, SameInv DEF reads, starts
<1>5. ASSUME NEW w \in Workers, PersistAttempt(w) \/ Complete(w)
      PROVE  QueueInv'
  BY <1>5, PersistInv, CompleteInv
<1>6. ASSUME NEW a \in recorded, DecideCandidate(a)
      PROVE  QueueInv'
  BY <1>6, DecideCandidateInv
<1> QED BY <1>1, <1>2, <1>3, <1>4, <1>5, <1>6 DEF QueueNext

\* Of some attempts one is the newest: by start, and of those with one start by end.
LEMMA LatestIs ==
    ASSUME QueueInv, NEW S \in SUBSET recorded, S # {}
    PROVE  Latest(S) \in S /\ \A b \in S \ {Latest(S)} : Newer(Latest(S), b)
<1>1. \A a \in S : /\ a.started \in Nat /\ a.ended \in Nat /\ now - a.started \in Nat
                   /\ now - a.ended \in Nat /\ now \in Nat
  BY DEF QueueInv, QueueTyped
<1> DEFINE T == {now - a.started : a \in S}
<1>2. T \in SUBSET Nat /\ T # {}
  BY <1>1
<1>3. PICK k \in T : \A i \in T : k <= i
  BY <1>2, Least
<1>4. PICK m \in S : k = now - m.started
  BY <1>3
<1>5. ASSUME NEW b \in S PROVE b.started <= m.started
  <2>1. now - m.started <= now - b.started
    BY <1>3, <1>4
  <2> QED BY <1>1, <2>1
<1> DEFINE R == {a \in S : a.started = m.started}
           U == {now - a.ended : a \in R}
<1>6. U \in SUBSET Nat /\ U # {}
  BY <1>1, <1>4
<1>7. PICK l \in U : \A i \in U : l <= i
  BY <1>6, Least
<1>8. PICK n \in R : l = now - n.ended
  BY <1>7
<1>9. ASSUME NEW b \in R PROVE b.ended <= n.ended
  <2>1. now - n.ended <= now - b.ended
    BY <1>7, <1>8
  <2> QED BY <1>1, <2>1
<1>10. ASSUME NEW b \in S \ {n} PROVE Newer(n, b)
  <2>1. n.started = m.started /\ b.started <= n.started
    BY <1>5, <1>8
  <2>2. CASE b.started < n.started
    BY <1>1, <2>2, <1>8 DEF Newer
  <2>3. CASE b.started = n.started
    <3>1. b.ended <= n.ended
      BY <1>9, <2>1, <2>3
    <3>2. b.ended # n.ended
      BY <1>8 DEF QueueInv, EndsDiffer
    <3> QED BY <1>1, <1>8, <2>3, <3>1, <3>2 DEF Newer
  <2> QED BY <1>1, <1>8, <2>1, <2>2, <2>3
<1>11. \E a \in S : \A b \in S \ {a} : Newer(a, b)
  BY <1>8, <1>10
<1> QED BY <1>11 DEF Latest

\* A case is about one address and one content.
LEMMA CaseFits ==
    ASSUME QueueInv, NEW c \in Candidates
    PROVE  \E u \in Urls, x \in Contents :
              /\ SameContent(u, x) # {} /\ c = CaseOf(SameContent(u, x))
              /\ c.attempt = Latest(SameContent(u, x))
              /\ c.attempt \in recorded /\ c.attempt.url = u /\ c.attempt.found = x
              /\ c.actionable => ~Stale(c.attempt)
<1>1. PICK u \in Urls, x \in Contents : SameContent(u, x) # {} /\ c = CaseOf(SameContent(u, x))
  BY DEF Candidates, Groups
<1>2. SameContent(u, x) \in SUBSET recorded
  BY DEF SameContent, PendingAt
<1>3. Latest(SameContent(u, x)) \in SameContent(u, x)
  BY <1>1, <1>2, LatestIs
<1>4. c.attempt = Latest(SameContent(u, x))
  BY <1>1 DEF CaseOf
<1>5. /\ Latest(SameContent(u, x)) \in recorded
      /\ Latest(SameContent(u, x)).url = u /\ Latest(SameContent(u, x)).found = x
  BY <1>3 DEF SameContent, PendingAt
<1>6. c.actionable = (polled.enabled /\ ~Stale(Latest(SameContent(u, x))))
  BY <1>1, Zenon DEF CaseOf
<1>7. c.actionable => ~Stale(c.attempt)
  BY <1>4, <1>6, Zenon
<1> QED BY <1>1, <1>4, <1>5, <1>7

LEMMA ActionableHolds ==
    ASSUME QueueInv
    PROVE  ActionableIsFresh
<1> SUFFICES ASSUME NEW c \in Candidates, c.actionable
             PROVE  /\ \A a \in recorded : a.url = c.attempt.url => a.started <= c.attempt.started
                    /\ Configuration(c.attempt.from) = Configuration(polled)
  BY DEF ActionableIsFresh
<1>1. PICK a \in recorded : a = c.attempt /\ ~Stale(a)
  BY CaseFits
<1>2. LatestAt(a.url) = a /\ polled.url = a.url
  BY <1>1 DEF Stale
<1> DEFINE S == {b \in recorded : b.url = a.url}
<1>3. Latest(S) = a /\ S \in SUBSET recorded /\ a \in S
  BY <1>2 DEF LatestAt
<1>4. \A b \in S \ {a} : Newer(a, b)
  BY <1>3, LatestIs
<1>5. \A b \in S : b.started <= a.started
  BY <1>4 DEF Newer, QueueInv, QueueTyped
<1>6. CASE a.started >= polled.updatedAt
  BY <1>1, <1>5, <1>6 DEF QueueInv, AsSince, As
<1>7. CASE ~(a.started >= polled.updatedAt)
  <2>1. Acknowledged(a)
    BY <1>1, <1>7 DEF Stale, QueueInv, QueueTyped
  <2>2. polled.updatedAt = polled.lastAttemptAt /\ polled.lastAttemptAt > 0
    BY <2>1 DEF Acknowledged, QueueInv, QueueTyped
  <2>3. PICK b \in recorded : b.url = polled.url /\ AsSince(b.started)
    BY <2>2 DEF QueueInv, Completed
  <2>4. a.started >= b.started
    BY <1>2, <1>5, <2>3 DEF QueueInv, QueueTyped
  <2> QED BY <1>1, <1>5, <2>3, <2>4 DEF AsSince, As
<1> QED BY <1>6, <1>7

LEMMA NothingDroppedHolds ==
    ASSUME QueueInv
    PROVE  NothingDropped
<1> SUFFICES ASSUME NEW u \in Urls
      PROVE  LET cases == {c \in Candidates : c.attempt.url = u} IN
             /\ \A a \in PendingAt(u) : a.found # Placeholder =>
                   \E c \in cases : c.attempt.found = a.found /\ ~Newer(a, c.attempt)
             /\ \A c, d \in cases : c.attempt.found = d.attempt.found => c = d
             /\ \A c \in cases : c.suppressed + 1 = Cardinality(SameContent(u, c.attempt.found))
             /\ cases = {} /\ PendingAt(u) # {} => ToVerify(u)
             /\ Cardinality({c \in cases : c.actionable}) <= 1
  BY DEF NothingDropped
<1> DEFINE cases == {c \in Candidates : c.attempt.url = u}
<1>1. \A c \in cases : /\ SameContent(u, c.attempt.found) # {}
                       /\ c = CaseOf(SameContent(u, c.attempt.found))
                       /\ c.attempt \in recorded
  BY CaseFits
<1>2. ASSUME NEW a \in PendingAt(u), a.found # Placeholder
      PROVE  \E c \in cases : c.attempt.found = a.found /\ ~Newer(a, c.attempt)
  <2> DEFINE same == SameContent(u, a.found)
  <2>1. a.found \in Contents
    BY <1>2 DEF PendingAt, QueueInv, QueueTyped
  <2>2. a \in same /\ same \in SUBSET recorded
    BY DEF SameContent, PendingAt
  <2>3. CaseOf(same) \in Candidates
    BY <2>1, <2>2 DEF Candidates, Groups
  <2>4. PICK l : l = Latest(same)
    OBVIOUS
  <2>5. l \in same /\ \A b \in same \ {l} : Newer(l, b)
    BY <2>2, <2>4, LatestIs
  <2>6. ~Newer(a, l)
    BY <2>2, <2>5 DEF Newer, QueueInv, QueueTyped
  <2>7. l.url = u /\ l.found = a.found /\ CaseOf(same).attempt = l
    BY <2>4, <2>5 DEF SameContent, PendingAt, CaseOf
  <2> QED BY <2>3, <2>6, <2>7
<1>3. \A c, d \in cases : c.attempt.found = d.attempt.found => c = d
  BY <1>1
<1>4. ASSUME NEW c \in cases
      PROVE  c.suppressed + 1 = Cardinality(SameContent(u, c.attempt.found))
  <2>1. PICK same : same = SameContent(u, c.attempt.found)
    OBVIOUS
  <2>2. IsFiniteSet(recorded) /\ same \in SUBSET recorded
    BY <2>1 DEF QueueInv, QueueTyped, SameContent, PendingAt
  <2>3. Cardinality(same) \in Nat
    BY <2>2, FS_Subset, FS_CardinalityType
  <2>4. c.suppressed = Cardinality(same) - 1
    BY <1>1, <2>1 DEF CaseOf
  <2> QED BY <2>1, <2>3, <2>4
<1>5. ASSUME cases = {}, PendingAt(u) # {} PROVE ToVerify(u)
  <2>1. \A a \in PendingAt(u) : a.found = Placeholder
    BY <1>2, <1>5
  <2> QED BY <1>5, <2>1 DEF ToVerify
<1>6. Cardinality({c \in cases : c.actionable}) <= 1
  <2> DEFINE ready == {c \in cases : c.actionable}
  <2>1. ASSUME NEW c \in ready PROVE LatestAt(u) = c.attempt
    <3>1. ~Stale(c.attempt) /\ c.attempt.url = u
      BY CaseFits
    <3> QED BY <3>1 DEF Stale
  <2>2. \A c, d \in ready : c = d
    BY <1>3, <2>1
  <2> HIDE DEF cases
  <2>3. CASE ready = {}
    BY <2>3, FS_EmptySet
  <2>4. CASE ready # {}
    <3>1. PICK c : ready = {c}
      BY <2>2, <2>4
    <3>2. Cardinality(ready) = 1
      BY <3>1, FS_Singleton, Zenon
    <3> QED BY <3>2
  <2> QED BY <2>3, <2>4
<1> HIDE DEF cases
<1> QED BY <1>2, <1>3, <1>4, <1>5, <1>6 DEF cases

\* The inductive invariant of the review queue: what was completed last, what began since the
\* row changed, and under which configuration.
THEOREM QueueInductive == QueueSpec => []QueueInv
  BY QueueInitInv, QueueNextInv, PTL DEF QueueSpec

\* What is put up to act on is the newest of its address and began under the configuration of
\* today; nothing pending is dropped or put up twice.
THEOREM ReviewsAreFresh == QueueSpec => [](ActionableIsFresh /\ NothingDropped)
<1>1. QueueInv => ActionableIsFresh /\ NothingDropped
  BY ActionableHolds, NothingDroppedHolds
<1> QED BY <1>1, QueueInductive, PTL

\* A festival has one row and a visitor no more than the limit within a window, however
\* submissions overlap; a row is decided once.
THEOREM SubmissionsAreLimited == SubmissionSpec => [](LimitKept /\ ReviewedOnce)
<1>1. SubmissionInit => SubmissionInv
  BY SubmissionInitInv
<1>2. SubmissionInv /\ [SubmissionNext]_submissionVars => SubmissionInv'
  BY SubmissionNextInv
<1>3. SubmissionInv => LimitKept /\ ReviewedOnce
  BY SubmissionsHold
<1> QED BY <1>1, <1>2, <1>3, PTL DEF SubmissionSpec

\* Both queues of the administrators.
THEOREM QueuesAreSound == QueueSpec /\ SubmissionSpec => []QueuesSound
  BY ReviewsAreFresh, SubmissionsAreLimited, PTL DEF QueuesSound

----------------------------------------------------------------------------
(* Sequences of addresses.                                                 *)

\* The recursion that defines Kept, up to the n-th element.
KeptUpTo(g, s, set, n) ==
    g = [i \in 0 .. n |-> IF i = 0 THEN <<>>
                          ELSE IF s[i] \in set THEN Append(g[i - 1], s[i]) ELSE g[i - 1]]

\* A function is defined by it: the shortest prefix for which none is could be extended
\* from the one before it.
LEMMA KeptExists ==
    ASSUME NEW s, NEW set, NEW n \in Nat
    PROVE  \E g : KeptUpTo(g, s, set, n)
<1> DEFINE Missing == {k \in Nat : ~ \E g : KeptUpTo(g, s, set, k)}
<1>1. SUFFICES ASSUME Missing # {} PROVE FALSE
  OBVIOUS
<1>2. PICK k \in Missing : \A i \in Missing : k <= i
  BY <1>1, Least
<1>3. CASE k = 0
  <2>1. KeptUpTo([i \in 0 .. 0 |-> <<>>], s, set, 0)
    BY DEF KeptUpTo
  <2> QED BY <1>2, <1>3, <2>1
<1>4. CASE k # 0
  <2>1. k - 1 \in Nat /\ k - 1 \notin Missing
    BY <1>2, <1>4
  <2>2. PICK g : KeptUpTo(g, s, set, k - 1)
    BY <2>1
  <2> DEFINE h == [i \in 0 .. k |-> IF i < k THEN g[i]
                      ELSE IF s[k] \in set THEN Append(g[k - 1], s[k]) ELSE g[k - 1]]
  <2>3. ASSUME NEW i \in 0 .. k
        PROVE  h[i] = IF i = 0 THEN <<>>
                      ELSE IF s[i] \in set THEN Append(h[i - 1], s[i]) ELSE h[i - 1]
    <3>1. CASE i = k
      <4>1. h[i - 1] = g[k - 1]
        BY <1>4, <2>1, <3>1
      <4> QED BY <1>4, <3>1, <4>1
    <3>2. CASE i # k
      <4>1. i \in 0 .. k - 1 /\ h[i] = g[i]
        BY <3>2
      <4>2. i # 0 => h[i - 1] = g[i - 1]
        BY <3>2
      <4>3. g[i] = IF i = 0 THEN <<>>
                   ELSE IF s[i] \in set THEN Append(g[i - 1], s[i]) ELSE g[i - 1]
        BY <2>2, <4>1 DEF KeptUpTo
      <4> QED BY <4>1, <4>2, <4>3
    <3> QED BY <3>1, <3>2
  <2>4. KeptUpTo(h, s, set, k)
    <3>1. h = [i \in 0 .. k |-> h[i]]
      OBVIOUS
    <3> HIDE DEF h
    <3> QED BY <3>1, <2>3, Zenon DEF KeptUpTo
  <2> QED BY <1>2, <2>4
<1> QED BY <1>3, <1>4

LEMMA KeptDefined ==
    ASSUME NEW s, NEW set, Len(s) \in Nat
    PROVE  \E g : KeptUpTo(g, s, set, Len(s)) /\ Kept(s, set) = g[Len(s)]
<1>1. \E g : KeptUpTo(g, s, set, Len(s))
  BY KeptExists
<1> QED BY <1>1, Zenon DEF Kept, KeptUpTo

\* Kept keeps what is in the set, and no element twice that was there once.
LEMMA KeptMeans ==
    ASSUME NEW X, NEW s \in Seq(X), NEW set
    PROVE  /\ Kept(s, set) \in Seq(X)
           /\ ToSet(Kept(s, set)) = ToSet(s) \cap set
           /\ IsInjective(s) => IsInjective(Kept(s, set))
<1> DEFINE Right(t, i) ==
             /\ t \in Seq(X)
             /\ {t[j] : j \in 1 .. Len(t)} = {s[j] : j \in 1 .. i} \cap set
             /\ IsInjective(s) => \A j, l \in 1 .. Len(t) : t[j] = t[l] => j = l
<1>1. PICK g : KeptUpTo(g, s, set, Len(s)) /\ Kept(s, set) = g[Len(s)]
  BY KeptDefined
<1>2. ASSUME NEW i \in 0 .. Len(s)
      PROVE  g[i] = IF i = 0 THEN <<>>
                    ELSE IF s[i] \in set THEN Append(g[i - 1], s[i]) ELSE g[i - 1]
  BY <1>1 DEF KeptUpTo
<1> DEFINE Wrong == {i \in 0 .. Len(s) : ~Right(g[i], i)}
<1> HIDE DEF Right
<1>3. ASSUME Wrong # {} PROVE FALSE
  <2>1. PICK k \in Wrong : \A i \in Wrong : k <= i
    <3>1. Wrong \in SUBSET Nat
      OBVIOUS
    <3> QED BY <1>3, <3>1, Least
  <2>2. CASE k = 0
    <3>1. g[0] = <<>>
      BY <1>2
    <3>2. <<>> \in Seq(X) /\ 1 .. Len(<<>>) = {} /\ 1 .. 0 = {}
      OBVIOUS
    <3>3. Right(<<>>, 0)
      BY <3>2, Zenon DEF Right
    <3> QED BY <2>1, <2>2, <3>1, <3>3
  <2>3. CASE k # 0
    <3>1. k - 1 \in 0 .. Len(s) /\ k - 1 \notin Wrong
      BY <2>1, <2>3
    <3> DEFINE t == g[k - 1]
    <3>2. Right(t, k - 1)
      BY <3>1 DEF t
    <3> HIDE DEF t
    <3>3. s[k] \in X /\ k \in 1 .. Len(s) /\ k \in Nat
      BY <2>1, <2>3
    <3>4. {s[j] : j \in 1 .. k} = {s[j] : j \in 1 .. k - 1} \cup {s[k]}
      <4>1. 1 .. k = (1 .. k - 1) \cup {k}
        BY <3>3
      <4> QED BY <4>1
    <3>5. CASE s[k] \notin set
      <4>1. g[k] = t
        BY <1>2, <2>3, <3>3, <3>5 DEF t
      <4>2. {s[j] : j \in 1 .. k} \cap set = {s[j] : j \in 1 .. k - 1} \cap set
        BY <3>4, <3>5
      <4>3. Right(g[k], k)
        BY <3>2, <4>1, <4>2 DEF Right
      <4> QED BY <2>1, <4>3
    <3>6. CASE s[k] \in set
      <4>1. g[k] = Append(t, s[k])
        BY <1>2, <2>3, <3>3, <3>6 DEF t
      <4> DEFINE u == Append(t, s[k])
      <4>2. /\ u \in Seq(X) /\ Len(u) = Len(t) + 1 /\ Len(t) \in Nat
            /\ u[Len(t) + 1] = s[k] /\ \A j \in 1 .. Len(t) : u[j] = t[j]
        BY <3>2, <3>3 DEF Right
      <4> HIDE DEF u
      <4>3. 1 .. Len(u) = (1 .. Len(t)) \cup {Len(t) + 1}
        BY <4>2
      <4>4. {u[j] : j \in 1 .. Len(u)} = {t[j] : j \in 1 .. Len(t)} \cup {s[k]}
        BY <4>2, <4>3
      <4>5. {u[j] : j \in 1 .. Len(u)} = {s[j] : j \in 1 .. k} \cap set
        BY <3>2, <3>4, <3>6, <4>4 DEF Right
      <4>6. ASSUME IsInjective(s), NEW j \in 1 .. Len(u), NEW l \in 1 .. Len(u), u[j] = u[l]
            PROVE  j = l
        <5>1. ASSUME NEW m \in 1 .. Len(t) PROVE t[m] # s[k]
          <6>1. PICK n \in 1 .. k - 1 : t[m] = s[n]
            BY <3>2 DEF Right
          <6>2. s[n] # s[k]
            BY <3>3, <4>6 DEF IsInjective
          <6> QED BY <6>1, <6>2
        <5>2. CASE j \in 1 .. Len(t) /\ l \in 1 .. Len(t)
          BY <3>2, <4>2, <4>6, <5>2 DEF Right
        <5>3. CASE ~(j \in 1 .. Len(t) /\ l \in 1 .. Len(t))
          BY <4>2, <4>3, <4>6, <5>1, <5>3
        <5> QED BY <5>2, <5>3
      <4>7. Right(u, k)
        BY <4>2, <4>5, <4>6 DEF Right
      <4>8. Right(g[k], k)
        BY <4>1, <4>7 DEF u
      <4> QED BY <2>1, <4>8
    <3> QED BY <3>5, <3>6
  <2> QED BY <2>2, <2>3
<1>4. Right(Kept(s, set), Len(s))
  <2>1. Len(s) \in 0 .. Len(s)
    OBVIOUS
  <2>2. Right(g[Len(s)], Len(s))
    BY <1>3, <2>1
  <2> QED BY <1>1, <2>2
<1>5. DOMAIN Kept(s, set) = 1 .. Len(Kept(s, set)) /\ DOMAIN s = 1 .. Len(s)
  BY <1>4 DEF Right
<1> QED BY <1>4, <1>5, Zenon DEF Right, ToSet, IsInjective

LEMMA ArticlesOfMeans ==
    ASSUME NEW links
    PROVE  /\ ArticlesOf(links) \in Seq(ArticleSet)
           /\ ToSet(ArticlesOf(links)) \subseteq ArticleSet
           /\ IsInjective(ArticlesOf(links))
<1>1. Articles \in Seq(ArticleSet) /\ IsInjective(Articles) /\ ToSet(Articles) = ArticleSet
  BY FetchAssumption DEF ArticleSet
<1>2. /\ Kept(Articles, links) \in Seq(ArticleSet)
      /\ ToSet(Kept(Articles, links)) = ArticleSet \cap links
      /\ IsInjective(Kept(Articles, links))
  BY <1>1, KeptMeans, Zenon
<1> QED BY <1>2 DEF ArticlesOf

LEMMA IfMeans ==
    ASSUME NEW links, NEW set
    PROVE  If(links, set) \in Seq(Linked)
<1>1. <<"news", "tickets", "lineup", "landing", "category", "product", "card">> \in Seq(Linked)
  BY DEF Linked
<1> QED BY <1>1, KeptMeans, Zenon DEF If

LEMMA AtMostMeans ==
    ASSUME NEW X, NEW s \in Seq(X), NEW n \in Nat
    PROVE  /\ AtMost(s, n) \in Seq(X)
           /\ s # <<>> /\ n # 0 => AtMost(s, n) # <<>>
<1>1. CASE Len(s) > n
  <2>1. SubSeq(s, 1, n) \in Seq(X) /\ Len(SubSeq(s, 1, n)) = n
    BY <1>1
  <2> QED BY <1>1, <2>1 DEF AtMost
<1>2. CASE ~(Len(s) > n)
  BY <1>2 DEF AtMost
<1> QED BY <1>1, <1>2

LEMMA ToSetOfSeq ==
    ASSUME NEW X, NEW s \in Seq(X)
    PROVE  /\ ToSet(s) \subseteq X
           /\ s # <<>> <=> ToSet(s) # {}
<1>1. DOMAIN s = 1 .. Len(s) /\ Len(s) \in Nat
  OBVIOUS
<1>2. ASSUME s # <<>> PROVE 1 \in 1 .. Len(s)
  BY <1>2
<1>3. ASSUME s = <<>> PROVE 1 .. Len(s) = {}
  BY <1>3
<1> QED BY <1>1, <1>2, <1>3 DEF ToSet

LEMMA ToSetOfTail ==
    ASSUME NEW X, NEW s \in Seq(X), s # <<>>
    PROVE  /\ Head(s) \in X /\ Tail(s) \in Seq(X)
           /\ ToSet(s) = {Head(s)} \cup ToSet(Tail(s))
           /\ IsInjective(s) => IsInjective(Tail(s)) /\ Head(s) \notin ToSet(Tail(s))
<1> DEFINE t == Tail(s)
<1>1. /\ Head(s) = s[1] /\ Head(s) \in X /\ t \in Seq(X) /\ Len(t) = Len(s) - 1
      /\ Len(s) \in Nat \ {0} /\ \A i \in 1 .. Len(t) : t[i] = s[i + 1]
  OBVIOUS
<1>2. DOMAIN t = 1 .. Len(t) /\ DOMAIN s = 1 .. Len(s)
  BY <1>1
<1> HIDE DEF t
<1>3. ToSet(s) = {Head(s)} \cup ToSet(t)
  <2>1. ASSUME NEW i \in 1 .. Len(s) PROVE s[i] \in {Head(s)} \cup ToSet(t)
    <3>1. CASE i = 1
      BY <1>1, <3>1
    <3>2. CASE i # 1
      <4>1. i - 1 \in 1 .. Len(t) /\ s[i] = t[i - 1]
        BY <1>1, <3>2
      <4> QED BY <1>2, <4>1 DEF ToSet
    <3> QED BY <3>1, <3>2
  <2>2. ASSUME NEW i \in 1 .. Len(t) PROVE t[i] \in ToSet(s)
    <3>1. i + 1 \in 1 .. Len(s) /\ t[i] = s[i + 1]
      BY <1>1
    <3> QED BY <1>2, <3>1 DEF ToSet
  <2>3. Head(s) \in ToSet(s)
    <3>1. 1 \in 1 .. Len(s)
      BY <1>1
    <3> QED BY <1>1, <1>2, <3>1 DEF ToSet
  <2> QED BY <1>2, <2>1, <2>2, <2>3 DEF ToSet
<1>4. ASSUME IsInjective(s) PROVE IsInjective(t) /\ Head(s) \notin ToSet(t)
  <2>1. ASSUME NEW i \in 1 .. Len(t), NEW j \in 1 .. Len(t), t[i] = t[j] PROVE i = j
    <3>1. i + 1 \in 1 .. Len(s) /\ j + 1 \in 1 .. Len(s) /\ s[i + 1] = s[j + 1]
      BY <1>1, <2>1
    <3>2. i + 1 = j + 1
      BY <1>2, <1>4, <3>1, Zenon DEF IsInjective
    <3> QED BY <3>2
  <2>2. ASSUME NEW i \in 1 .. Len(t) PROVE t[i] # Head(s)
    <3>1. i + 1 \in 1 .. Len(s) /\ 1 \in 1 .. Len(s) /\ i + 1 # 1
      BY <1>1
    <3>2. s[i + 1] # s[1]
      BY <1>2, <1>4, <3>1, Zenon DEF IsInjective
    <3> QED BY <1>1, <3>2
  <2> QED BY <1>2, <2>1, <2>2 DEF IsInjective, ToSet
<1> QED BY <1>1, <1>3, <1>4 DEF t

LEMMA ToSetOfConcat ==
    ASSUME NEW X, NEW s \in Seq(X), NEW t \in Seq(X)
    PROVE  s \o t \in Seq(X) /\ ToSet(s \o t) = ToSet(s) \cup ToSet(t)
<1> DEFINE r == s \o t
<1>1. /\ r \in Seq(X) /\ Len(r) = Len(s) + Len(t) /\ Len(s) \in Nat /\ Len(t) \in Nat
      /\ \A i \in 1 .. Len(s) + Len(t) : r[i] = IF i <= Len(s) THEN s[i] ELSE t[i - Len(s)]
  OBVIOUS
<1>2. DOMAIN r = 1 .. Len(r) /\ DOMAIN s = 1 .. Len(s) /\ DOMAIN t = 1 .. Len(t)
  BY <1>1
<1> HIDE DEF r
<1>3. ASSUME NEW i \in 1 .. Len(r) PROVE r[i] \in ToSet(s) \cup ToSet(t)
  <2>1. CASE i <= Len(s)
    BY <1>1, <1>2, <2>1 DEF ToSet
  <2>2. CASE ~(i <= Len(s))
    <3>1. i - Len(s) \in 1 .. Len(t) /\ r[i] = t[i - Len(s)]
      BY <1>1, <2>2
    <3> QED BY <1>2, <3>1 DEF ToSet
  <2> QED BY <2>1, <2>2
<1>4. ASSUME NEW i \in 1 .. Len(s) PROVE s[i] \in ToSet(r)
  <2>1. i \in 1 .. Len(r) /\ r[i] = s[i]
    BY <1>1
  <2> QED BY <1>2, <2>1 DEF ToSet
<1>5. ASSUME NEW i \in 1 .. Len(t) PROVE t[i] \in ToSet(r)
  <2>1. PICK j \in 1 .. Len(s) + Len(t) : j = i + Len(s)
    BY <1>1
  <2>2. ~(j <= Len(s)) /\ j - Len(s) = i
    BY <1>1, <2>1
  <2>3. j \in 1 .. Len(r) /\ r[j] = t[i]
    BY <1>1, <2>2
  <2> QED BY <1>2, <2>3 DEF ToSet
<1>6. ToSet(r) = ToSet(s) \cup ToSet(t)
  BY <1>2, <1>3, <1>4, <1>5 DEF ToSet
<1> QED BY <1>1, <1>6 DEF r

----------------------------------------------------------------------------
(* What a page leads to.                                                   *)

\* What may be asked for.
Addresses == Places \cup ArticleSet

\* What a page leads to are addresses, whatever it links to.
LEMMA FollowingTyped ==
    ASSUME NEW u, NEW links
    PROVE  Following(u, links) \in Seq(Addresses)
<1> DEFINE all == ArticlesOf(links)
           S == Seq(Addresses)
<1>1. all \in S /\ AtMost(all, 1) \in S /\ AtMost(all, MaxRead) \in S
  <2>1. all \in S
    BY ArticlesOfMeans DEF Addresses
  <2>2. MaxRead \in Nat /\ 1 \in Nat
    BY FetchAssumption
  <2> HIDE DEF all
  <2> QED BY <2>1, <2>2, AtMostMeans
<1>2. ASSUME NEW set PROVE If(links, set) \in S /\ AtMost(If(links, set), 1) \in S
  <2>1. If(links, set) \in S
    BY IfMeans DEF Addresses, Places
  <2> QED BY <2>1, AtMostMeans
<1>3. ASSUME NEW x \in S, NEW y \in S PROVE x \o y \in S
  BY <1>3
<1>4. \A p, q \in Places : <<p>> \in S /\ <<p, q>> \in S
  BY DEF Addresses
<1>5. <<>> \in S
  OBVIOUS
<1>6. {"source", "home", "roster", "program", "sale", "storefront", "news", "tickets", "lineup",
       "pass"} \subseteq Places
  BY DEF Places, Linked
<1> HIDE DEF all, S
<1>7. Graspop(u, links) \in S
  BY <1>1, <1>3, <1>4, <1>5, <1>6 DEF Graspop, all
<1>8. Tuska(u, links) \in S
  BY <1>1, <1>2, <1>3, <1>5 DEF Tuska, all
<1>9. Impericon(u, links) \in S
  BY <1>1, <1>5 DEF Impericon, all
<1>10. Roadburn(u, links) \in S
  BY <1>1, <1>2, <1>3, <1>5 DEF Roadburn, all
<1>11. BrutalAssault(u, links) \in S
  BY <1>4, <1>5, <1>6 DEF BrutalAssault
<1>12. Leyendas(u, links) \in S
  BY <1>1, <1>4, <1>5, <1>6 DEF Leyendas, all
<1>13. AlpenFlair(u, links) \in S
  BY <1>1, <1>5 DEF AlpenFlair, all
<1>14. Motocultor(u, links) \in S
  BY <1>1, <1>4, <1>5, <1>6 DEF Motocultor, all
<1>15. Copenhell(u, links) \in S
  BY <1>1, <1>2, <1>3, <1>4, <1>5, <1>6 DEF Copenhell, all
<1>16. RockInRoma(u, links) \in S
  BY <1>1, <1>2, <1>5 DEF RockInRoma, all
<1>17. Polandrock(u, links) \in S
  BY <1>1, <1>5 DEF Polandrock, all
<1>18. LinkedTickets(u, links) \in S
  BY <1>2, <1>5 DEF LinkedTickets
<1>19. Dynamo(u, links) \in S
  BY <1>1, <1>2, <1>4, <1>5, <1>6 DEF Dynamo, all
<1>20. RockImperium(u, links) \in S
  BY <1>2, <1>5 DEF RockImperium
<1>21. NovaRock(u, links) \in S
  BY <1>4, <1>5, <1>6 DEF NovaRock
<1>22. FollowLink(u, links) \in S
  BY <1>1, <1>5 DEF FollowLink, all
<1>23. Following(u, links) \in S
  BY <1>5, <1>7, <1>8, <1>9, <1>10, <1>11, <1>12, <1>13, <1>14, <1>15, <1>16, <1>17, <1>18, <1>19,
     <1>20, <1>21, <1>22, Zenon DEF Following
<1> QED BY <1>23 DEF S

\* Which pages the others lead to that a response cannot do without.
LEMMA FollowingMeans ==
    ASSUME NEW u, NEW links, ~Unusable(u, links)
    PROVE  LET next == ToSet(Following(u, links)) IN
           /\ site = "brutal-assault" =>
                 /\ u = "source" => {"lineup", "tickets"} \subseteq next
                 /\ u = "tickets" => "pass" \in next
           /\ site = "leyendas" /\ u = "source" => {"news", "tickets"} \subseteq next
           /\ site = "copenhell" =>
                 /\ u = "source" => "home" \in next
                 /\ u = "home" => {"program", "tickets"} \subseteq next
           /\ site = "nova-rock" /\ u = "source" => "tickets" \in next
           /\ site = "motocultor" =>
                 /\ u = "source" => "news" \in next
                 /\ u = "news" => next \cap ArticleSet # {}
           /\ site = "graspop" /\ next \cap ArticleSet # {} => "roster" \in next
           /\ site = "impericon" =>
                 /\ u = "source" => next \cap ArticleSet # {}
                 /\ next \subseteq ArticleSet
                 /\ IsInjective(Following(u, links))
                 /\ u # "source" => next = {}
<1> DEFINE all == ArticlesOf(links)
<1>1. all \in Seq(ArticleSet) /\ ToSet(all) \subseteq ArticleSet /\ IsInjective(all)
  BY ArticlesOfMeans
<1>2. ASSUME all # <<>> PROVE ToSet(all) # {} /\ ToSet(AtMost(all, 1)) \cap ArticleSet # {}
  <2> HIDE DEF all
  <2>1. AtMost(all, 1) \in Seq(ArticleSet) /\ AtMost(all, 1) # <<>>
    BY <1>1, <1>2, AtMostMeans
  <2> QED BY <1>1, <1>2, <2>1, ToSetOfSeq
<1>3. ToSet(<<>>) = {}
  BY DEF ToSet
<1>4. \A x : ToSet(<<x>>) = {x}
  BY DEF ToSet
<1>5. \A x, y : ToSet(<<x, y>>) = {x, y}
  BY DEF ToSet
<1>6. IsInjective(<<>>)
  BY DEF IsInjective
<1> HIDE DEF all
<1>7. CASE site = "brutal-assault"
  <2>1. Following(u, links) = BrutalAssault(u, links)
    BY <1>7 DEF Following
  <2> QED BY <1>4, <1>5, <1>7, <2>1 DEF BrutalAssault
<1>8. CASE site = "leyendas"
  <2>1. Following(u, links) = Leyendas(u, links)
    BY <1>8 DEF Following
  <2> QED BY <1>4, <1>5, <1>8, <2>1 DEF Leyendas
<1>9. CASE site = "copenhell"
  <2>1. Following(u, links) = Copenhell(u, links)
    BY <1>9 DEF Following
  <2>2. AtMost(all, MaxRead) \in Seq(Addresses) /\ <<"program", "tickets">> \in Seq(Addresses)
    <3>1. MaxRead \in Nat /\ all \in Seq(Addresses)
      BY <1>1, FetchAssumption DEF Addresses
    <3>2. AtMost(all, MaxRead) \in Seq(Addresses)
      BY <3>1, AtMostMeans
    <3> QED BY <3>2 DEF Addresses, Places, Linked
  <2>3. ToSet(AtMost(all, MaxRead) \o <<"program", "tickets">>)
           = ToSet(AtMost(all, MaxRead)) \cup ToSet(<<"program", "tickets">>)
    BY <2>2, ToSetOfConcat, Zenon
  <2> QED BY <1>4, <1>5, <1>9, <2>1, <2>3 DEF Copenhell, all
<1>10. CASE site = "nova-rock"
  <2>1. Following(u, links) = NovaRock(u, links)
    BY <1>10 DEF Following
  <2> QED BY <1>4, <1>10, <2>1 DEF NovaRock
<1>11. CASE site = "motocultor"
  <2>1. Following(u, links) = Motocultor(u, links)
    BY <1>11 DEF Following
  <2>2. u = "news" => all # <<>>
    BY <1>11 DEF Unusable, all
  <2> QED BY <1>2, <1>4, <1>11, <2>1, <2>2 DEF Motocultor, all
<1>12. CASE site = "graspop"
  <2>1. Following(u, links) = Graspop(u, links)
    BY <1>12 DEF Following
  <2>2. <<"roster">> \in Seq(Addresses) /\ all \in Seq(Addresses)
    BY <1>1 DEF Addresses, Places
  <2>3. ToSet(<<"roster">> \o all) = ToSet(<<"roster">>) \cup ToSet(all)
    BY <2>2, ToSetOfConcat, Zenon
  <2>4. "home" \notin ArticleSet
    BY FetchAssumption DEF Places
  <2> QED BY <1>3, <1>4, <1>12, <2>1, <2>3, <2>4 DEF Graspop, all
<1>13. CASE site = "impericon"
  <2>1. Following(u, links) = Impericon(u, links)
    BY <1>13 DEF Following
  <2>2. u = "source" => all # <<>>
    BY <1>13 DEF Unusable, all
  <2> QED BY <1>1, <1>2, <1>3, <1>6, <1>13, <2>1, <2>2 DEF Impericon, all
<1>14. CASE site \notin {"brutal-assault", "leyendas", "copenhell", "nova-rock", "motocultor",
                        "graspop", "impericon"}
  BY <1>14, Zenon
<1> QED BY <1>7, <1>8, <1>9, <1>10, <1>11, <1>12, <1>13, <1>14, Zenon

----------------------------------------------------------------------------
(* The requests of one check.                                              *)

\* What was read or will be; the announcements read; and the pages and redirects that
\* were asked for with success.
Ahead == Got \cup ToSet(queue)
Announcements == {d \in ToSet(docs) : d.url \in ArticleSet}
Reads == Len(docs) + Cardinality(Announcements) + IF moved THEN 1 ELSE 0
Documents == [url : Addresses, place : {"same", "official", "away"}]

HttpTyped ==
    /\ site \in Sites /\ queue \in Seq(Addresses) /\ attempt \in 1 .. MaxAttempts
    /\ moved \in BOOLEAN /\ docs \in Seq(Documents)
    /\ attempts \in Nat /\ requests \in Nat /\ delay \in 0 .. 30
    /\ result \in {Nil} \cup [ok : BOOLEAN, thrown : BOOLEAN, attempts : Nat \cup {Nil}]
    /\ result = Nil => queue # <<>>

\* The requests made are those that were answered and the ones for the present page.
Counting ==
    /\ result = Nil => /\ attempts + attempt = requests + 1
                       /\ requests + 1 <= MaxAttempts * Reads + attempt
    /\ result # Nil => /\ requests <= MaxAttempts * (Reads + 1)
                       /\ ~result.thrown => result.attempts = requests

\* What the pages read lead to was read or will be.
Whole ==
    /\ result # Nil /\ result.ok => queue = <<>>
    /\ "source" \in Ahead
    /\ site = "brutal-assault" =>
          /\ "source" \in Got => {"lineup", "tickets"} \subseteq Ahead
          /\ "tickets" \in Got => "pass" \in Ahead
    /\ site = "leyendas" /\ "source" \in Got => {"news", "tickets"} \subseteq Ahead
    /\ site = "copenhell" =>
          /\ "source" \in Got => "home" \in Ahead
          /\ "home" \in Got => {"program", "tickets"} \subseteq Ahead
    /\ site = "nova-rock" /\ "source" \in Got => "tickets" \in Ahead
    /\ site = "motocultor" =>
          /\ "source" \in Got => "news" \in Ahead
          /\ "news" \in Got => Ahead \cap ArticleSet # {}
    /\ site = "graspop" /\ Ahead \cap ArticleSet # {} => "roster" \in Ahead
    /\ site = "impericon" /\ "source" \in Got => Ahead \cap ArticleSet # {}

\* Whoever served the documents.
Served ==
    \A d \in ToSet(docs) :
        d.place = "away" => \/ site \in {"motocultor", "nova-rock", "linked"}
                            \/ site = "brutal-assault" /\ d.url = "source"

\* Impericon asks for an announcement once, so one redirect of it is followed.
Once ==
    /\ moved => site = "impericon" /\ queue # <<>> /\ Head(queue) \in ArticleSet
    /\ site = "impericon" =>
          /\ IsInjective(queue) /\ ToSet(queue) \cap Got = {}
          /\ IF docs = <<>> THEN queue = <<"source">> ELSE ToSet(queue) \subseteq ArticleSet

FetchInv == HttpTyped /\ Counting /\ Whole /\ Served /\ Once

LEMMA FetchInvInit == FetchInit => FetchInv
<1> SUFFICES ASSUME FetchInit PROVE FetchInv
  OBVIOUS
<1> USE DEF FetchInit
<1>1. ToSet(docs) = {} /\ ToSet(queue) = {"source"} /\ IsInjective(queue)
  BY DEF ToSet, IsInjective
<1>2. Got = {} /\ Ahead = {"source"} /\ Announcements = {} /\ "source" \notin ArticleSet
  BY <1>1, FetchAssumption DEF Got, Ahead, Announcements, Places
<1>3. HttpTyped
  <2>1. "source" \in Addresses /\ MaxAttempts \in Nat \ {0}
    BY FetchAssumption DEF Addresses, Places
  <2>2. queue \in Seq(Addresses) /\ queue # <<>> /\ docs \in Seq(Documents)
    BY <2>1
  <2>3. attempt \in 1 .. MaxAttempts /\ attempts \in Nat /\ requests \in Nat /\ delay \in 0 .. 30
    BY <2>1
  <2> QED BY <2>2, <2>3, Zenon DEF HttpTyped
<1>4. Counting
  <2>1. Cardinality(Announcements) = 0
    BY <1>2, FS_EmptySet
  <2>2. Reads = 0
    BY <2>1 DEF Reads
  <2>3. MaxAttempts * 0 = 0
    BY FetchAssumption
  <2> QED BY <2>2, <2>3 DEF Counting
<1>5. Whole
  BY <1>2 DEF Whole
<1>6. Served
  BY <1>1 DEF Served
<1>7. Once
  BY <1>1, <1>2 DEF Once
<1> QED BY <1>3, <1>4, <1>5, <1>6, <1>7 DEF FetchInv

LEMMA AnswersPlaces ==
    ASSUME NEW a \in Answers
    PROVE  /\ a.place \in {"same", "official", "away"}
           /\ a.status = "busy" => a.after \in Delays \cup {Nil}
           /\ a.status \in {"ok", "refused", "busy", "exception"}
  BY DEF Answers

\* A result is not Nil.
LEMMA Returned ==
    ASSUME NEW ok \in BOOLEAN, NEW thrown \in BOOLEAN, NEW n \in Nat \cup {Nil}
    PROVE  LET r == [ok |-> ok, thrown |-> thrown, attempts |-> n] IN
           /\ r \in [ok : BOOLEAN, thrown : BOOLEAN, attempts : Nat \cup {Nil}]
           /\ r # Nil /\ r.ok = ok /\ r.thrown = thrown /\ r.attempts = n
  BY FetchAssumption

\* The documents are finite in number, and so the announcements among them.
LEMMA ReadsTyped ==
    ASSUME HttpTyped
    PROVE  IsFiniteSet(Announcements) /\ Cardinality(Announcements) \in Nat /\ Reads \in Nat
<1>1. Len(docs) \in Nat /\ DOMAIN docs = 1 .. Len(docs)
  BY DEF HttpTyped
<1>2. IsFiniteSet(DOMAIN docs)
  BY <1>1, FS_Interval
<1>3. IsFiniteSet(ToSet(docs))
  <2>1. docs \in Surjection(DOMAIN docs, ToSet(docs))
    BY <1>1 DEF Surjection, ToSet, HttpTyped
  <2> QED BY <1>2, <2>1, FS_Surjection
<1>4. IsFiniteSet(Announcements)
  BY <1>3, FS_Subset DEF Announcements
<1>5. Cardinality(Announcements) \in Nat
  BY <1>4, FS_CardinalityType
<1> QED BY <1>1, <1>4, <1>5 DEF Reads, HttpTyped

LEMMA OneMore ==
    ASSUME NEW n \in Nat
    PROVE  /\ MaxAttempts * n \in Nat /\ MaxAttempts * (n + 1) \in Nat
           /\ MaxAttempts * (n + 1) = MaxAttempts * n + MaxAttempts
<1>1. MaxAttempts \in Nat
  BY FetchAssumption
<1> QED BY <1>1

\* A request that is made again, and one that is given up.
LEMMA RetryInv ==
    ASSUME FetchInv, NEW a \in Answers, Retry(a)
    PROVE  FetchInv'
<1> USE DEF FetchInv
<1>1. /\ result = Nil /\ attempt < MaxAttempts /\ requests' = requests + 1 /\ attempt' = attempt + 1
      /\ site' = site /\ queue' = queue /\ moved' = moved /\ docs' = docs /\ attempts' = attempts
      /\ result' = result
  BY DEF Retry
<1>2. delay' \in 0 .. 30
  <2>1. Backoff \in 0 .. 30
    <3>1. attempt \in Nat \ {0}
      BY FetchAssumption DEF HttpTyped
    <3>2. CASE attempt > 5
      BY <3>2 DEF Backoff
    <3>3. CASE ~(attempt > 5)
      <4>1. attempt \in {1, 2, 3, 4, 5}
        BY <3>1, <3>3
      <4> QED BY <4>1 DEF Backoff
    <3> QED BY <3>2, <3>3
  <2>2. ASSUME ~Fails(a), a.after # Nil PROVE Capped(a.after) \in 0 .. 30
    <3>1. a.after \in Delays
      BY <2>2, AnswersPlaces DEF Retry
    <3>2. a.after \in Nat
      BY <3>1, FetchAssumption
    <3> QED BY <3>2 DEF Capped
  <2> QED BY <2>1, <2>2, Zenon DEF Retry
<1>3. Got' = Got /\ Ahead' = Ahead /\ Reads' = Reads
  BY <1>1 DEF Got, Ahead, Reads, Announcements
<1>4. MaxAttempts \in Nat /\ Reads \in Nat /\ MaxAttempts * Reads \in Nat /\ attempts \in Nat
      /\ requests \in Nat /\ attempt \in Nat /\ attempt >= 1
  BY FetchAssumption, ReadsTyped, OneMore DEF HttpTyped
<1>5. HttpTyped'
  <2>1. attempt' \in 1 .. MaxAttempts /\ requests' \in Nat
    BY <1>1, <1>4
  <2> QED BY <1>1, <1>2, <2>1, Zenon DEF HttpTyped
<1>6. Counting'
  <2>1. attempts' + attempt' = requests' + 1 /\ requests' + 1 <= MaxAttempts * Reads + attempt'
    BY <1>1, <1>4 DEF Counting
  <2> QED BY <1>1, <1>3, <2>1 DEF Counting
<1>7. Whole'
  BY <1>1, <1>3, Zenon DEF Whole
<1>8. Served' /\ Once'
  BY <1>1, <1>3, Zenon DEF Served, Once
<1> QED BY <1>5, <1>6, <1>7, <1>8

\* A response without success that leaves the pages as they are.
LEMMA EndInv ==
    ASSUME FetchInv, result = Nil, requests' = requests + 1,
           UNCHANGED <<site, queue, attempt, moved, docs, delay>>, attempts' \in Nat,
           result' \in [ok : BOOLEAN, thrown : BOOLEAN, attempts : Nat \cup {Nil}], result' # Nil,
           ~result'.ok, ~result'.thrown => result'.attempts = requests'
    PROVE  FetchInv'
<1> USE DEF FetchInv
<1>1. Got' = Got /\ Ahead' = Ahead /\ Reads' = Reads
  BY DEF Got, Ahead, Reads, Announcements
<1>2. MaxAttempts \in Nat /\ Reads \in Nat /\ MaxAttempts * Reads \in Nat /\ requests \in Nat
      /\ attempt \in Nat /\ attempt <= MaxAttempts
  BY FetchAssumption, ReadsTyped, OneMore DEF HttpTyped
<1>3. HttpTyped'
  <2>1. requests' \in Nat
    BY <1>2
  <2> QED BY <2>1, Zenon DEF HttpTyped
<1>4. Counting'
  <2>1. requests + 1 <= MaxAttempts * Reads + attempt
    BY DEF Counting
  <2>2. requests' <= MaxAttempts * (Reads + 1)
    <3>1. MaxAttempts * (Reads + 1) = MaxAttempts * Reads + MaxAttempts
      BY <1>2, OneMore
    <3> QED BY <1>2, <2>1, <3>1
  <2> QED BY <1>1, <2>2 DEF Counting
<1>5. Whole'
  BY <1>1, Zenon DEF Whole
<1>6. Served' /\ Once'
  BY <1>1, Zenon DEF Served, Once
<1> QED BY <1>3, <1>4, <1>5, <1>6

LEMMA ExhaustInv ==
    ASSUME FetchInv, NEW a \in Answers, Exhaust(a)
    PROVE  FetchInv'
<1>1. /\ result' \in [ok : BOOLEAN, thrown : BOOLEAN, attempts : Nat \cup {Nil}] /\ result' # Nil
      /\ ~result'.ok /\ result'.thrown
  BY Returned DEF Exhaust, Throw
<1>2. attempts' \in Nat
  BY DEF Exhaust, FetchInv, HttpTyped
<1> QED BY <1>1, <1>2, EndInv, Zenon DEF Exhaust

LEMMA AnswerCounts ==
    ASSUME FetchInv, result = Nil, Answer, requests' = requests + 1
    PROVE  attempts' \in Nat /\ attempts' = requests'
<1>1. attempts \in Nat /\ requests \in Nat /\ attempt \in Nat /\ attempts + attempt = requests + 1
  BY FetchAssumption DEF FetchInv, HttpTyped, Counting
<1> QED BY <1>1 DEF Answer

LEMMA RefuseInv ==
    ASSUME FetchInv, NEW a \in Answers, Refuse(a)
    PROVE  FetchInv'
<1>1. attempts' \in Nat /\ attempts' = requests'
  BY AnswerCounts DEF Refuse
<1>2. /\ result' \in [ok : BOOLEAN, thrown : BOOLEAN, attempts : Nat \cup {Nil}] /\ result' # Nil
      /\ ~result'.ok /\ (~result'.thrown => result'.attempts = requests')
  <2>1. CASE Throw
    BY <2>1, Returned DEF Throw
  <2>2. CASE Return(FALSE)
    BY <1>1, <2>2, Returned DEF Return
  <2> QED BY <2>1, <2>2 DEF Refuse, Failed
<1> QED BY <1>1, <1>2, EndInv, Zenon DEF Refuse, Failed

LEMMA FollowByHandInv ==
    ASSUME FetchInv, NEW a \in Answers, FollowByHand(a)
    PROVE  FetchInv'
<1>1. attempts' \in Nat /\ attempts' = requests'
  BY AnswerCounts DEF FollowByHand
<1>2. CASE Throw /\ UNCHANGED <<attempt, moved>>
  <2>1. /\ result' \in [ok : BOOLEAN, thrown : BOOLEAN, attempts : Nat \cup {Nil}] /\ result' # Nil
        /\ ~result'.ok /\ result'.thrown
    BY <1>2, Returned DEF Throw
  <2> QED BY <1>1, <1>2, <2>1, EndInv, Zenon DEF FollowByHand
<1>3. CASE attempt' = 1 /\ moved' = TRUE /\ UNCHANGED result
  <2>1. /\ result = Nil /\ result' = Nil /\ requests' = requests + 1 /\ site' = site
        /\ queue' = queue /\ docs' = docs /\ delay' = delay
    BY <1>3 DEF FollowByHand
  <2>2. site = "impericon" /\ ~moved /\ Head(queue) # "source"
    <3>1. Redirect(Head(queue)) = "manual"
      BY DEF FollowByHand
    <3> QED BY <3>1 DEF Redirect
  <2>3. Got' = Got /\ Ahead' = Ahead /\ Announcements' = Announcements
    BY <2>1 DEF Got, Ahead, Announcements
  <2>4. queue # <<>> /\ queue \in Seq(Addresses)
    BY <2>1 DEF FetchInv, HttpTyped
  <2>5. Head(queue) \in ArticleSet
    <3>1. docs # <<>>
      BY <2>2 DEF FetchInv, Once
    <3>2. Head(queue) \in ToSet(queue)
      BY <2>4, ToSetOfTail
    <3> QED BY <2>2, <3>1, <3>2 DEF FetchInv, Once
  <2>6. HttpTyped'
    <3>1. attempt' \in 1 .. MaxAttempts /\ requests' \in Nat
      BY <1>3, <2>1, FetchAssumption DEF FetchInv, HttpTyped
    <3> QED BY <1>1, <1>3, <2>1, <3>1, Zenon DEF FetchInv, HttpTyped
  <2>7. Counting'
    <3>1. Reads' = Reads + 1 /\ Reads \in Nat
      BY <1>3, <2>1, <2>2, <2>3, ReadsTyped DEF Reads, FetchInv, HttpTyped
    <3>2. /\ MaxAttempts \in Nat /\ requests \in Nat /\ attempt \in Nat /\ attempt <= MaxAttempts
          /\ requests + 1 <= MaxAttempts * Reads + attempt
      BY <2>1, FetchAssumption DEF FetchInv, HttpTyped, Counting
    <3>3. MaxAttempts * Reads \in Nat /\ MaxAttempts * (Reads + 1) = MaxAttempts * Reads + MaxAttempts
      BY <3>1, OneMore
    <3>4. requests + 2 <= MaxAttempts * (Reads + 1) + 1
      BY <3>2, <3>3
    <3>5. attempts' + attempt' = requests' + 1
      BY <1>1, <1>3
    <3>6. requests' + 1 <= MaxAttempts * Reads' + attempt'
      BY <1>3, <2>1, <3>1, <3>2, <3>4
    <3> QED BY <2>1, <3>5, <3>6 DEF Counting
  <2>8. Whole'
    BY <2>1, <2>3, Zenon DEF FetchInv, Whole
  <2>9. Served' /\ Once'
    BY <1>3, <2>1, <2>2, <2>3, <2>4, <2>5, Zenon DEF FetchInv, Served, Once
  <2> QED BY <2>6, <2>7, <2>8, <2>9 DEF FetchInv
<1> QED BY <1>2, <1>3, Zenon DEF FollowByHand

LEMMA Monotone ==
    ASSUME NEW n \in Nat, NEW k \in Nat, n <= k
    PROVE  MaxAttempts * n <= MaxAttempts * k
<1>1. PICK j \in Nat : k = n + j
  <2>1. k - n \in Nat /\ k = n + (k - n)
    OBVIOUS
  <2> QED BY <2>1
<1>2. MaxAttempts \in Nat
  BY FetchAssumption
<1>3. MaxAttempts * (n + j) = MaxAttempts * n + MaxAttempts * j /\ MaxAttempts * j \in Nat
      /\ MaxAttempts * n \in Nat
  BY <1>2
<1> QED BY <1>1, <1>3

\* A page that was read, with what it leads to.
Reading(a, links) ==
    LET u == Head(queue) IN
    /\ result = Nil /\ queue # <<>> /\ Trusted(u, a.place) /\ ~Unusable(u, links)
    /\ requests' = requests + 1 /\ Answer
    /\ docs' = Append(docs, [url |-> u, place |-> a.place])
    /\ queue' = Remaining(u, links)
    /\ attempt' = 1 /\ moved' = FALSE
    /\ IF queue' = <<>> THEN Return(TRUE) ELSE UNCHANGED result
    /\ UNCHANGED <<site, delay>>

\* The page becomes a document, and what it leads to is read unless it was.
LEMMA Advance ==
    ASSUME FetchInv, NEW a \in Answers, NEW links, Reading(a, links)
    PROVE  LET u == Head(queue)
               d == [url |-> u, place |-> a.place] IN
           /\ u \in Addresses /\ Tail(queue) \in Seq(Addresses)
           /\ ToSet(queue) = {u} \cup ToSet(Tail(queue))
           /\ docs' \in Seq(Documents) /\ ToSet(docs') = ToSet(docs) \cup {d}
           /\ Len(docs') = Len(docs) + 1
           /\ Got' = Got \cup {u}
           /\ queue' \in Seq(Addresses)
           /\ ToSet(queue') = ToSet(Tail(queue)) \cup (ToSet(Following(u, links)) \ Got')
           /\ Ahead' = Ahead \cup ToSet(Following(u, links))
<1> DEFINE u == Head(queue)
           d == [url |-> u, place |-> a.place]
           tail == Tail(queue)
           next == Following(u, links)
           new == Kept(next, ToSet(next) \ Got')
<1>1. queue \in Seq(Addresses) /\ queue # <<>>
  BY DEF Reading, FetchInv, HttpTyped
<1>2. u \in Addresses /\ tail \in Seq(Addresses) /\ ToSet(queue) = {u} \cup ToSet(tail)
  BY <1>1, ToSetOfTail
<1>3. d \in Documents
  BY <1>2, AnswersPlaces DEF Documents
<1>4. docs' \in Seq(Documents) /\ ToSet(docs') = ToSet(docs) \cup {d} /\ Len(docs') = Len(docs) + 1
  <2> HIDE DEF d
  <2>1. docs \in Seq(Documents) /\ docs' = Append(docs, d)
    BY DEF Reading, FetchInv, HttpTyped, d
  <2>2. /\ docs' \in Seq(Documents) /\ Len(docs') = Len(docs) + 1 /\ Len(docs) \in Nat
        /\ docs'[Len(docs) + 1] = d /\ \A i \in 1 .. Len(docs) : docs'[i] = docs[i]
    BY <1>3, <2>1
  <2>3. DOMAIN docs = 1 .. Len(docs) /\ DOMAIN docs' = 1 .. Len(docs')
    BY <2>1, <2>2
  <2>4. 1 .. Len(docs') = (1 .. Len(docs)) \cup {Len(docs) + 1}
    BY <2>2
  <2>5. ToSet(docs') = ToSet(docs) \cup {d}
    BY <2>2, <2>3, <2>4 DEF ToSet
  <2> QED BY <2>2, <2>5
<1>5. Got' = Got \cup {u}
  <2>1. d.url = u
    OBVIOUS
  <2> HIDE DEF d, u
  <2> QED BY <1>4, <2>1 DEF Got
<1>6. new \in Seq(Addresses) /\ ToSet(new) = ToSet(next) \cap (ToSet(next) \ Got')
  <2>1. next \in Seq(Addresses)
    BY FollowingTyped
  <2> HIDE DEF next
  <2> QED BY <2>1, KeptMeans, Zenon
<1>7. queue' = tail \o new \/ queue' = new \o tail
  BY DEF Reading, Remaining
<1> HIDE DEF tail, new, next, u
<1>8. queue' \in Seq(Addresses) /\ ToSet(queue') = ToSet(tail) \cup ToSet(new)
  <2>1. CASE queue' = tail \o new
    BY <1>2, <1>6, <2>1, ToSetOfConcat
  <2>2. CASE queue' = new \o tail
    BY <1>2, <1>6, <2>2, ToSetOfConcat
  <2> QED BY <1>7, <2>1, <2>2
<1>9. ToSet(queue') = ToSet(tail) \cup (ToSet(next) \ Got')
  BY <1>6, <1>8
<1>10. Ahead' = Ahead \cup ToSet(next)
  BY <1>2, <1>5, <1>9 DEF Ahead
<1> QED BY <1>2, <1>4, <1>5, <1>8, <1>9, <1>10, Zenon DEF tail, next, u, d

LEMMA ReadingTyped ==
    ASSUME FetchInv, NEW a \in Answers, NEW links, Reading(a, links)
    PROVE  HttpTyped'
<1>1. attempts' \in Nat /\ attempts' = requests' /\ requests' \in Nat
  BY AnswerCounts DEF Reading
<1>2. /\ result' \in {Nil} \cup [ok : BOOLEAN, thrown : BOOLEAN, attempts : Nat \cup {Nil}]
      /\ result' = Nil => queue' # <<>>
  <2>1. CASE queue' = <<>>
    <3>1. Return(TRUE)
      BY <2>1 DEF Reading
    <3>2. result' \in [ok : BOOLEAN, thrown : BOOLEAN, attempts : Nat \cup {Nil}] /\ result' # Nil
      BY <1>1, <3>1, Returned DEF Return
    <3> QED BY <3>2
  <2>2. CASE queue' # <<>>
    BY <2>2 DEF Reading
  <2> QED BY <2>1, <2>2
<1>3. attempt' \in 1 .. MaxAttempts /\ moved' \in BOOLEAN
  <2>1. 1 \in 1 .. MaxAttempts
    BY FetchAssumption
  <2> QED BY <2>1, Zenon DEF Reading
<1>4. docs' \in Seq(Documents) /\ queue' \in Seq(Addresses)
  BY Advance, Zenon
<1> QED BY <1>1, <1>2, <1>3, <1>4, Zenon DEF Reading, FetchInv, HttpTyped

LEMMA ReadingCounting ==
    ASSUME FetchInv, NEW a \in Answers, NEW links, Reading(a, links)
    PROVE  Counting'
<1> DEFINE u == Head(queue)
           d == [url |-> u, place |-> a.place]
<1>1. ToSet(docs') = ToSet(docs) \cup {d} /\ Len(docs') = Len(docs) + 1 /\ Len(docs) \in Nat
  <2>1. ToSet(docs') = ToSet(docs) \cup {d} /\ Len(docs') = Len(docs) + 1
    BY Advance, Zenon
  <2> QED BY <2>1 DEF FetchInv, HttpTyped
<1>2. IsFiniteSet(Announcements) /\ Cardinality(Announcements) \in Nat /\ Reads \in Nat
  BY ReadsTyped DEF FetchInv
<1>3. IsFiniteSet(Announcements') /\ Cardinality(Announcements') \in Nat
  <2>1. Announcements' = Announcements \cup (IF u \in ArticleSet THEN {d} ELSE {})
    <3>1. d.url = u
      OBVIOUS
    <3> HIDE DEF d, u
    <3> QED BY <1>1, <3>1 DEF Announcements
  <2>2. CASE u \in ArticleSet
    BY <1>2, <2>1, <2>2, FS_AddElement, FS_CardinalityType
  <2>3. CASE u \notin ArticleSet
    BY <1>2, <2>1, <2>3
  <2> QED BY <2>2, <2>3
<1>4. Cardinality(Announcements) <= Cardinality(Announcements')
  <2>1. Announcements \subseteq Announcements'
    BY <1>1 DEF Announcements
  <2> QED BY <1>3, <2>1, FS_Subset
<1>5. moved => Cardinality(Announcements') = Cardinality(Announcements) + 1
  <2>1. SUFFICES ASSUME moved PROVE Cardinality(Announcements') = Cardinality(Announcements) + 1
    OBVIOUS
  <2>2. u \in ArticleSet /\ ToSet(queue) \cap Got = {}
    BY <2>1 DEF FetchInv, Once
  <2>3. u \in ToSet(queue)
    BY Advance, Zenon
  <2>4. d \notin Announcements
    <3>1. d.url = u
      OBVIOUS
    <3> HIDE DEF d, u
    <3> QED BY <2>2, <2>3, <3>1 DEF Announcements, Got
  <2>5. Announcements' = Announcements \cup {d}
    <3>1. d.url = u
      OBVIOUS
    <3> HIDE DEF d, u
    <3> QED BY <1>1, <2>2, <3>1 DEF Announcements
  <2> HIDE DEF d
  <2> QED BY <1>2, <2>4, <2>5, FS_AddElement
<1>6. Reads' \in Nat /\ Reads + 1 <= Reads'
  BY <1>1, <1>2, <1>3, <1>4, <1>5 DEF Reads, Reading, FetchInv, HttpTyped
<1>7. /\ MaxAttempts \in Nat /\ requests \in Nat /\ attempt \in Nat /\ attempt <= MaxAttempts
      /\ requests + 1 <= MaxAttempts * Reads + attempt
  BY FetchAssumption DEF Reading, FetchInv, HttpTyped, Counting
<1>8. /\ MaxAttempts * Reads \in Nat /\ MaxAttempts * (Reads + 1) = MaxAttempts * Reads + MaxAttempts
      /\ MaxAttempts * Reads' \in Nat /\ MaxAttempts * (Reads' + 1) = MaxAttempts * Reads' + MaxAttempts
  BY <1>2, <1>6, OneMore
<1>9. MaxAttempts * (Reads + 1) <= MaxAttempts * Reads'
  BY <1>2, <1>6, Monotone
<1>10. requests' + 1 <= MaxAttempts * Reads' + 1 /\ requests' <= MaxAttempts * (Reads' + 1)
  BY <1>7, <1>8, <1>9 DEF Reading
<1>11. attempts' = requests' /\ attempts' \in Nat /\ attempt' = 1
  BY AnswerCounts DEF Reading
<1>12. result' # Nil => result'.attempts = requests'
  BY <1>11, Returned DEF Reading, Return
<1> QED BY <1>10, <1>11, <1>12 DEF Counting

LEMMA ReadingWhole ==
    ASSUME FetchInv, NEW a \in Answers, NEW links, Reading(a, links)
    PROVE  Whole'
<1> DEFINE u == Head(queue)
           next == ToSet(Following(u, links))
<1>1. Got' = Got \cup {u} /\ Ahead' = Ahead \cup next
  BY Advance, Zenon
<1>2. result' # Nil => queue' = <<>>
  BY DEF Reading
<1>3. ~Unusable(u, links) /\ site' = site
  BY DEF Reading
<1>4. Whole
  BY DEF FetchInv
<1> HIDE DEF u, next
<1>5. "source" \in Ahead'
  BY <1>1, <1>4 DEF Whole
<1>6. CASE site = "brutal-assault"
  <2>1. /\ u = "source" => {"lineup", "tickets"} \subseteq next
        /\ u = "tickets" => "pass" \in next
    BY <1>3, <1>6, FollowingMeans DEF next
  <2> QED BY <1>1, <1>2, <1>3, <1>4, <1>5, <1>6, <2>1 DEF Whole
<1>7. CASE site = "leyendas"
  <2>1. u = "source" => {"news", "tickets"} \subseteq next
    BY <1>3, <1>7, FollowingMeans DEF next
  <2> QED BY <1>1, <1>2, <1>3, <1>4, <1>5, <1>7, <2>1 DEF Whole
<1>8. CASE site = "copenhell"
  <2>1. /\ u = "source" => "home" \in next
        /\ u = "home" => {"program", "tickets"} \subseteq next
    BY <1>3, <1>8, FollowingMeans DEF next
  <2> QED BY <1>1, <1>2, <1>3, <1>4, <1>5, <1>8, <2>1 DEF Whole
<1>9. CASE site = "nova-rock"
  <2>1. u = "source" => "tickets" \in next
    BY <1>3, <1>9, FollowingMeans DEF next
  <2> QED BY <1>1, <1>2, <1>3, <1>4, <1>5, <1>9, <2>1 DEF Whole
<1>10. CASE site = "motocultor"
  <2>1. /\ u = "source" => "news" \in next
        /\ u = "news" => next \cap ArticleSet # {}
    BY <1>3, <1>10, FollowingMeans DEF next
  <2> QED BY <1>1, <1>2, <1>3, <1>4, <1>5, <1>10, <2>1 DEF Whole
<1>11. CASE site = "graspop"
  <2>1. next \cap ArticleSet # {} => "roster" \in next
    BY <1>3, <1>11, FollowingMeans DEF next
  <2> QED BY <1>1, <1>2, <1>3, <1>4, <1>5, <1>11, <2>1 DEF Whole
<1>12. CASE site = "impericon"
  <2>1. u = "source" => next \cap ArticleSet # {}
    BY <1>3, <1>12, FollowingMeans DEF next
  <2> QED BY <1>1, <1>2, <1>3, <1>4, <1>5, <1>12, <2>1 DEF Whole
<1>13. CASE site \notin {"brutal-assault", "leyendas", "copenhell", "nova-rock", "motocultor",
                        "graspop", "impericon"}
  BY <1>2, <1>3, <1>5, <1>13 DEF Whole
<1> QED BY <1>6, <1>7, <1>8, <1>9, <1>10, <1>11, <1>12, <1>13, Zenon

LEMMA ReadingServed ==
    ASSUME FetchInv, NEW a \in Answers, NEW links, Reading(a, links)
    PROVE  Served'
<1> DEFINE u == Head(queue)
           d == [url |-> u, place |-> a.place]
<1>1. ToSet(docs') = ToSet(docs) \cup {d} /\ site' = site
  BY Advance, Zenon DEF Reading
<1>2. d.place = "away" => \/ site \in {"motocultor", "nova-rock", "linked"}
                          \/ site = "brutal-assault" /\ d.url = "source"
  BY DEF Reading, Trusted
<1> HIDE DEF d
<1> QED BY <1>1, <1>2 DEF Served, FetchInv

LEMMA ReadingOnce ==
    ASSUME FetchInv, NEW a \in Answers, NEW links, Reading(a, links)
    PROVE  Once'
<1> DEFINE u == Head(queue)
           tail == Tail(queue)
           next == Following(u, links)
           new == Kept(next, ToSet(next) \ Got')
<1>1. moved' = FALSE /\ site' = site /\ docs' # <<>>
  <2>1. Len(docs') = Len(docs) + 1 /\ Len(docs) \in Nat
    <3>1. Len(docs') = Len(docs) + 1
      BY Advance, Zenon
    <3> QED BY <3>1 DEF FetchInv, HttpTyped
  <2> QED BY <2>1 DEF Reading
<1>2. SUFFICES ASSUME site = "impericon"
               PROVE  /\ IsInjective(queue') /\ ToSet(queue') \cap Got' = {}
                      /\ ToSet(queue') \subseteq ArticleSet
  BY <1>1 DEF Once
<1>3. /\ ToSet(next) \subseteq ArticleSet /\ IsInjective(next)
      /\ u # "source" => ToSet(next) = {}
  BY <1>2, FollowingMeans DEF Reading
<1>4. next \in Seq(Addresses)
  BY FollowingTyped
<1>5. queue \in Seq(Addresses) /\ queue # <<>> /\ IsInjective(queue) /\ ToSet(queue) \cap Got = {}
      /\ IF docs = <<>> THEN queue = <<"source">> ELSE ToSet(queue) \subseteq ArticleSet
  BY <1>2 DEF Reading, FetchInv, HttpTyped, Once
<1>6. /\ u \in ToSet(queue) /\ tail \in Seq(Addresses) /\ ToSet(tail) \subseteq ToSet(queue)
      /\ IsInjective(tail) /\ u \notin ToSet(tail)
  BY <1>5, ToSetOfTail
<1>7. Got' = Got \cup {u}
  BY Advance, Zenon
<1>8. new \in Seq(Addresses) /\ ToSet(new) = ToSet(next) \cap (ToSet(next) \ Got') /\ IsInjective(new)
  <2> HIDE DEF next
  <2> QED BY <1>3, <1>4, KeptMeans, Zenon
<1>9. queue' = new \o tail
  BY <1>2 DEF Reading, Remaining
<1> HIDE DEF new, next
<1>10. CASE u = "source"
  <2>1. "source" \notin ArticleSet
    BY FetchAssumption DEF Places
  <2>2. tail = <<>>
    <3>1. docs = <<>>
      BY <1>5, <1>6, <1>10, <2>1
    <3>2. Tail(<<"source">>) = <<>>
      OBVIOUS
    <3>3. queue = <<"source">>
      BY <1>5, <3>1
    <3> QED BY <3>2, <3>3, Zenon
  <2>3. queue' = new
    <3> HIDE DEF tail
    <3> QED BY <1>8, <1>9, <2>2
  <2> QED BY <1>3, <1>8, <2>3
<1>11. CASE u # "source"
  <2>1. ToSet(new) = {}
    BY <1>3, <1>8, <1>11
  <2>2. new = <<>>
    BY <1>8, <2>1, ToSetOfSeq
  <2>3. queue' = tail
    <3> HIDE DEF tail
    <3> QED BY <1>6, <1>9, <2>2
  <2>4. docs # <<>>
    BY <1>5, <1>11
  <2> HIDE DEF tail, u
  <2> QED BY <1>5, <1>6, <1>7, <2>3, <2>4
<1> QED BY <1>10, <1>11

\* A page that may not be used ends the check; another leads on.
LEMMA ReadInv ==
    ASSUME FetchInv, NEW a \in Answers, NEW links, Read(a, links)
    PROVE  FetchInv'
<1>1. result = Nil /\ queue # <<>>
  BY DEF Read, FetchInv, HttpTyped
<1>2. CASE Throw /\ UNCHANGED <<docs, queue, attempt, moved>>
  <2>1. /\ result' \in [ok : BOOLEAN, thrown : BOOLEAN, attempts : Nat \cup {Nil}] /\ result' # Nil
        /\ ~result'.ok /\ result'.thrown
    BY <1>2, Returned DEF Throw
  <2>2. attempts' \in Nat
    BY <1>1, AnswerCounts DEF Read
  <2> QED BY <1>1, <1>2, <2>1, <2>2, EndInv, Zenon DEF Read
<1>3. CASE ~(~Trusted(Head(queue), a.place) \/ Unusable(Head(queue), links))
  <2>1. Reading(a, links)
    BY <1>1, <1>3, Zenon DEF Read, Reading
  <2> QED BY <2>1, ReadingTyped, ReadingCounting, ReadingWhole, ReadingServed, ReadingOnce, Zenon
       DEF FetchInv
<1> QED BY <1>2, <1>3, Zenon DEF Read

\* The inductive invariant of the requests of one check.
THEOREM FetchInductive == FetchSpec => []FetchInv
<1>1. FetchInv /\ [FetchNext]_fetchVars => FetchInv'
  <2> SUFFICES ASSUME FetchInv, [FetchNext]_fetchVars PROVE FetchInv'
    OBVIOUS
  <2>1. CASE FetchNext
    BY <2>1, RetryInv, ExhaustInv, RefuseInv, FollowByHandInv, ReadInv, Zenon DEF FetchNext
  <2>2. CASE UNCHANGED fetchVars
    <3> USE <2>2 DEF fetchVars
    <3>1. Got' = Got /\ Ahead' = Ahead /\ Reads' = Reads
      BY DEF Got, Ahead, Reads, Announcements
    <3>2. HttpTyped' /\ Counting'
      BY <3>1, Zenon DEF FetchInv, HttpTyped, Counting
    <3>3. Whole' /\ Served' /\ Once'
      BY <3>1, Zenon DEF FetchInv, Whole, Served, Once
    <3> QED BY <3>2, <3>3 DEF FetchInv
  <2> QED BY <2>1, <2>2
<1> QED BY FetchInvInit, <1>1, PTL DEF FetchSpec

LEMMA InvWhole == FetchInv => FetchIsWhole
<1> SUFFICES ASSUME FetchInv PROVE FetchIsWhole
  OBVIOUS
<1> USE DEF FetchInv
<1>1. FetchTypeOK
  <2>1. Got \subseteq Addresses
    <3>1. ToSet(docs) \subseteq Documents
      BY ToSetOfSeq DEF HttpTyped
    <3> QED BY <3>1 DEF Got, Documents
  <2> QED BY <2>1, Zenon DEF FetchTypeOK, HttpTyped, Addresses
<1>2. NothingMissing
  <2>1. SUFFICES ASSUME result # Nil, result.ok PROVE NothingMissing
    BY <1>1, Zenon DEF NothingMissing
  <2>2. queue = <<>>
    BY <2>1 DEF Whole
  <2>3. Ahead = Got
    BY <2>2 DEF Ahead, ToSet
  <2> QED BY <1>1, <2>2, <2>3 DEF NothingMissing, Whole
<1>3. OfficialOnly
  BY DEF OfficialOnly, Served
<1>4. AttemptsCounted
  <2>1. /\ MaxAttempts \in Nat /\ Reads \in Nat /\ MaxAttempts * Reads \in Nat /\ requests \in Nat
        /\ attempt \in Nat /\ attempt <= MaxAttempts
    BY FetchAssumption, ReadsTyped, OneMore DEF HttpTyped
  <2>2. MaxAttempts * (Reads + 1) = MaxAttempts * Reads + MaxAttempts
    BY <2>1, OneMore
  <2>3. requests <= MaxAttempts * (Reads + 1)
    BY <2>1, <2>2 DEF Counting
  <2>4. Len(docs) + 1 + Cardinality({d \in ToSet(docs) : d.url \in ArticleSet})
           + (IF moved THEN 1 ELSE 0) = Reads + 1
    BY ReadsTyped DEF Reads, Announcements, HttpTyped
  <2> QED BY <2>3, <2>4 DEF AttemptsCounted, Counting
<1> QED BY <1>2, <1>3, <1>4 DEF FetchIsWhole

\* A response passed on as a success is whole and official, and reports as many attempts as
\* the source was sent requests, however often pages move or fail (fetchSource).
THEOREM ResponsesAreWhole == FetchSpec => []FetchIsWhole
BY FetchInductive, InvWhole, PTL
=============================================================================
