---------------------------- MODULE SourceFetch ----------------------------
(***************************************************************************)
(* How the documents of a source are collected (lib/ingestion/fetch.ts).   *)
(* The configured page is read first.  For most festivals its links decide *)
(* which other official pages must be read with it; the parser is then     *)
(* given one response: the last page, or an envelope with all of them.     *)
(* Each page is asked for a few times, and may fail, move, or change       *)
(* between two requests.                                                   *)
(*                                                                         *)
(* An address is a name; a page is the set of addresses it links to that   *)
(* the festival's own discovery accepts (official, of this edition).       *)
(***************************************************************************)
EXTENDS Naturals, FiniteSets, Sequences, SequencesExt

CONSTANTS
    Articles,    \* the announcements a page may link to, in their order
    MaxAttempts, \* options.maxAttempts
    MaxRead,     \* how many announcements are read of a page that may list more (6 or 8)
    MaxListed,   \* how many announcements a page may list where more are an error (8 to 80)
    MaxKinds,    \* how many pages other than announcements a page links to
    Delays,      \* what a Retry-After header may say, in seconds
    Nil

\* The festivals whose pages lead to others, each in a way of its own, and "listing" for the rest.
Sites ==
    {"listing", "graspop", "tuska", "impericon", "roadburn", "brutal-assault", "leyendas",
     "inferno", "alpen-flair", "motocultor", "copenhell", "rock-in-roma", "polandrock", "frequency",
     "paleo", "leeds", "reading", "dynamo", "rock-imperium", "nova-rock", "linked"}

ArticleSet == ToSet(Articles)
Linked == {"news", "tickets", "lineup", "card", "pass", "shop", "landing", "category", "product"}
Places == {"source", "home", "roster", "program", "sale", "storefront"} \cup Linked

\* An announcement is listed once, and is none of the other pages; Nil is no result.
ASSUME FetchAssumption ==
    /\ MaxAttempts \in Nat \ {0} /\ {MaxRead, MaxListed} \subseteq Nat /\ Delays \subseteq Nat
    /\ Articles \in Seq(ArticleSet) /\ IsInjective(Articles) /\ ArticleSet \cap Places = {}
    /\ Nil \notin Delays
    /\ Nil \notin [ok : BOOLEAN, thrown : BOOLEAN, attempts : Nat \cup {Nil}]

VARIABLES
    site,     \* the festival
    queue,    \* the addresses still to be read
    attempt,  \* the request for the first of them
    moved,    \* whether its redirect is being followed by hand
    docs,     \* the documents read: where each was asked for and served from
    attempts, \* the number of requests reported with the response
    requests, \* the number of requests made
    delay,    \* the last pause
    result    \* Nil, or what fetchSource returned or threw

fetchVars == <<site, queue, attempt, moved, docs, attempts, requests, delay, result>>

FetchInit ==
    /\ site \in Sites
    /\ queue = <<"source">> /\ attempt = 1 /\ moved = FALSE
    /\ docs = <<>> /\ attempts = 0 /\ requests = 0 /\ delay = 0
    /\ result = Nil

\* The addresses of the documents read.
Got == {d.url : d \in ToSet(docs)}

----------------------------------------------------------------------------
(* What is read because of a page: one operator per festival.              *)

\* The elements of s that are in set, in their order.
Kept(s, set) ==
    LET kept[i \in 0 .. Len(s)] ==
            IF i = 0 THEN <<>>
            ELSE IF s[i] \in set THEN Append(kept[i - 1], s[i]) ELSE kept[i - 1]
    IN kept[Len(s)]

If(links, set) ==
    Kept(<<"news", "tickets", "lineup", "landing", "category", "product", "card">>, links \cap set)
ArticlesOf(links) == Kept(Articles, links)
AtMost(urls, n) == IF Len(urls) > n THEN SubSeq(urls, 1, n) ELSE urls

Graspop(u, links) ==
    CASE u = "source" -> <<"home">>
      [] u = "home" /\ ArticlesOf(links) # <<>> -> <<"roster">> \o ArticlesOf(links)
      [] OTHER -> <<>>

Tuska(u, links) ==
    IF u = "source" THEN AtMost(ArticlesOf(links), 1) \o If(links, {"tickets"}) ELSE <<>>

Impericon(u, links) == IF u = "source" THEN ArticlesOf(links) ELSE <<>>

\* The announcements are listed by the news page if the homepage links to it.
Roadburn(u, links) ==
    CASE u = "source" -> IF "news" \in links THEN If(links, {"news", "tickets"})
                         ELSE ArticlesOf(links) \o If(links, {"tickets"})
      [] u = "news" -> ArticlesOf(links)
      [] OTHER -> <<>>

BrutalAssault(u, links) ==
    CASE u = "source" -> <<"lineup", "tickets">>
      [] u = "tickets" -> <<"pass">>
      [] OTHER -> <<>>

Leyendas(u, links) ==
    CASE u = "source" -> <<"news", "tickets">>
      [] u = "news" -> AtMost(ArticlesOf(links), MaxRead)
      [] OTHER -> <<>>

AlpenFlair(u, links) == IF u = "source" THEN AtMost(ArticlesOf(links), MaxRead) ELSE <<>>

Motocultor(u, links) ==
    CASE u = "source" -> <<"news">>
      [] u = "news" -> AtMost(ArticlesOf(links), 1)
      [] OTHER -> <<>>

Copenhell(u, links) ==
    CASE u = "source" -> <<"home">>
      [] u = "home" -> AtMost(ArticlesOf(links), MaxRead) \o <<"program", "tickets">>
      [] u = "program" -> If(links, {"card"})
      [] OTHER -> <<>>

RockInRoma(u, links) ==
    CASE u = "source" -> If(links, {"lineup"})
      [] u = "lineup" -> ArticlesOf(links)
      [] OTHER -> <<>>

Polandrock(u, links) == IF u = "source" THEN AtMost(ArticlesOf(links), 1) ELSE <<>>

\* Frequency, Paleo, Leeds and Reading: the ticket page the homepage links to.
LinkedTickets(u, links) == IF u = "source" THEN If(links, {"tickets"}) ELSE <<>>

\* The bands of the lineup, then the ticket page the news link to and its shop.
Dynamo(u, links) ==
    CASE u = "source" -> <<"lineup", "news">>
      [] u = "lineup" -> ArticlesOf(links)
      [] u = "news" -> If(links, {"tickets"})
      [] u = "tickets" /\ "shop" \in links -> <<"sale", "storefront">>
      [] OTHER -> <<>>

\* Three hops at most, each to the next page of the shop.
RockImperium(u, links) ==
    CASE u = "source" -> If(links, {"landing"})
      [] u = "landing" -> AtMost(If(links, {"category", "product"}), 1)
      [] u = "category" /\ Len(docs) <= 2 -> If(links, {"product"})
      [] u = "product" /\ Len(docs) <= 2 -> If(links, {"category"})
      [] OTHER -> <<>>

NovaRock(u, links) == IF u = "source" THEN <<"tickets">> ELSE <<>>

\* followLinkPattern: the first link that matches.
FollowLink(u, links) == IF u = "source" THEN AtMost(ArticlesOf(links), 1) ELSE <<>>

Following(u, links) ==
    CASE site = "graspop" -> Graspop(u, links)
      [] site = "tuska" -> Tuska(u, links)
      [] site = "impericon" -> Impericon(u, links)
      [] site = "roadburn" -> Roadburn(u, links)
      [] site = "brutal-assault" -> BrutalAssault(u, links)
      [] site = "leyendas" -> Leyendas(u, links)
      [] site = "alpen-flair" -> AlpenFlair(u, links)
      [] site = "motocultor" -> Motocultor(u, links)
      [] site = "copenhell" -> Copenhell(u, links)
      [] site = "rock-in-roma" -> RockInRoma(u, links)
      [] site = "polandrock" -> Polandrock(u, links)
      [] site \in {"frequency", "paleo", "leeds", "reading"} -> LinkedTickets(u, links)
      [] site = "dynamo" -> Dynamo(u, links)
      [] site = "rock-imperium" -> RockImperium(u, links)
      [] site = "nova-rock" -> NovaRock(u, links)
      [] site = "linked" -> FollowLink(u, links)
      [] OTHER -> <<>>

\* A page that lacks what its festival cannot do without is an error, as is one
\* that lists too much.
Unusable(u, links) ==
    \/ u = "source" /\ site = "brutal-assault" /\ ~({"lineup", "tickets"} \subseteq links)
    \/ u = "source" /\ site = "leyendas" /\ ~({"news", "tickets"} \subseteq links)
    \/ u = "source" /\ site = "linked" /\ ArticlesOf(links) = <<>>
    \/ u = "source" /\ site = "dynamo" /\ "lineup" \notin links
    \/ u = "tickets" /\ site = "brutal-assault" /\ "pass" \notin links
    \/ u = "news" /\ site = "motocultor" /\ ArticlesOf(links) = <<>>
    \/ u = "lineup" /\ site = "dynamo" /\ ArticlesOf(links) = <<>>
    \/ u = "source" /\ site = "impericon" /\ ArticlesOf(links) = <<>>
    \/ /\ \/ u = "source" /\ site = "impericon"
          \/ u = "source" /\ site = "roadburn" /\ "news" \notin links
          \/ u = "news" /\ site = "roadburn"
          \/ u = "lineup" /\ site \in {"dynamo", "rock-in-roma"}
       /\ Len(ArticlesOf(links)) > MaxListed

----------------------------------------------------------------------------
(* Who may have served a page: "same" address, the "official" site, or     *)
(* anyone ("away").                                                        *)

Redirect(u) ==
    IF u = "source" THEN "follow"
    ELSE CASE site = "impericon" -> IF moved THEN "error" ELSE "manual"
           [] site \in {"brutal-assault", "motocultor", "polandrock", "frequency", "paleo", "leeds",
                        "reading", "nova-rock", "linked"} -> "follow"
           [] OTHER -> "error"

\* Mutant: a linked page is taken from wherever it was served.
TrustedMutant(u, place) ==
    \/ place = "same" \/ u # "source"
    \/ site \in {"motocultor", "nova-rock", "linked"}
    \/ /\ place = "official"
       /\ site \in {"inferno", "alpen-flair", "polandrock", "frequency", "paleo", "leeds", "reading",
                     "rock-imperium", "copenhell"}

\* The configured page and, for the festivals that look, the linked ones.
Trusted(u, place) ==
    \/ place = "same"
    \/ site \in {"motocultor", "nova-rock", "linked"}
    \/ /\ place = "official" /\ u = "source"
       /\ site \in {"inferno", "alpen-flair", "polandrock", "frequency", "paleo", "leeds", "reading",
                     "rock-imperium", "copenhell", "brutal-assault"}
    \/ place = "away" /\ u = "source" /\ site = "brutal-assault"
    \/ place = "official" /\ u # "source" /\ site \in {"polandrock", "impericon"}

----------------------------------------------------------------------------
(* fetchWithRetry.                                                         *)

Answers ==
    [status : {"ok"}, place : {"same", "official", "away"}] \cup
    [status : {"refused"}, place : {"same"}] \cup
    [status : {"busy"}, place : {"same"}, after : Delays \cup {Nil}] \cup
    [status : {"exception"}, place : {"same"}]

\* With redirect "error", a page that moved is a network error like another.
Fails(a) ==
    \/ a.status = "exception"
    \/ a.status = "ok" /\ a.place # "same" /\ Redirect(Head(queue)) = "error"

Capped(seconds) == IF seconds > 30 THEN 30 ELSE seconds
Backoff == IF attempt > 5 THEN 30 ELSE <<1, 2, 4, 8, 16>>[attempt]

Return(ok) == result' = [ok |-> ok, thrown |-> FALSE, attempts |-> attempts']
Throw == result' = [ok |-> FALSE, thrown |-> TRUE, attempts |-> Nil]

\* A transport error, or a status that may pass, is tried again after a pause:
\* the one the server asks for, if it asks for one, or twice the last one.
Retry(a) ==
    /\ result = Nil /\ attempt < MaxAttempts
    /\ Fails(a) \/ a.status = "busy"
    /\ requests' = requests + 1 /\ attempt' = attempt + 1
    /\ delay' = IF ~Fails(a) /\ a.after # Nil THEN Capped(a.after) ELSE Backoff
    /\ UNCHANGED <<site, queue, moved, docs, attempts, result>>

Exhaust(a) ==
    /\ result = Nil /\ attempt = MaxAttempts /\ Fails(a)
    /\ requests' = requests + 1
    /\ Throw
    /\ UNCHANGED <<site, queue, attempt, moved, docs, attempts, delay>>

\* A response ends the attempts for this address.
Answer == attempts' = attempts + attempt

\* A provider's failure stays one: it is returned instead of an envelope.
Failed(a) ==
    /\ IF site \in {"brutal-assault", "dynamo"} /\ Head(queue) # "source" THEN Throw ELSE Return(FALSE)
    /\ UNCHANGED <<queue, attempt>>

Refuse(a) ==
    /\ result = Nil
    /\ \/ a.status = "refused"
       \/ a.status = "busy" /\ attempt = MaxAttempts
    /\ requests' = requests + 1 /\ Answer
    /\ Failed(a)
    /\ UNCHANGED <<site, moved, docs, delay>>

\* Impericon follows the redirect of an article itself, once.
FollowByHand(a) ==
    /\ result = Nil /\ a.status = "ok" /\ a.place # "same" /\ Redirect(Head(queue)) = "manual"
    /\ requests' = requests + 1 /\ Answer
    /\ IF Trusted(Head(queue), a.place) THEN attempt' = 1 /\ moved' = TRUE /\ UNCHANGED result
       ELSE Throw /\ UNCHANGED <<attempt, moved>>
    /\ UNCHANGED <<site, queue, docs, delay>>

\* What remains to be read; Copenhell reads nothing twice, and the posts of
\* Leyendas and the artist cards of Copenhell come last.
Remaining(u, links) ==
    LET following == Following(u, links)
        new == Kept(following, ToSet(following) \ Got')
    IN IF site \in {"copenhell", "leyendas"} THEN Tail(queue) \o new ELSE new \o Tail(queue)

Read(a, links) ==
    LET u == Head(queue) IN
    /\ result = Nil /\ a.status = "ok" /\ ~Fails(a)
    /\ a.place = "same" \/ Redirect(u) # "manual"
    /\ requests' = requests + 1 /\ Answer
    /\ IF ~Trusted(u, a.place) \/ Unusable(u, links)
       THEN Throw /\ UNCHANGED <<docs, queue, attempt, moved>>
       ELSE /\ docs' = Append(docs, [url |-> u, place |-> a.place])
            /\ queue' = Remaining(u, links)
            /\ attempt' = 1 /\ moved' = FALSE
            /\ IF queue' = <<>> THEN Return(TRUE) ELSE UNCHANGED result
    /\ UNCHANGED <<site, delay>>

FetchNext ==
    \E a \in Answers :
        \/ Retry(a) \/ Exhaust(a) \/ Refuse(a) \/ FollowByHand(a)
        \/ \E news \in SUBSET ArticleSet, other \in {k \in SUBSET Linked : Cardinality(k) <= MaxKinds} :
              Read(a, news \cup other)

FetchSpec == FetchInit /\ [][FetchNext]_fetchVars

----------------------------------------------------------------------------
(* What the parser may rely on.                                            *)

FetchTypeOK ==
    /\ site \in Sites /\ attempt \in 1 .. MaxAttempts /\ moved \in BOOLEAN
    /\ delay \in 0 .. 30
    /\ Got \subseteq Places \cup ArticleSet

\* A response the parser is given as a success is whole: everything the pages
\* that were read called for was read too, and no failure is wrapped into it
\* (fetch.ts:279, "never wrap a 403 as HTTP200").
NothingMissing ==
    /\ FetchTypeOK
    /\ result # Nil /\ result.ok =>
        /\ queue = <<>> /\ "source" \in Got
        /\ site = "brutal-assault" => {"lineup", "tickets", "pass"} \subseteq Got
        /\ site = "leyendas" => {"news", "tickets"} \subseteq Got
        /\ site = "copenhell" => {"home", "program", "tickets"} \subseteq Got
        /\ site = "nova-rock" => "tickets" \in Got
        /\ site = "motocultor" => Got \cap ArticleSet # {}
        /\ site = "graspop" /\ Got \cap ArticleSet # {} => "roster" \in Got
        /\ site = "impericon" => Got \cap ArticleSet # {}

\* A page served from outside the official site is part of no result, except
\* for the three festivals that follow any redirect and the first page of
\* Brutal Assault.
OfficialOnly ==
    result # Nil /\ result.ok /\ site \notin {"motocultor", "nova-rock", "linked"} =>
        \A d \in ToSet(docs) :
            d.place = "away" => site = "brutal-assault" /\ d.url = "source"

\* The number of attempts recorded with a response is the number of requests
\* the source was sent, however many pages and pauses it took, and no page is
\* asked for more than maxAttempts times, but for the one redirect.
AttemptsCounted ==
    /\ result # Nil /\ ~result.thrown => result.attempts = requests
    /\ requests <= MaxAttempts *
          (Len(docs) + 1 + Cardinality({d \in ToSet(docs) : d.url \in ArticleSet})
           + IF moved THEN 1 ELSE 0)

\* A response passed on as a success is whole and official, and reports as many attempts as
\* the source was sent requests (fetchSource).
FetchIsWhole == NothingMissing /\ OfficialOnly /\ AttemptsCounted
=============================================================================
