------------------------------- MODULE MapsProofs -------------------------------
(***************************************************************************)
(* What the Google Maps requests answer, for every number of results,      *)
(* cards, grid points, browsers, requests and budgets: the scraper's       *)
(* search, the requests that fan out over it, the search endpoint with its *)
(* cache, and the endpoints about one place.                               *)
(***************************************************************************)
EXTENDS MCMaps, ScrapeJobsProofs, BrowserPoolProofs

(***************************************************************************)
(* The scraper's search.                                                   *)
(***************************************************************************)

Counts   == [candidates : Nat, attempted : Nat, extracted : Nat, partial : Nat]
Turns    == [next : Nat \ {0}, of : Nat]
PlacesOf == [name : Names \cup {NoName}, fields : PlaceFields]

\* Nothing has been opened yet.
Fresh == {"load", "choose", "single", "links"}

\* A place is read for each one counted, and is partial if all of them are; a
\* card that was counted is a candidate; no name is taken twice.
Collected ==
  /\ results \in Seq(PlacesOf) /\ Len(results) <= MaxResults
  /\ counts.extracted = Len(results)
  /\ (\A i \in DOMAIN results : "core" \notin results[i].fields) =>
       counts.partial = counts.extracted
  /\ spotted => counts.candidates > 0
  /\ \A i, j \in DOMAIN results : results[i].name = results[j].name => i = j

AllSeen == \A i \in DOMAIN results : results[i].name \in seen

\* Links end at max_results because no more of them are opened.
FeedInv ==
  /\ FeedTypeOK /\ turn \in Turns /\ Collected
  /\ path \in Fresh => results = <<>> /\ counts = NoCounts /\ ~spotted
  /\ path = "open_cards" => scrolls < MaxScrolls
  /\ path = "open_links" => Len(results) < turn.next /\ turn.of <= MaxResults
  /\ path \in {"scan", "open_links", "open_cards"} => AllSeen
  /\ path = "returned" => ~SelectorsStale

LEMMA FeedStarts == FeedInit => FeedInv
<1> SUFFICES ASSUME FeedInit PROVE FeedInv
  OBVIOUS
<1>1. counts = NoCounts /\ NoCounts \in Counts /\ NoCounts.extracted = 0
      /\ NoCounts.partial = 0
  BY DEF FeedInit, NoCounts, Counts
<1>2. turn \in Turns /\ turn.next \in 1 .. turn.of + 1
  BY DEF FeedInit, NoTurn, Turns
<1>3. results = <<>> /\ results \in Seq(PlacesOf) /\ Len(results) = 0 /\ DOMAIN results = {}
  BY DEF FeedInit
<1>4. FeedTypeOK
  <2>1. counts \in Counts /\ 0 \in 0 .. MaxScrolls
    BY <1>1, FeedAssumption
  <2>2. path = "load" /\ loaded = FALSE /\ unsure = FALSE /\ spotted = FALSE /\ seen = {}
        /\ glimpsed = FALSE /\ scrolls = 0
    BY DEF FeedInit
  <2>3. QED BY <1>2, <2>1, <2>2 DEF FeedTypeOK, Counts
<1>5. path = "load" /\ ~spotted /\ 0 <= MaxResults
  BY FeedAssumption DEF FeedInit
<1>6. Collected
  BY <1>1, <1>3, <1>5 DEF Collected
<1>7. QED BY <1>1, <1>2, <1>3, <1>4, <1>5, <1>6 DEF FeedInv, Fresh

\* What a place that is opened and read adds.
LEMMA PlaceNoted ==
  ASSUME FeedInv, NEW name \in Names \ seen, NEW fields \in PlaceFields,
         NotePlace(name, fields), seen' = seen \cup {name},
         path \in {"open_links", "open_cards"}, Len(results) < MaxResults
  PROVE  /\ counts' \in Counts /\ counts'.candidates = counts.candidates
         /\ results' \in Seq(PlacesOf) /\ Len(results') <= Len(results) + 1
         /\ Len(results') <= MaxResults /\ counts'.extracted = Len(results')
         /\ (\A i \in DOMAIN results' : "core" \notin results'[i].fields) =>
              counts'.partial = counts'.extracted
         /\ \A i \in DOMAIN results' : results'[i].name \in seen'
         /\ \A i, j \in DOMAIN results' : results'[i].name = results'[j].name => i = j
<1> DEFINE new == [name |-> name, fields |-> fields]
           n   == Len(results)
<1>1. /\ counts \in Counts /\ results \in Seq(PlacesOf) /\ n \in Nat
      /\ counts.extracted = n /\ DOMAIN results = 1 .. n
      /\ \A i \in 1 .. n : results[i].name \in seen
      /\ (\A i \in 1 .. n : "core" \notin results[i].fields) => counts.partial = n
      /\ \A i, j \in 1 .. n : results[i].name = results[j].name => i = j
  BY DEF FeedInv, FeedTypeOK, Counts, Collected, AllSeen
<1>2. new \in PlacesOf /\ new.name = name /\ new.fields = fields
  BY DEF PlacesOf
<1>3. ASSUME NEW tried \in Nat, NEW read \in Nat, NEW bare \in Nat,
             counts' = [counts EXCEPT !.attempted = tried, !.extracted = read, !.partial = bare]
      PROVE  /\ counts' \in Counts /\ counts'.candidates = counts.candidates
             /\ counts'.extracted = read /\ counts'.partial = bare
  BY <1>1, <1>3 DEF Counts
<1>4. CASE Extracts(fields)
  <2>1. /\ counts'.extracted = n + 1 /\ counts'.candidates = counts.candidates
        /\ counts'.partial = IF IsPartial(fields) THEN counts.partial + 1 ELSE counts.partial
        /\ counts' \in Counts
    <3> DEFINE bare == IF IsPartial(fields) THEN counts.partial + 1 ELSE counts.partial
    <3>1. bare \in Nat /\ counts.attempted + 1 \in Nat /\ counts.extracted + 1 \in Nat
      BY <1>1 DEF Counts
    <3>2. counts' = [counts EXCEPT !.attempted = counts.attempted + 1,
                                   !.extracted = counts.extracted + 1, !.partial = bare]
      BY <1>4 DEF NotePlace
    <3> HIDE DEF bare
    <3>3. counts' \in Counts /\ counts'.candidates = counts.candidates
          /\ counts'.extracted = counts.extracted + 1 /\ counts'.partial = bare
      BY <1>3, <3>1, <3>2
    <3>4. QED BY <1>1, <3>3 DEF bare
  <2>2. results' = Append(results, new)
    BY <1>4 DEF NotePlace
  <2> HIDE DEF new
  <2>3. /\ results' \in Seq(PlacesOf) /\ Len(results') = n + 1
        /\ DOMAIN results' = 1 .. n + 1 /\ results'[n + 1] = new
        /\ \A i \in 1 .. n : results'[i] = results[i]
    BY <1>1, <1>2, <2>2
  <2>4. ASSUME \A i \in DOMAIN results' : "core" \notin results'[i].fields
        PROVE  counts'.partial = counts'.extracted
    <3>1. IsPartial(fields)
      BY <1>1, <1>2, <2>3, <2>4 DEF IsPartial
    <3>2. \A i \in 1 .. n : "core" \notin results[i].fields
      BY <1>1, <2>3, <2>4
    <3>3. QED BY <1>1, <2>1, <3>1, <3>2
  <2>5. \A i \in 1 .. n + 1 : results'[i].name \in seen'
    BY <1>1, <1>2, <2>3
  <2>6. ASSUME NEW i \in 1 .. n + 1, NEW j \in 1 .. n + 1,
               results'[i].name = results'[j].name
        PROVE  i = j
    BY <1>1, <1>2, <2>3, <2>6
  <2>7. QED BY <1>1, <2>1, <2>3, <2>4, <2>5, <2>6, FeedAssumption
<1>5. CASE ~Extracts(fields)
  <2>1. results' = results /\ counts'.extracted = n /\ counts'.candidates = counts.candidates
        /\ counts'.partial = counts.partial /\ counts' \in Counts
    <3>1. counts' = [counts EXCEPT !.attempted = counts.attempted + 1,
                                   !.extracted = counts.extracted, !.partial = counts.partial]
          /\ results' = results
      BY <1>5 DEF NotePlace
    <3>2. counts.attempted + 1 \in Nat /\ counts.extracted \in Nat /\ counts.partial \in Nat
      BY <1>1 DEF Counts
    <3>3. QED BY <1>1, <1>3, <3>1, <3>2
  <2>2. QED BY <1>1, <2>1, FeedAssumption DEF FeedInv, Collected
<1>6. QED BY <1>4, <1>5

\* The steps that open no place.
LEMMA FeedMoves ==
  ASSUME FeedInv,
         \/ LoadPage \/ PageFails \/ ChoosePath \/ EndLinks \/ ScrollFeed \/ Judge
         \/ SkipCard \/ FailCard
  PROVE  FeedInv'
<1>1. Collected' /\ (AllSeen => AllSeen')
  <2>1. UNCHANGED <<counts, results, spotted>> /\ seen \subseteq seen'
    BY DEF LoadPage, PageFails, ChoosePath, EndLinks, ScrollFeed, Judge, SkipCard, FailCard
  <2>2. QED BY <2>1 DEF FeedInv, Collected, AllSeen
<1>2. CASE LoadPage \/ PageFails \/ ChoosePath \/ EndLinks
  <2>1. path = "choose" => AllSeen
    BY DEF FeedInv, Fresh, AllSeen
  <2>2. glimpsed' \in BOOLEAN /\ loaded' \in BOOLEAN
    BY <1>2 DEF LoadPage, PageFails, ChoosePath, EndLinks, FeedInv, FeedTypeOK
  <2>3. UNCHANGED <<counts, unsure, seen, results, turn, scrolls, spotted>>
    BY <1>2 DEF LoadPage, PageFails, ChoosePath, EndLinks
  <2>4. CASE LoadPage \/ ChoosePath
    BY <1>1, <2>1, <2>2, <2>3, <2>4 DEF LoadPage, ChoosePath, FeedInv, FeedTypeOK, Fresh
  <2>5. CASE PageFails \/ EndLinks
    BY <1>1, <2>2, <2>3, <2>5 DEF PageFails, EndLinks, FeedInv, FeedTypeOK, Fresh
  <2>6. QED BY <1>2, <2>4, <2>5
<1>3. CASE ScrollFeed
  BY <1>1, <1>3, FeedAssumption DEF ScrollFeed, FeedInv, FeedTypeOK, Fresh
<1>4. CASE Judge
  BY <1>1, <1>4 DEF Judge, FeedInv, FeedTypeOK, Fresh, SelectorsStale
<1>5. CASE SkipCard \/ FailCard
  <2>0. /\ UNCHANGED <<path, loaded, counts, unsure, results, scrolls, spotted, glimpsed>>
        /\ path \in {"open_links", "open_cards"} /\ seen \subseteq seen' /\ seen' \subseteq Names
    BY <1>5 DEF SkipCard, FailCard, Opening, FeedInv, FeedTypeOK
  <2>1. turn \in Turns /\ turn.next <= turn.of /\ turn.next \in 1 .. turn.of + 1
    BY <1>5 DEF SkipCard, FailCard, Opening, FeedInv, FeedTypeOK
  <2>2. turn' \in Turns /\ turn'.next = turn.next + 1 /\ turn'.of = turn.of
    BY <1>5, <2>1 DEF SkipCard, FailCard, NextTurn, Turns
  <2>3. turn'.next \in 1 .. turn'.of + 1
    BY <2>1, <2>2 DEF Turns
  <2>4. Len(results) \in Nat
    BY DEF FeedInv, Collected
  <2>5. QED
    BY <1>1, <2>0, <2>1, <2>2, <2>3, <2>4 DEF FeedInv, FeedTypeOK, Fresh, Turns
<1>6. QED BY <1>2, <1>3, <1>4, <1>5

LEMMA FeedOpens ==
  ASSUME FeedInv, OpenCard
  PROVE  FeedInv'
<1>1. PICK name \in Names \ seen, fields \in PlaceFields :
        seen' = seen \cup {name} /\ NotePlace(name, fields)
  BY DEF OpenCard
<1>2. /\ turn \in Turns /\ turn.next <= turn.of /\ Len(results) \in Nat
      /\ path \in {"open_links", "open_cards"} /\ UNCHANGED <<path, loaded, unsure, scrolls, spotted, glimpsed>>
  BY DEF OpenCard, Opening, FeedInv, Collected
<1>3. turn' \in Turns /\ turn'.next = turn.next + 1 /\ turn'.of = turn.of
      /\ turn'.next \in 1 .. turn'.of + 1
  BY <1>2 DEF OpenCard, NextTurn, Turns
<1>4. Len(results) < MaxResults
  BY <1>2, FeedAssumption DEF OpenCard, Opening, FeedInv, Turns
<1>5. /\ counts' \in Counts /\ counts'.candidates = counts.candidates
      /\ results' \in Seq(PlacesOf) /\ Len(results') <= Len(results) + 1
      /\ Len(results') <= MaxResults /\ counts'.extracted = Len(results')
      /\ (\A i \in DOMAIN results' : "core" \notin results'[i].fields) =>
           counts'.partial = counts'.extracted
      /\ \A i \in DOMAIN results' : results'[i].name \in seen'
      /\ \A i, j \in DOMAIN results' : results'[i].name = results'[j].name => i = j
  BY <1>1, <1>2, <1>4, PlaceNoted
<1>6. FeedTypeOK'
  <2>1. seen' \subseteq Names
    BY <1>1 DEF FeedInv, FeedTypeOK
  <2>2. QED BY <1>2, <1>3, <1>5, <2>1 DEF FeedInv, FeedTypeOK, Counts
<1>7. path' = "open_links" => Len(results') < turn'.next /\ turn'.of <= MaxResults
  BY <1>2, <1>3, <1>5 DEF FeedInv, Turns
<1>8. Collected' /\ AllSeen'
  BY <1>2, <1>5 DEF FeedInv, Collected, AllSeen
<1>9. QED BY <1>2, <1>3, <1>6, <1>7, <1>8 DEF FeedInv, Fresh

\* The single page, and the counts the two lists go by.
LEMMA FeedCounts ==
  ASSUME FeedInv, ReadSingle \/ CountLinks \/ ScanFeed
  PROVE  FeedInv'
<1>1. counts \in Counts
  BY DEF FeedInv, FeedTypeOK, Counts
<1>2. ASSUME NEW n \in Nat, counts' = [counts EXCEPT !.candidates = AtLeast(@, n)]
      PROVE  /\ counts' \in Counts /\ counts'.candidates >= counts.candidates
             /\ counts'.candidates >= n
             /\ counts'.extracted = counts.extracted /\ counts'.partial = counts.partial
  <2> DEFINE most == AtLeast(counts.candidates, n)
  <2>1. most \in Nat /\ most >= n /\ most >= counts.candidates
    BY <1>1 DEF AtLeast, Counts
  <2>2. counts' = [counts EXCEPT !.candidates = most]
    BY <1>2
  <2> HIDE DEF most
  <2>3. QED BY <1>1, <2>1, <2>2 DEF Counts
<1>3. CASE ReadSingle
  <2>1. PICK fields \in PlaceFields :
          /\ counts' = [candidates |-> 1, attempted |-> 1,
                        extracted |-> IF Extracts(fields) THEN 1 ELSE 0,
                        partial |-> IF Extracts(fields) /\ IsPartial(fields) THEN 1 ELSE 0]
          /\ results' = IF Extracts(fields) THEN <<[name |-> NoName, fields |-> fields]>>
                        ELSE <<>>
    BY <1>3 DEF ReadSingle
  <2>2. UNCHANGED <<loaded, unsure, seen, turn, scrolls, glimpsed>> /\ path' = "judge" /\ spotted' = TRUE
    BY <1>3 DEF ReadSingle
  <2>3. 1 <= MaxResults
    BY FeedAssumption
  <2> DEFINE new == [name |-> NoName, fields |-> fields]
  <2>4. new \in PlacesOf /\ new.fields = fields
    BY DEF PlacesOf
  <2>5. CASE Extracts(fields)
    <3>1. /\ counts' \in Counts /\ counts'.candidates = 1 /\ counts'.extracted = 1
          /\ IsPartial(fields) => counts'.partial = 1
      BY <2>1, <2>5 DEF Counts
    <3> HIDE DEF new
    <3>2. /\ results' = <<new>> /\ results' \in Seq(PlacesOf) /\ Len(results') = 1
          /\ DOMAIN results' = {1} /\ results'[1] = new
      BY <2>1, <2>4, <2>5 DEF new
    <3>3. (\A i \in DOMAIN results' : "core" \notin results'[i].fields) =>
            counts'.partial = 1
      BY <2>4, <3>1, <3>2 DEF IsPartial
    <3>4. FeedTypeOK'
      BY <2>2, <3>1 DEF FeedInv, FeedTypeOK, Counts
    <3>5. Collected'
      <4>1. counts'.candidates > 0
        BY <3>1
      <4>2. \A i, j \in DOMAIN results' : results'[i].name = results'[j].name => i = j
        BY <3>2
      <4>3. results' \in Seq(PlacesOf) /\ Len(results') = 1
        BY <3>2
      <4>4. QED BY <2>3, <3>1, <3>3, <4>1, <4>2, <4>3 DEF Collected
    <3>6. turn' \in Turns /\ path' = "judge"
      BY <2>2 DEF FeedInv
    <3>7. QED BY <3>4, <3>5, <3>6 DEF FeedInv, Fresh
  <2>6. CASE ~Extracts(fields)
    <3>1. /\ counts' \in Counts /\ counts'.candidates = 1 /\ counts'.extracted = 0
          /\ counts'.partial = 0
      BY <2>1, <2>6 DEF Counts
    <3>2. results' = <<>> /\ results' \in Seq(PlacesOf) /\ Len(results') = 0
          /\ DOMAIN results' = {}
      BY <2>1, <2>6
    <3>3. FeedTypeOK'
      BY <2>2, <3>1 DEF FeedInv, FeedTypeOK, Counts
    <3>4. Collected'
      <4>1. counts'.extracted = counts'.partial /\ counts'.candidates > 0
        BY <3>1
      <4>2. \A i, j \in DOMAIN results' : i = j
        BY <3>2
      <4>3. results' \in Seq(PlacesOf) /\ Len(results') = 0 /\ 0 <= MaxResults
        BY <2>3, <3>2, FeedAssumption
      <4>4. QED BY <3>1, <4>1, <4>2, <4>3 DEF Collected
    <3>5. QED BY <2>2, <3>3, <3>4 DEF FeedInv, Fresh
  <2>7. QED BY <2>5, <2>6
<1>4. CASE CountLinks
  <2>1. PICK n \in 0 .. MaxCards :
          /\ counts' = [counts EXCEPT !.candidates = AtLeast(@, AtMost(n, MaxResults))]
          /\ turn' = [next |-> 1, of |-> AtMost(n, MaxResults)]
          /\ spotted' = (spotted \/ n > 0)
    BY <1>4 DEF CountLinks
  <2> DEFINE m == AtMost(n, MaxResults)
  <2>2. m \in Nat /\ m <= MaxResults /\ (n > 0 => m > 0) /\ n \in Nat
    BY FeedAssumption DEF AtMost
  <2> HIDE DEF m
  <2>3. /\ counts' \in Counts /\ counts'.candidates >= m
        /\ counts'.extracted = counts.extracted /\ counts'.partial = counts.partial
    BY <1>2, <2>1, <2>2 DEF m
  <2>4. turn' \in Turns /\ turn'.next = 1 /\ turn'.of = m /\ turn'.next \in 1 .. turn'.of + 1
    BY <2>1, <2>2 DEF Turns, m
  <2>5. /\ UNCHANGED <<loaded, unsure, seen, results, scrolls, glimpsed>> /\ path' = "open_links"
        /\ results = <<>> /\ Len(results) = 0 /\ ~spotted
    BY <1>4 DEF CountLinks, FeedInv, Fresh
  <2>6. spotted' => m > 0
    BY <2>1, <2>2, <2>5
  <2>7. spotted' \in BOOLEAN
    BY <2>1
  <2>8. FeedTypeOK'
    BY <2>3, <2>4, <2>5, <2>7 DEF FeedInv, FeedTypeOK, Counts
  <2>9. Collected' /\ AllSeen'
    BY <2>2, <2>3, <2>5, <2>6 DEF FeedInv, Collected, AllSeen, Counts
  <2>10. QED BY <2>2, <2>4, <2>5, <2>8, <2>9 DEF FeedInv, Fresh
<1>5. CASE ScanFeed
  <2>1. UNCHANGED <<loaded, seen, results, scrolls, glimpsed>> /\ path = "scan"
    BY <1>5 DEF ScanFeed
  <2>2. CASE ~(Len(results) < MaxResults /\ scrolls < MaxScrolls)
    <3>1. path' = "judge" /\ UNCHANGED <<counts, unsure, turn, spotted>>
      BY <1>5, <2>2 DEF ScanFeed
    <3>2. QED BY <2>1, <3>1 DEF FeedInv, FeedTypeOK, Fresh, Collected
  <2>3. CASE Len(results) < MaxResults /\ scrolls < MaxScrolls
    <3>1. PICK cards \in 0 .. MaxCards, stray \in BOOLEAN :
            /\ spotted' = (spotted \/ cards > 0)
            /\ IF cards = 0 /\ results = <<>>
               THEN /\ path' = IF stray THEN "stale" ELSE "judge"
                    /\ unsure' = (unsure \/ ~stray)
                    /\ UNCHANGED <<counts, turn>>
               ELSE /\ counts' = [counts EXCEPT !.candidates = AtLeast(@, cards)]
                    /\ turn' = [next |-> 1, of |-> cards]
                    /\ path' = "open_cards"
                    /\ UNCHANGED unsure
      BY <1>5, <2>3 DEF ScanFeed
    <3>2. cards \in Nat /\ spotted' \in BOOLEAN
      BY <3>1, FeedAssumption
    <3>3. CASE cards = 0 /\ results = <<>>
      <4>1. /\ path' \in {"stale", "judge"} /\ UNCHANGED <<counts, turn>>
            /\ unsure' \in BOOLEAN /\ spotted' = spotted
        BY <3>1, <3>3 DEF FeedInv, FeedTypeOK
      <4>2. QED BY <2>1, <4>1 DEF FeedInv, FeedTypeOK, Fresh, Collected
    <3>4. CASE ~(cards = 0 /\ results = <<>>)
      <4>1. /\ counts' \in Counts /\ counts'.candidates >= counts.candidates
            /\ counts'.candidates >= cards
            /\ counts'.extracted = counts.extracted /\ counts'.partial = counts.partial
        BY <1>2, <3>1, <3>2, <3>4
      <4>2. turn' \in Turns /\ turn'.next \in 1 .. turn'.of + 1 /\ turn'.of = cards
        BY <3>1, <3>2, <3>4 DEF Turns
      <4>3. path' = "open_cards" /\ UNCHANGED unsure
        BY <3>1, <3>4
      <4>4. FeedTypeOK'
        BY <2>1, <3>2, <4>1, <4>2, <4>3 DEF FeedInv, FeedTypeOK, Counts
      <4>5. spotted' => counts'.candidates > 0
        <5>1. spotted => counts.candidates > 0
          BY DEF FeedInv, Collected
        <5>2. spotted' => spotted \/ cards > 0
          BY <3>1
        <5> DEFINE before == counts.candidates
                   after  == counts'.candidates
        <5>3. before \in Nat /\ after \in Nat /\ after >= before /\ after >= cards
          BY <1>1, <4>1 DEF Counts
        <5> HIDE DEF before, after
        <5>4. before > 0 \/ cards > 0 => after > 0
          BY <3>2, <5>3
        <5>5. QED BY <5>1, <5>2, <5>4 DEF before, after
      <4>6. scrolls' < MaxScrolls
        BY <2>1, <2>3
      <4>7. Collected' /\ AllSeen'
        BY <2>1, <4>1, <4>5 DEF FeedInv, Collected, AllSeen
      <4>8. QED BY <4>2, <4>3, <4>4, <4>6, <4>7 DEF FeedInv, Fresh
    <3>5. QED BY <3>3, <3>4
  <2>4. QED BY <2>2, <2>3
<1>6. QED BY <1>3, <1>4, <1>5

LEMMA FeedKeeps == FeedInv /\ [FeedNext]_feedVars => FeedInv'
<1> SUFFICES ASSUME FeedInv, [FeedNext]_feedVars PROVE FeedInv'
  OBVIOUS
<1>1. CASE UNCHANGED feedVars
  BY <1>1 DEF feedVars, FeedInv, FeedTypeOK, Collected, AllSeen, SelectorsStale
<1>2. QED BY <1>1, FeedMoves, FeedOpens, FeedCounts DEF FeedNext, FeedStep

LEMMA FeedInvariant == FeedSpec => []FeedInv
BY FeedStarts, FeedKeeps, PTL DEF FeedSpec

\* Why a search that counted no candidate has nothing: the feed's first scan marked
\* it, or the links that chose the path were gone.
Explained ==
  /\ path \in Fresh => scrolls = 0
  /\ path \in {"links", "open_links"} => glimpsed
  /\ path = "scan" => counts.candidates > 0 \/ (scrolls = 0 /\ results = <<>>)
  /\ path = "open_cards" => counts.candidates > 0
  /\ path \in {"judge", "returned"} => counts.candidates > 0 \/ unsure \/ glimpsed

LEMMA FeedExplains ==
  ASSUME FeedInv, Explained, [FeedNext]_feedVars
  PROVE  Explained'
<1> USE DEF Explained, Fresh
<1>1. counts.candidates \in Nat /\ (path \in Fresh => results = <<>>)
  BY DEF FeedInv, FeedTypeOK
<1>2. CASE \/ LoadPage \/ PageFails \/ ChoosePath \/ EndLinks \/ ScrollFeed \/ Judge
           \/ SkipCard \/ FailCard
  BY <1>1, <1>2
     DEF LoadPage, PageFails, ChoosePath, EndLinks, ScrollFeed, Judge, SkipCard, FailCard, Opening
<1>3. CASE ReadSingle
  <2>1. counts'.candidates = 1 /\ path' = "judge"
    BY <1>3 DEF ReadSingle
  <2>2. QED BY <2>1
<1>4. CASE CountLinks
  BY <1>4 DEF CountLinks
<1>5. CASE OpenCard
  <2>1. counts'.candidates = counts.candidates
    BY <1>5 DEF OpenCard, NotePlace, FeedInv, FeedTypeOK
  <2>2. QED BY <1>5, <2>1 DEF OpenCard, Opening
<1>6. CASE ScanFeed
  <2>1. CASE ~(Len(results) < MaxResults /\ scrolls < MaxScrolls)
    <3>1. results = <<>> => Len(results) = 0
      OBVIOUS
    <3>2. counts.candidates > 0
      BY <1>6, <2>1, <3>1, FeedAssumption DEF ScanFeed
    <3>3. QED BY <1>6, <2>1, <3>2 DEF ScanFeed
  <2>2. CASE Len(results) < MaxResults /\ scrolls < MaxScrolls
    <3>1. PICK cards \in 0 .. MaxCards, stray \in BOOLEAN :
            IF cards = 0 /\ results = <<>>
            THEN /\ path' = IF stray THEN "stale" ELSE "judge"
                 /\ unsure' = (unsure \/ ~stray)
            ELSE /\ counts' = [counts EXCEPT !.candidates = AtLeast(@, cards)]
                 /\ path' = "open_cards"
      BY <1>6, <2>2 DEF ScanFeed
    <3>2. CASE cards = 0 /\ results = <<>>
      BY <3>1, <3>2
    <3>3. CASE ~(cards = 0 /\ results = <<>>)
      <4>1. counts'.candidates = AtLeast(counts.candidates, cards)
        BY <3>1, <3>3 DEF FeedInv, FeedTypeOK
      <4>2. cards \in Nat /\ (cards > 0 \/ counts.candidates > 0)
        BY <1>6, <3>3, FeedAssumption DEF ScanFeed
      <4>3. counts'.candidates > 0
        BY <1>1, <4>1, <4>2 DEF AtLeast
      <4>4. QED BY <3>1, <3>3, <4>3
    <3>4. QED BY <3>2, <3>3
  <2>3. QED BY <2>1, <2>2
<1>7. CASE UNCHANGED feedVars
  BY <1>7 DEF feedVars
<1>8. QED BY <1>2, <1>3, <1>4, <1>5, <1>6, <1>7 DEF FeedNext, FeedStep

LEMMA EmptyExplained == FeedSpec => []Explained
<1>1. FeedInit => Explained
  BY DEF FeedInit, Explained, Fresh
<1>2. FeedInv /\ Explained /\ [FeedNext]_feedVars => Explained'
  BY FeedExplains
<1>3. QED BY <1>1, <1>2, FeedInvariant, PTL DEF FeedSpec

\* The scraper's counts, names, turn and scrolls keep their types.
THEOREM FeedTypes == FeedSpec => []FeedTypeOK
<1>1. FeedInv => FeedTypeOK
  BY DEF FeedInv
<1>2. QED BY <1>1, FeedInvariant, PTL

\* However the page changes between two counts, an empty list is returned only of
\* a page on which no candidate was ever counted, and it is marked as unverified
\* unless link_count saw links that were gone when counted again; a list has a
\* place with more than its title, none twice, and at most max_results.
THEOREM CountedIsNotEmpty == FeedSpec => []ReturnedMeansRead
<1>1. FeedInv /\ Explained => ReturnedMeansRead
  <2> SUFFICES ASSUME FeedInv, Explained, path = "returned" PROVE ReturnedMeansRead
    BY DEF ReturnedMeansRead
  <2>1. counts \in Counts /\ results \in Seq(PlacesOf) /\ counts.extracted = Len(results)
        /\ ~SelectorsStale
    BY DEF FeedInv, Collected, FeedTypeOK, Counts
  <2>2. CASE results = <<>>
    <3>1. counts.extracted = 0
      BY <2>1, <2>2
    <3>2. loaded /\ ~(counts.candidates > 0)
      BY <2>1, <3>1 DEF SelectorsStale
    <3>3. QED BY <2>2, <3>2 DEF FeedInv, Collected, Explained, ReturnedMeansRead
  <2>3. CASE results # <<>>
    <3>1. counts.extracted > 0
      BY <2>1, <2>3
    <3>2. counts.partial # counts.extracted
      BY <2>1, <3>1 DEF SelectorsStale
    <3>3. \E i \in DOMAIN results : "core" \in results[i].fields
      BY <3>2 DEF FeedInv, Collected
    <3>4. QED BY <2>3, <3>3 DEF FeedInv, Collected, ReturnedMeansRead
  <2>4. QED BY <2>2, <2>3
<1>2. QED BY <1>1, FeedInvariant, EmptyExplained, PTL

(***************************************************************************)
(* The requests that fan out.                                              *)
(***************************************************************************)

Outcomes    == [error : BOOLEAN, code : {0, 404}, places : SUBSET Places]
AreaEntries == [index : Searches, count : Nat, error : BOOLEAN]
AnswerCodes == {0, 200, 400, 404, 500}

\* The k-th entry is of the k-th search, and says how it went.
EntryTells(k) ==
  /\ got[k] # "none" /\ entries[k].index = k
  /\ got[k] # "places" => entries[k].error
  /\ got[k] = "places" =>
       /\ jobs[k] = "ended" /\ ~came[k].error
       /\ entries[k].count = Cardinality(came[k].places)
       /\ entries[k].error => wanted.kind = "geocode"

\* What was answered, by the count of failures.
ReplyTells ==
  /\ ~Awaiting /\ wanted.kind # "none" /\ awaited = wanted.searches
  /\ wanted.kind \in Grids =>
       /\ areaReply.status = 200 <=> failed # wanted.searches
       /\ areaReply.status = 200 => (areaReply.partial <=> failed > 0)
  /\ wanted.kind \in Singles => (areaReply.status = 200 <=> ~entries[1].error)

\* The searches so far have an entry each, the one awaited none yet; and failed
\* counts the entries with an error, as far as the answers go by it.
AreaInv ==
  /\ AreaTypeOK /\ came \in [Searches -> Outcomes]
  /\ awaited <= wanted.searches
  /\ wanted.kind \in Singles => wanted.searches = 1
  /\ wanted.kind = "none" => awaited = 0
  /\ Len(entries) = IF Awaiting THEN awaited - 1 ELSE awaited
  /\ \A k \in Searches : k > awaited => got[k] = "none" /\ jobs[k] = "none"
  /\ \A k \in 1 .. Len(entries) : EntryTells(k)
  /\ failed <= Len(entries)
  /\ failed = Len(entries) <=> \A k \in 1 .. Len(entries) : entries[k].error
  /\ failed = 0 <=> \A k \in 1 .. Len(entries) : ~entries[k].error
  /\ areaReply # NoReply => ReplyTells

LEMMA PointsAre ==
  /\ Most \in Nat /\ MaxItems \in 0 .. Most /\ MaxSide \in 1 .. Most /\ 1 \in 1 .. Most
  /\ Searches = 1 .. Most
  /\ \A width \in Nat : GridPoints(width) \in 1 .. Most
<1>1. \A a, b \in Nat : a <= b => a * a <= b * b
  <2> SUFFICES ASSUME NEW a \in Nat, NEW b \in Nat, a <= b PROVE a * a <= b * b
    OBVIOUS
  <2>1. a * a <= a * b /\ a * b <= b * b
    OBVIOUS
  <2>2. a * a \in Nat /\ a * b \in Nat /\ b * b \in Nat
    OBVIOUS
  <2> QED BY <2>1, <2>2
<1> DEFINE square == MaxSide * MaxSide
<1>2. MaxSide >= 1 /\ MaxSide \in Nat /\ MaxItems \in Nat
  BY AreaAssumption
<1>3. square \in Nat /\ MaxSide <= square /\ 1 <= square
  BY <1>2
<1>4. Most = IF MaxItems > square THEN MaxItems ELSE square
  BY DEF Most
<1> HIDE DEF square
<1>5. Most \in Nat /\ MaxItems \in 0 .. Most /\ square <= Most /\ MaxSide <= Most /\ 1 <= Most
  BY <1>2, <1>3, <1>4
<1>6. ASSUME NEW width \in Nat PROVE GridPoints(width) \in 1 .. Most
  <2> DEFINE side == CASE width < MinSide -> MinSide
                       [] width > MaxSide -> MaxSide
                       [] OTHER          -> width
  <2>1. side \in Nat /\ 1 <= side /\ side <= MaxSide
    BY AreaAssumption
  <2>2. GridPoints(width) = side * side
    BY DEF GridPoints
  <2> HIDE DEF side
  <2>3. side * side <= square /\ side * side \in Nat /\ 1 <= side * side
    BY <1>1, <1>2, <2>1 DEF square
  <2>4. QED BY <1>3, <1>5, <2>2, <2>3
<1>7. QED BY <1>2, <1>5, <1>6 DEF Searches

LEMMA PlacesAreFinite ==
  \A places \in SUBSET Places : IsFiniteSet(places) /\ Cardinality(places) \in Nat
<1> DEFINE f == [c \in Cids |-> [cid |-> c]]
<1>1. f \in Surjection(Cids, Places)
  <2>1. f \in [Cids -> Places]
    BY DEF Places
  <2>2. ASSUME NEW p \in Places PROVE \E c \in Cids : f[c] = p
    BY DEF Places
  <2>3. QED BY <2>1, <2>2 DEF Surjection
<1>2. IsFiniteSet(Places)
  BY <1>1, AreaAssumption, FS_Surjection
<1>3. QED BY <1>2, FS_Subset, FS_CardinalityType

LEMMA AreaStarts == AreaInit => AreaInv
<1> SUFFICES ASSUME AreaInit PROVE AreaInv
  OBVIOUS
<1>1. Nothing \in Outcomes /\ NoReply.status = 0 /\ areaReply = NoReply
  BY DEF AreaInit, Nothing, Outcomes, NoReply
<1>2. /\ entries = <<>> /\ entries \in Seq(AreaEntries) /\ Len(entries) = 0
      /\ awaited = 0 /\ failed = 0 /\ wanted.kind = "none" /\ wanted.searches = 0
  BY DEF AreaInit
<1>3. wanted \in [kind : Kinds \cup {"none"}, searches : 0 .. Most]
  BY PointsAre DEF AreaInit
<1>4. AreaTypeOK
  BY <1>1, <1>2, <1>3, PointsAre DEF AreaInit, AreaTypeOK, AreaEntries
<1>5. ~Awaiting /\ came \in [Searches -> Outcomes]
  BY <1>1, <1>2 DEF Awaiting, AreaInit
<1>6. /\ \A k \in Searches : got[k] = "none" /\ jobs[k] = "none"
      /\ \A k \in 1 .. Len(entries) : FALSE
  BY <1>2 DEF AreaInit
<1>7. "none" \notin Singles
  BY DEF Singles
<1>8. QED BY <1>1, <1>2, <1>4, <1>5, <1>6, <1>7 DEF AreaInv

LEMMA AreaFacts ==
  ASSUME AreaInv
  PROVE  /\ Searches = 1 .. Most /\ Most \in Nat
         /\ awaited \in 0 .. Most /\ failed \in Nat /\ wanted.searches \in 0 .. Most
         /\ entries \in Seq(AreaEntries) /\ Len(entries) \in Nat /\ Len(entries) <= awaited
         /\ jobs \in [Searches -> {"none", "queued", "browsing", "ended"}]
         /\ got \in [Searches -> {"none", "places", "error", "lost"}]
         /\ came \in [Searches -> Outcomes]
         /\ Awaiting => awaited \in Searches /\ awaited = Len(entries) + 1
         /\ areaReply # NoReply => ~Awaiting
         /\ \A k \in 1 .. Len(entries) : k \in Searches /\ EntryTells(k)
<1>1. /\ Searches = 1 .. Most /\ Most \in Nat
  BY PointsAre
<1>2. /\ awaited \in 0 .. Most /\ failed \in 0 .. Most /\ wanted.searches \in 0 .. Most
      /\ entries \in Seq(AreaEntries)
      /\ jobs \in [Searches -> {"none", "queued", "browsing", "ended"}]
      /\ got \in [Searches -> {"none", "places", "error", "lost"}]
      /\ came \in [Searches -> Outcomes]
  BY DEF AreaInv, AreaTypeOK, AreaEntries
<1>3. Len(entries) \in Nat
  BY <1>2
<1>4. Len(entries) = IF Awaiting THEN awaited - 1 ELSE awaited
  BY DEF AreaInv
<1>5. Len(entries) <= awaited
  BY <1>1, <1>2, <1>4
<1>6. Awaiting => awaited \in Searches /\ awaited = Len(entries) + 1
  BY <1>1, <1>2, <1>4 DEF Awaiting
<1>7. areaReply # NoReply => ~Awaiting
  BY DEF AreaInv, ReplyTells
<1>8. \A k \in 1 .. Len(entries) : k \in Searches /\ EntryTells(k)
  BY <1>1, <1>2, <1>3, <1>5 DEF AreaInv
<1>9. QED BY <1>1, <1>2, <1>3, <1>5, <1>6, <1>7, <1>8

\* Nothing is told of a search but by Take, which tells of the one awaited.
LEMMA AreaTakes ==
  ASSUME AreaInv, Awaiting, NEW outcome \in Outcomes, NEW told \in {"places", "error", "lost"},
         Take(outcome, told), UNCHANGED <<wanted, awaited, came, areaReply>>,
         jobs' \in [Searches -> {"none", "queued", "browsing", "ended"}],
         \A k \in Searches : k # awaited => jobs'[k] = jobs[k],
         told = "places" => /\ jobs'[awaited] = "ended" /\ outcome = came[awaited]
                            /\ ~outcome.error,
         told # "places" => outcome.error
  PROVE  AreaInv'
<1> DEFINE n   == Len(entries)
           bad == Failing(outcome)
           new == [index |-> awaited, count |-> Cardinality(outcome.places), error |-> bad]
<1>1. /\ awaited \in Searches /\ awaited = n + 1 /\ n \in Nat /\ awaited <= wanted.searches
      /\ areaReply = NoReply /\ Searches = 1 .. Most /\ Most \in Nat /\ failed \in Nat
      /\ entries \in Seq(AreaEntries) /\ wanted.searches \in 0 .. Most
  BY AreaFacts DEF AreaInv
<1>2. bad \in BOOLEAN /\ (told # "places" => bad)
      /\ (bad /\ told = "places" => wanted.kind = "geocode")
  BY DEF Failing
<1>3. Cardinality(outcome.places) \in Nat
  BY PlacesAreFinite DEF Outcomes
<1>4. entries' = Append(entries, new) /\ failed' = (IF bad THEN failed + 1 ELSE failed)
  BY DEF Take, Note, Entry
<1>5. got' = [got EXCEPT ![awaited] = told]
  BY DEF Take
<1> HIDE DEF bad
<1>6. new \in AreaEntries /\ new.index = awaited /\ new.count = Cardinality(outcome.places)
      /\ new.error = bad
  BY <1>1, <1>2, <1>3 DEF AreaEntries
<1> HIDE DEF new
<1>7. /\ entries' \in Seq(AreaEntries) /\ Len(entries') = n + 1 /\ entries'[n + 1] = new
      /\ \A k \in 1 .. n : entries'[k] = entries[k]
  BY <1>1, <1>4, <1>6
<1>8. got' \in [Searches -> {"none", "places", "error", "lost"}] /\ got'[awaited] = told
      /\ \A k \in Searches : k # awaited => got'[k] = got[k]
  BY <1>1, <1>5 DEF AreaInv, AreaTypeOK
<1>9. ASSUME NEW k \in 1 .. n + 1 PROVE EntryTells(k)'
  <2>1. CASE k = n + 1
    BY <1>1, <1>2, <1>6, <1>7, <1>8, <2>1 DEF EntryTells
  <2>2. CASE k # n + 1
    <3>1. k \in 1 .. n /\ k \in Searches /\ k # awaited /\ EntryTells(k)
      BY <1>1, <2>2 DEF AreaInv
    <3>2. got'[k] = got[k] /\ entries'[k] = entries[k] /\ jobs'[k] = jobs[k]
      BY <1>7, <1>8, <3>1
    <3>3. QED BY <3>1, <3>2 DEF EntryTells
  <2>3. QED BY <2>1, <2>2
<1>10. /\ failed <= n
       /\ failed = n <=> \A k \in 1 .. n : entries[k].error
       /\ failed = 0 <=> \A k \in 1 .. n : ~entries[k].error
  BY DEF AreaInv
<1>11. /\ \A k \in 1 .. n : entries'[k].error <=> entries[k].error
       /\ entries'[n + 1].error <=> bad
  BY <1>2, <1>6, <1>7
<1>12. /\ failed' \in Nat /\ failed' <= n + 1
       /\ failed' = n + 1 <=> \A k \in 1 .. n + 1 : entries'[k].error
       /\ failed' = 0 <=> \A k \in 1 .. n + 1 : ~entries'[k].error
  <2>1. /\ (\A k \in 1 .. n + 1 : entries'[k].error) <=>
             (bad /\ \A k \in 1 .. n : entries[k].error)
        /\ (\A k \in 1 .. n + 1 : ~entries'[k].error) <=>
             (~bad /\ \A k \in 1 .. n : ~entries[k].error)
    <3>1. n + 1 \in 1 .. n + 1 /\ \A k \in 1 .. n : k \in 1 .. n + 1
      BY <1>1
    <3>2. \A k \in 1 .. n + 1 : k = n + 1 \/ k \in 1 .. n
      BY <1>1
    <3>3. QED BY <1>11, <3>1, <3>2
  <2>2. CASE bad
    <3>1. failed' = failed + 1
      BY <1>4, <2>2
    <3>2. failed' \in Nat /\ failed' <= n + 1 /\ failed' # 0 /\ (failed' = n + 1 <=> failed = n)
      BY <1>1, <1>10, <3>1
    <3>3. QED BY <1>10, <2>1, <2>2, <3>2
  <2>3. CASE ~bad
    <3>1. failed' = failed
      BY <1>4, <2>3
    <3>2. failed' \in Nat /\ failed' <= n + 1 /\ failed' # n + 1
      BY <1>1, <1>10, <3>1
    <3>3. QED BY <1>10, <2>1, <2>3, <3>1, <3>2
  <2>4. QED BY <2>2, <2>3
<1>13. ~Awaiting' /\ areaReply' = NoReply
  BY <1>1, <1>8 DEF Awaiting
<1>14. AreaTypeOK'
  <2>1. failed' \in 0 .. Most
    BY <1>1, <1>12
  <2>2. QED BY <1>7, <1>8, <2>1 DEF AreaInv, AreaTypeOK, AreaEntries
<1>15. \A k \in Searches : k > awaited => got'[k] = "none" /\ jobs'[k] = "none"
  BY <1>1, <1>8 DEF AreaInv
<1>16. QED
  BY <1>1, <1>7, <1>9, <1>12, <1>13, <1>14, <1>15 DEF AreaInv, NoReply

LEMMA OutcomesAre ==
  /\ \A code \in {0, 404} : Error(code) \in Outcomes /\ Error(code).error
  /\ \A places \in SUBSET Places : [Nothing EXCEPT !.places = places] \in Outcomes
BY DEF Error, Nothing, Outcomes

LEMMA AreaTold ==
  ASSUME AreaInv, AreaTakeResult \/ AreaTimeOut \/ AreaCreateFails \/ AreaReadFails
  PROVE  AreaInv'
<1>1. /\ Awaiting /\ awaited \in Searches /\ came \in [Searches -> Outcomes]
      /\ jobs \in [Searches -> {"none", "queued", "browsing", "ended"}]
  BY AreaFacts DEF AreaTakeResult, AreaTimeOut, AreaCreateFails, AreaReadFails
<1>2. CASE AreaTakeResult
  <2>1. came[awaited] \in Outcomes /\ jobs[awaited] = "ended"
        /\ UNCHANGED <<wanted, awaited, jobs, came, areaReply>>
    BY <1>1, <1>2 DEF AreaTakeResult
  <2>2. CASE came[awaited].error
    <3>1. Take(came[awaited], "error")
      BY <1>2, <2>2 DEF AreaTakeResult
    <3>2. QED BY <1>1, <2>1, <2>2, <3>1, AreaTakes
  <2>3. CASE ~came[awaited].error
    <3>1. Take(came[awaited], "places")
      BY <1>2, <2>3 DEF AreaTakeResult
    <3>2. QED BY <1>1, <2>1, <2>3, <3>1, AreaTakes
  <2>4. QED BY <2>2, <2>3
<1>3. CASE AreaTimeOut \/ AreaCreateFails \/ AreaReadFails
  <2>1. Take(Error(0), "lost") /\ UNCHANGED <<wanted, awaited, came, areaReply>>
    BY <1>3 DEF AreaTimeOut, AreaCreateFails, AreaReadFails
  <2>2. /\ jobs' \in [Searches -> {"none", "queued", "browsing", "ended"}]
        /\ \A k \in Searches : k # awaited => jobs'[k] = jobs[k]
    BY <1>1, <1>3 DEF AreaTimeOut, AreaCreateFails, AreaReadFails
  <2>3. QED BY <1>1, <2>1, <2>2, OutcomesAre, AreaTakes
<1>4. QED BY <1>2, <1>3

\* A job goes on by itself; what a search was told of an ended one stands.
LEMMA AreaJobs ==
  ASSUME AreaInv, NEW k \in Searches, JobLaunches(k) \/ JobEnds(k)
  PROVE  AreaInv'
<1>1. /\ UNCHANGED <<wanted, awaited, got, entries, failed, areaReply>>
      /\ jobs[k] \in {"queued", "browsing"}
  BY DEF JobLaunches, JobEnds
<1>2. /\ jobs' \in [Searches -> {"none", "queued", "browsing", "ended"}]
      /\ \A j \in Searches : j # k => jobs'[j] = jobs[j]
  BY DEF JobLaunches, JobEnds, AreaInv, AreaTypeOK
<1>3. came' \in [Searches -> Outcomes] /\ \A j \in Searches : j # k => came'[j] = came[j]
  <2>1. CASE JobLaunches(k)
    BY <2>1 DEF JobLaunches, AreaInv
  <2>2. CASE JobEnds(k)
    <3>1. PICK outcome \in {[Nothing EXCEPT !.places = ps] : ps \in SUBSET Places}
                             \cup {Error(0), Error(404)} : came' = [came EXCEPT ![k] = outcome]
      BY <2>2 DEF JobEnds
    <3>2. outcome \in Outcomes
      BY OutcomesAre
    <3>3. QED BY <3>1, <3>2 DEF AreaInv
  <2>3. QED BY <2>1, <2>2
<1>4. ~(k > awaited)
  BY <1>1 DEF AreaInv
<1>5. /\ Awaiting' = Awaiting /\ AreaTypeOK'
      /\ (areaReply # NoReply => ReplyTells) => (areaReply' # NoReply => ReplyTells')
  BY <1>1, <1>2 DEF Awaiting, AreaInv, AreaTypeOK, ReplyTells
<1>6. ASSUME NEW j \in 1 .. Len(entries) PROVE EntryTells(j)'
  <2>1. j \in Searches /\ EntryTells(j)
    BY AreaFacts
  <2>2. CASE j = k
    BY <1>1, <2>1, <2>2 DEF EntryTells
  <2>3. CASE j # k
    BY <1>1, <1>2, <1>3, <2>1, <2>3 DEF EntryTells
  <2>4. QED BY <2>2, <2>3
<1>7. \A j \in Searches : j > awaited => got'[j] = "none" /\ jobs'[j] = "none"
  BY <1>1, <1>2, <1>4 DEF AreaInv, AreaTypeOK
<1>8. QED BY <1>1, <1>2, <1>3, <1>5, <1>6, <1>7 DEF AreaInv

LEMMA AreaAsks ==
  ASSUME AreaInv, AreaAsk
  PROVE  AreaInv'
<1>1. PICK kind \in Kinds, width \in 1 .. (IF MaxItems > MaxSide THEN MaxItems ELSE MaxSide) :
        wanted' = [kind |-> kind, searches |-> SearchesOf(kind, width)]
  BY DEF AreaAsk
<1>2. /\ UNCHANGED <<awaited, jobs, came, got, entries, merged, failed, areaReply>>
      /\ wanted.kind = "none" /\ awaited = 0 /\ Len(entries) = 0 /\ areaReply = NoReply
  BY AreaFacts DEF AreaAsk, AreaInv, ReplyTells
<1>3. width \in Nat /\ width \in 1 .. Most
  BY PointsAre
<1>4. SearchesOf(kind, width) \in 0 .. Most
      /\ (kind \in Singles => SearchesOf(kind, width) = 1)
  BY <1>3, PointsAre DEF SearchesOf, Kinds, Lists, Grids, Singles
<1>5. /\ wanted' \in [kind : Kinds \cup {"none"}, searches : 0 .. Most]
      /\ wanted'.kind = kind /\ wanted'.searches = SearchesOf(kind, width)
  BY <1>1, <1>4
<1>6. AreaTypeOK' /\ Awaiting' = Awaiting
  BY <1>2, <1>5 DEF AreaInv, AreaTypeOK, Awaiting
<1>7. \A k \in 1 .. Len(entries) : FALSE
  BY <1>2
<1>8. kind # "none"
  BY DEF Kinds, Lists, Grids, Singles
<1>9. QED BY <1>2, <1>4, <1>5, <1>6, <1>7, <1>8 DEF AreaInv

LEMMA AreaSearches ==
  ASSUME AreaInv, AreaSearchNext
  PROVE  AreaInv'
<1>1. /\ UNCHANGED <<wanted, came, got, entries, merged, failed, areaReply>>
      /\ areaReply = NoReply /\ wanted.kind # "none" /\ awaited' = awaited + 1
      /\ jobs' = [jobs EXCEPT ![awaited'] = "queued"] /\ Len(entries) = awaited
  BY DEF AreaSearchNext, AreaInv
<1>2. /\ awaited \in 0 .. Most /\ awaited' \in Searches /\ awaited' <= wanted.searches
      /\ awaited' # 0 /\ Searches = 1 .. Most
  BY <1>1, AreaFacts DEF AreaSearchNext
<1>3. got[awaited'] = "none"
  BY <1>2, <1>1 DEF AreaInv
<1>4. Awaiting'
  BY <1>1, <1>2, <1>3 DEF Awaiting
<1>5. /\ jobs' \in [Searches -> {"none", "queued", "browsing", "ended"}]
      /\ \A k \in Searches : k # awaited' => jobs'[k] = jobs[k]
  BY <1>1, <1>2, AreaFacts
<1>6. ASSUME NEW k \in 1 .. Len(entries) PROVE EntryTells(k)'
  <2>1. EntryTells(k) /\ k \in Searches /\ k # awaited'
    BY <1>1, <1>2, AreaFacts
  <2>2. QED BY <1>1, <1>5, <2>1 DEF EntryTells
<1>7. AreaTypeOK'
  BY <1>1, <1>2, <1>5 DEF AreaInv, AreaTypeOK
<1>8. \A k \in Searches : k > awaited' => got'[k] = "none" /\ jobs'[k] = "none"
  BY <1>1, <1>2, <1>5 DEF AreaInv
<1>9. Len(entries') = awaited' - 1
  BY <1>1, <1>2
<1>10. QED BY <1>1, <1>2, <1>4, <1>6, <1>7, <1>8, <1>9 DEF AreaInv

LEMMA AreaReplies ==
  ASSUME AreaInv, AreaReply
  PROVE  AreaInv'
<1>1. /\ UNCHANGED <<wanted, awaited, jobs, came, got, entries, merged, failed>>
      /\ Over
  BY DEF AreaReply, ReplyGrid, ReplySingle, ReplyList, ReplyLocation
<1>2. /\ ~Awaiting /\ wanted.kind # "none" /\ awaited = wanted.searches
      /\ Len(entries) = wanted.searches /\ failed \in Nat
  BY <1>1, AreaFacts DEF Over, AreaInv
<1>3. \A code \in {0, 404, 502} : UpstreamError(code).status \in {400, 404, 500}
  BY DEF UpstreamError, PassedOn, NoReply
<1>4. ASSUME areaReply'.status \in AnswerCodes, ReplyTells'
      PROVE  AreaInv'
  <2>1. AreaTypeOK' /\ Awaiting' = Awaiting
    BY <1>1, <1>4 DEF AreaInv, AreaTypeOK, AnswerCodes, Awaiting
  <2>2. \A k \in 1 .. Len(entries) : EntryTells(k)'
    BY <1>1, AreaFacts DEF EntryTells
  <2>3. QED BY <1>1, <1>4, <2>1, <2>2 DEF AreaInv
<1>5. CASE ReplyGrid
  <2>1. wanted.kind \in Grids /\ wanted.kind \notin Singles /\ areaReply' = GridOutcome
    BY <1>5 DEF ReplyGrid, Grids, Singles
  <2>2. CASE failed = wanted.searches
    <3>1. areaReply'.status \in {400, 404, 500}
      BY <1>3, <2>1, <2>2 DEF GridOutcome
    <3>2. QED BY <1>1, <1>2, <1>4, <2>1, <2>2, <3>1
          DEF AnswerCodes, ReplyTells, Awaiting
  <2>3. CASE failed # wanted.searches
    <3>1. areaReply' = Answered(DOMAIN merged, failed > 0)
      BY <2>1, <2>3 DEF GridOutcome
    <3>2. areaReply'.status = 200 /\ (areaReply'.partial <=> failed > 0)
      BY <3>1 DEF Answered
    <3>3. QED BY <1>1, <1>2, <1>4, <2>1, <2>3, <3>2
          DEF AnswerCodes, ReplyTells, Awaiting
  <2>4. QED BY <2>2, <2>3
<1>6. CASE ReplySingle
  <2>1. /\ wanted.kind \in Singles /\ wanted.kind \notin Grids /\ areaReply' = SingleOutcome
        /\ wanted.searches = 1
    BY <1>6 DEF ReplySingle, Grids, Singles, AreaInv
  <2>2. came[1] \in Outcomes
    BY AreaFacts, PointsAre
  <2>3. CASE entries[1].error
    <3> DEFINE code == IF got[1] = "error" THEN came[1].code ELSE 0
    <3>1. code \in {0, 404}
      BY <2>2 DEF Outcomes
    <3>2. areaReply' = UpstreamError(code)
      BY <2>1, <2>3 DEF SingleOutcome
    <3> HIDE DEF code
    <3>3. areaReply'.status \in {400, 404, 500}
      BY <1>3, <3>1, <3>2
    <3>4. QED BY <1>1, <1>2, <1>4, <2>1, <2>3, <3>3
          DEF AnswerCodes, ReplyTells, Awaiting
  <2>4. CASE ~entries[1].error
    <3>1. areaReply'.status = 200
      BY <2>1, <2>4 DEF SingleOutcome, Answered
    <3>2. QED BY <1>1, <1>2, <1>4, <2>1, <2>4, <3>1
          DEF AnswerCodes, ReplyTells, Awaiting
  <2>5. QED BY <2>3, <2>4
<1>7. CASE ReplyList \/ ReplyLocation
  <2>1. wanted.kind \notin Singles /\ wanted.kind \notin Grids
    BY <1>7 DEF ReplyList, ReplyLocation, Grids, Singles, Lists
  <2>2. areaReply'.status \in {200, 400, 404, 500}
    BY <1>3, <1>7 DEF ReplyList, ReplyLocation, Answered
  <2>3. QED BY <1>1, <1>2, <1>4, <2>1, <2>2
        DEF AnswerCodes, ReplyTells, Awaiting
<1>8. QED BY <1>5, <1>6, <1>7 DEF AreaReply

LEMMA AreaKeeps == AreaInv /\ [AreaNext]_areaVars => AreaInv'
<1> SUFFICES ASSUME AreaInv, [AreaNext]_areaVars PROVE AreaInv'
  OBVIOUS
<1>1. CASE UNCHANGED areaVars
  <2>1. AreaTypeOK'
    BY <1>1 DEF areaVars, AreaInv, AreaTypeOK
  <2>2. /\ Awaiting' <=> Awaiting
        /\ \A k \in 1 .. Len(entries) : EntryTells(k) => EntryTells(k)'
        /\ ReplyTells => ReplyTells'
    BY <1>1 DEF areaVars, Awaiting, EntryTells, ReplyTells
  <2>3. QED BY <1>1, <2>1, <2>2 DEF areaVars, AreaInv
<1>2. QED
  BY <1>1, AreaAsks, AreaSearches, AreaTold, AreaReplies, AreaJobs DEF AreaNext

LEMMA AreaInvariant == AreaSpec => []AreaInv
BY AreaStarts, AreaKeeps, PTL DEF AreaSpec

\* The request, its jobs and its entries keep their types.
THEOREM AreaTypes == AreaSpec => []AreaTypeOK
<1>1. AreaInv => AreaTypeOK
  BY DEF AreaInv
<1>2. QED BY <1>1, AreaInvariant, PTL

\* A total failure never looks like an area with nothing in it, and a partial
\* one says so, for every grid, list and single search, and however its jobs
\* time out, fail, end late or are lost.
THEOREM FailuresTold == AreaSpec => []FailuresAreTold
<1>1. AreaInv => FailuresAreTold
  <2> SUFFICES ASSUME AreaInv, areaReply # NoReply, wanted.kind # "location"
               PROVE  /\ wanted.kind \in Grids =>
                           /\ areaReply.status = 200 <=> Unanswered # 1 .. wanted.searches
                           /\ areaReply.status = 200 => (areaReply.partial <=> Unanswered # {})
                      /\ wanted.kind \in Singles => (areaReply.status = 200 <=> Unanswered = {})
                      /\ Len(entries) = wanted.searches
                      /\ \A k \in 1 .. wanted.searches :
                           /\ entries[k].index = k
                           /\ k \in Unanswered => entries[k].error
                           /\ k \notin Unanswered /\ ~entries[k].error =>
                                entries[k].count = Cardinality(came[k].places)
    BY DEF FailuresAreTold
  <2> DEFINE n == wanted.searches
  <2>1. /\ ReplyTells /\ Len(entries) = n /\ n \in Nat /\ failed \in Nat
        /\ \A k \in 1 .. n : EntryTells(k)
    BY AreaFacts DEF AreaInv, ReplyTells
  <2>2. Unanswered = {k \in 1 .. n : got[k] # "places"}
    BY DEF Unanswered
  <2>3. \A k \in 1 .. n : /\ entries[k].index = k
                          /\ k \in Unanswered => entries[k].error
                          /\ k \notin Unanswered =>
                               entries[k].count = Cardinality(came[k].places)
                          /\ k \notin Unanswered /\ entries[k].error => wanted.kind = "geocode"
    BY <2>1, <2>2 DEF EntryTells
  <2>4. /\ failed = n <=> \A k \in 1 .. n : entries[k].error
        /\ failed = 0 <=> \A k \in 1 .. n : ~entries[k].error
    BY <2>1 DEF AreaInv
  <2>5. ASSUME wanted.kind \in Grids
        PROVE  /\ areaReply.status = 200 <=> Unanswered # 1 .. n
               /\ areaReply.status = 200 => (areaReply.partial <=> Unanswered # {})
    <3>1. \A k \in 1 .. n : k \in Unanswered <=> entries[k].error
      BY <2>3, <2>5 DEF Grids
    <3>2. failed = n <=> Unanswered = 1 .. n
      BY <2>2, <2>4, <3>1
    <3>3. failed = 0 <=> Unanswered = {}
      BY <2>2, <2>4, <3>1
    <3>4. failed > 0 <=> Unanswered # {}
      BY <2>1, <3>3
    <3>5. QED BY <2>1, <2>5, <3>2, <3>4 DEF ReplyTells
  <2>6. ASSUME wanted.kind \in Singles
        PROVE  areaReply.status = 200 <=> Unanswered = {}
    <3>1. n = 1 /\ 1 .. n = {1}
      BY <2>6 DEF AreaInv
    <3>2. 1 \in Unanswered <=> entries[1].error
      BY <2>3, <2>6, <3>1 DEF Singles
    <3>3. QED BY <2>1, <2>2, <2>6, <3>1, <3>2 DEF ReplyTells
  <2>7. QED BY <2>1, <2>3, <2>5, <2>6
<1>2. QED BY <1>1, AreaInvariant, PTL

(***************************************************************************)
(* The search endpoint and its cache.                                      *)
(***************************************************************************)

Results   == {b[1] : b \in Budgets}
Asks      == [get : BOOLEAN, wait : BOOLEAN, results : Results, timeout : {b[2] : b \in Budgets}]
Advices   == {AffordableResultsWithin(b[2]) : b \in Budgets} \cup {0}
Responses == [status : {0, 200, 400, 404, 500, 503}, found_by : Searchers \cup {Nobody},
              job : Searchers \cup {Nobody}, advice : Advices]

\* Request r was asked, and passed the budget.
Admitted(r) == at[r] # "new" /\ (form[r].wait => Affordable(form[r]))

\* A blocking search that found places for n results.
SearchedFor(r, n) == r \in Searchers /\ at[r] # "new" /\ form[r].wait /\ form[r].results = n

SearchInv ==
  /\ SearchTypeOK
  /\ form \in [Searchers -> Asks \cup {Unasked}] /\ response \in [Searchers -> Responses]
  /\ \A r \in Searchers :
       /\ at[r] # "new" => form[r] \in Asks
       /\ at[r] \in {"lookup", "health", "run", "store"} => Admitted(r)
       /\ at[r] \in {"lookup", "store"} => form[r].wait
       /\ at[r] \in {"lookup", "health", "run", "new"} => response[r].status # 200
       /\ response[r].status = 200 =>
            /\ Admitted(r)
            /\ form[r].wait => SearchedFor(response[r].found_by, form[r].results)
            /\ ~form[r].wait => response[r].job = r
  /\ \A n \in Results : kept[n] # Nobody => SearchedFor(kept[n], n)

LEMMA SearchStarts == SearchInit => SearchInv
<1> SUFFICES ASSUME SearchInit PROVE SearchInv
  OBVIOUS
<1>1. NoResponse \in Responses /\ NoResponse.status = 0
  BY DEF NoResponse, Responses, Advices
<1>2. /\ \A r \in Searchers : at[r] = "new" /\ response[r] = NoResponse
      /\ \A n \in Results : kept[n] = Nobody
  BY DEF SearchInit, Results
<1>3. SearchTypeOK
  BY <1>1, <1>2 DEF SearchInit, SearchTypeOK
<1>4. form \in [Searchers -> Asks \cup {Unasked}] /\ response \in [Searchers -> Responses]
  BY <1>1 DEF SearchInit
<1>5. QED BY <1>1, <1>2, <1>3, <1>4 DEF SearchInv

\* What a step makes of request r, which asks ask.
Moves(r, ask, where, what) ==
  /\ at' = [at EXCEPT ![r] = where]
  /\ form' = [form EXCEPT ![r] = ask]
  /\ response' = [response EXCEPT ![r] = what]

\* A step of one request: what it has to establish of that request.
LEMMA RequestMoves ==
  ASSUME SearchInv, NEW r \in Searchers, NEW where \in {"lookup", "health", "run", "store", "done"},
         NEW ask \in Asks, NEW what \in Responses,
         Moves(r, ask, where, what), at[r] # "new" => form[r] = ask,
         where # "done" => (ask.wait => Affordable(ask)),
         where \in {"lookup", "store"} => ask.wait,
         where \in {"lookup", "health", "run"} => what.status # 200,
         what.status = 200 =>
           /\ ask.wait => Affordable(ask)
           /\ ask.wait => what.found_by = r \/ SearchedFor(what.found_by, ask.results)
           /\ ~ask.wait => what.job = r,
         \/ UNCHANGED kept
         \/ ask.wait /\ at[r] # "new" /\ kept' = [kept EXCEPT ![ask.results] = r]
  PROVE  SearchInv'
<1>1. /\ at \in [Searchers -> {"new", "lookup", "health", "run", "store", "done"}]
      /\ form \in [Searchers -> Asks \cup {Unasked}] /\ response \in [Searchers -> Responses]
      /\ kept \in [Results -> Searchers \cup {Nobody}]
  BY DEF SearchInv, SearchTypeOK, Results
<1>2. /\ at'[r] = where /\ form'[r] = ask /\ response'[r] = what
      /\ \A q \in Searchers : q # r =>
           at'[q] = at[q] /\ form'[q] = form[q] /\ response'[q] = response[q]
  BY <1>1 DEF Moves
<1>3. /\ at' \in [Searchers -> {"new", "lookup", "health", "run", "store", "done"}]
      /\ form' \in [Searchers -> Asks \cup {Unasked}] /\ response' \in [Searchers -> Responses]
  BY <1>1 DEF Moves
<1>4. ask.results \in Results
  BY DEF Asks
<1>5. kept' \in [Results -> Searchers \cup {Nobody}]
  BY <1>1, <1>4
<1>6. \A q \in Searchers : response'[q].status \in {0, 200, 400, 404, 500, 503}
  BY <1>3 DEF Responses
<1>7. SearchTypeOK'
  BY <1>3, <1>5, <1>6 DEF SearchTypeOK, Results
<1>8. \A q \in Searchers : at[q] # "new" => at'[q] # "new" /\ form'[q] = form[q]
  BY <1>2
<1>9. ASSUME NEW q \in Searchers
      PROVE  /\ at'[q] # "new" => form'[q] \in Asks
             /\ at'[q] \in {"lookup", "health", "run", "store"} => Admitted(q)'
             /\ at'[q] \in {"lookup", "store"} => form'[q].wait
             /\ at'[q] \in {"lookup", "health", "run", "new"} => response'[q].status # 200
             /\ response'[q].status = 200 =>
                  /\ Admitted(q)'
                  /\ form'[q].wait => SearchedFor(response[q].found_by, form[q].results)'
                  /\ ~form'[q].wait => response'[q].job = q
  <2>1. CASE q = r
    <3>1. Admitted(r)' <=> (ask.wait => Affordable(ask))
      BY <1>2 DEF Admitted
    <3>2. at'[r] # "new" /\ form'[r] = ask /\ response'[r] = what
      BY <1>2
    <3>3. what.status = 200 /\ ask.wait =>
            SearchedFor(response[r].found_by, form[r].results)'
      BY <1>8, <3>2 DEF SearchedFor
    <3>4. QED BY <1>2, <2>1, <3>1, <3>2, <3>3
  <2>2. CASE q # r
    <3>1. at'[q] = at[q] /\ form'[q] = form[q] /\ response'[q] = response[q]
      BY <1>2, <2>2
    <3>2. Admitted(q)' <=> Admitted(q)
      BY <3>1 DEF Admitted
    <3>3. SearchedFor(response[q].found_by, form[q].results)
            => SearchedFor(response[q].found_by, form[q].results)'
      BY <1>8, <3>1 DEF SearchedFor
    <3>4. QED BY <3>1, <3>2, <3>3 DEF SearchInv
  <2>3. QED BY <2>1, <2>2
<1>10. ASSUME NEW n \in Results, kept'[n] # Nobody PROVE SearchedFor(kept[n], n)'
  <2>1. CASE kept'[n] = kept[n]
    <3>1. SearchedFor(kept[n], n)
      BY <1>10, <2>1 DEF SearchInv
    <3>2. QED BY <1>8, <2>1, <3>1 DEF SearchedFor
  <2>2. CASE kept'[n] # kept[n]
    <3>1. n = ask.results /\ kept'[n] = r /\ ask.wait
      BY <1>1, <1>10, <2>2
    <3>2. QED BY <1>2, <3>1 DEF SearchedFor
  <2>3. QED BY <2>1, <2>2
<1>11. QED BY <1>3, <1>7, <1>9, <1>10 DEF SearchInv

LEMMA NothingYet == NoResponse \in Responses
<1>1. 0 \in Advices
  BY DEF Advices
<1>2. QED BY <1>1 DEF NoResponse, Responses

\* The answers a step makes of the one before.
Refusing(was, advice) == [was EXCEPT !.status = 400, !.advice = advice]
Starting(was, whose)  == [was EXCEPT !.status = 200, !.job = whose]
Finding(was, whose)   == [was EXCEPT !.status = 200, !.found_by = whose, !.job = whose]

LEMMA AnswersMade ==
  ASSUME NEW was \in Responses, NEW whose \in Searchers
  PROVE  /\ \A advice \in Advices : Refusing(was, advice) \in Responses
                                    /\ Refusing(was, advice).status = 400
         /\ Starting(was, whose) \in Responses /\ Starting(was, whose).status = 200
         /\ Starting(was, whose).job = whose
         /\ Finding(was, whose) \in Responses /\ Finding(was, whose).status = 200
         /\ Finding(was, whose).found_by = whose
<1> DEFINE Statuses == {0, 200, 400, 404, 500, 503}
           Some == Searchers \cup {Nobody}
<1>1. 200 \in Statuses /\ 400 \in Statuses /\ whose \in Some
  OBVIOUS
<1>2. Responses = [status : Statuses, found_by : Some, job : Some, advice : Advices]
  BY DEF Responses
<1> HIDE DEF Statuses, Some
<1>3. ASSUME NEW advice \in Advices
      PROVE  Refusing(was, advice) \in Responses /\ Refusing(was, advice).status = 400
  <2> DEFINE refused == 400
  <2>1. /\ refused \in Statuses
        /\ Refusing(was, advice) = [was EXCEPT !.status = refused, !.advice = advice]
    BY <1>1 DEF Refusing
  <2> HIDE DEF refused
  <2>2. Refusing(was, advice) \in Responses
    BY <1>2, <2>1
  <2>3. Refusing(was, advice).status = 400
    BY <1>1, <1>2 DEF Refusing
  <2>4. QED BY <2>2, <2>3
<1>4. /\ Starting(was, whose) \in Responses /\ Starting(was, whose).status = 200
      /\ Starting(was, whose).job = whose
  BY <1>1, <1>2 DEF Starting
<1>5. /\ Finding(was, whose) \in Responses /\ Finding(was, whose).status = 200
      /\ Finding(was, whose).found_by = whose
  BY <1>1, <1>2 DEF Finding
<1>6. QED BY <1>3, <1>4, <1>5

LEMMA SearchAsks ==
  ASSUME SearchInv, NEW r \in Searchers, NEW ask \in Asks, AskSearch(r, ask)
  PROVE  SearchInv'
<1> DEFINE where == IF ask.get /\ ask.wait THEN "lookup" ELSE "health"
<1>1. at[r] = "new" /\ form' = [form EXCEPT ![r] = ask] /\ UNCHANGED kept
  BY DEF AskSearch
<1>2. CASE ask.wait /\ ~Affordable(ask)
  <2>1. PICK b \in Budgets : ask.timeout = b[2]
    BY DEF Asks
  <2> DEFINE what == Refusing(NoResponse, AffordableResultsWithin(b[2]))
  <2>2. Respond(r, what)
    BY <1>2, <2>1 DEF AskSearch, Refusing
  <2>3. what \in Responses /\ what.status = 400
    <3> DEFINE advice == AffordableResultsWithin(b[2])
    <3>1. advice \in Advices
      BY DEF Advices
    <3> HIDE DEF advice
    <3>2. QED BY <3>1, NothingYet, AnswersMade DEF advice
  <2> HIDE DEF what
  <2>4. Moves(r, ask, "done", what)
    BY <1>1, <2>2 DEF Respond, Moves
  <2>5. QED BY <1>1, <2>3, <2>4, RequestMoves
<1>3. CASE ~(ask.wait /\ ~Affordable(ask))
  <2>1. at' = [at EXCEPT ![r] = where] /\ UNCHANGED response
    BY <1>3 DEF AskSearch
  <2>2. response \in [Searchers -> Responses] /\ response[r].status # 200
    BY <1>1 DEF SearchInv
  <2>3. Moves(r, ask, where, response[r]) /\ response[r] \in Responses
    BY <1>1, <2>1, <2>2 DEF Moves
  <2>4. where \in {"lookup", "health"} /\ (where = "lookup" => ask.wait)
    OBVIOUS
  <2> HIDE DEF where
  <2>5. QED BY <1>1, <1>3, <2>1, <2>2, <2>3, <2>4, RequestMoves
<1>4. QED BY <1>2, <1>3

LEMMA SearchHandles ==
  ASSUME SearchInv, NEW r \in Searchers,
         \/ LookUp(r) \/ CheckHealth(r) \/ SearchFinds(r) \/ StartJob(r)
         \/ SearchFails(r) \/ StoreAnswer(r)
  PROVE  SearchInv'
<1>1. at[r] \in {"lookup", "health", "run", "store"} /\ UNCHANGED form
  BY DEF LookUp, CheckHealth, SearchFinds, StartJob, SearchFails, StoreAnswer
<1>2. /\ form[r] \in Asks /\ response[r] \in Responses
      /\ form \in [Searchers -> Asks \cup {Unasked}] /\ response \in [Searchers -> Responses]
      /\ form[r].wait => Affordable(form[r])
      /\ at[r] \in {"lookup", "store"} => form[r].wait
      /\ at[r] \in {"lookup", "health", "run"} => response[r].status # 200
      /\ kept \in [Results -> Searchers \cup {Nobody}]
  BY <1>1 DEF SearchInv, Admitted, SearchTypeOK, Results
<1> DEFINE ask == form[r]
<1>3. form' = [form EXCEPT ![r] = ask] /\ at[r] # "new"
  BY <1>1, <1>2
<1>4. ASSUME NEW where \in {"health", "run", "done"}, at' = [at EXCEPT ![r] = where],
             UNCHANGED response
      PROVE  Moves(r, ask, where, response[r])
  BY <1>2, <1>3, <1>4 DEF Moves
<1> HIDE DEF ask
<1>5. /\ ask \in Asks /\ form[r] = ask /\ (ask.wait => Affordable(ask))
      /\ at[r] \in {"lookup", "store"} => ask.wait
      /\ ask.results \in Results
  BY <1>2 DEF ask, Asks
<1>6. CASE LookUp(r)
  <2> DEFINE whose == kept[ask.results]
  <2>1. CASE whose # Nobody
    <3>1. whose \in Searchers /\ SearchedFor(whose, ask.results)
      BY <1>2, <1>5, <2>1 DEF SearchInv
    <3> DEFINE what == Finding(NoResponse, whose)
    <3>2. Respond(r, what) /\ UNCHANGED kept /\ ask.wait
      BY <1>5, <1>6, <2>1 DEF LookUp, Finding, ask
    <3> HIDE DEF whose
    <3>3. what \in Responses /\ what.status = 200 /\ what.found_by = whose
      BY <3>1, NothingYet, AnswersMade
    <3> HIDE DEF what
    <3>4. Moves(r, ask, "done", what)
      BY <1>3, <3>2 DEF Respond, Moves
    <3>5. QED BY <1>3, <1>5, <3>1, <3>2, <3>3, <3>4, RequestMoves
  <2>2. CASE whose = Nobody
    <3>1. at' = [at EXCEPT ![r] = "health"] /\ UNCHANGED <<response, kept>> /\ at[r] = "lookup"
      BY <1>6, <2>2 DEF LookUp, ask
    <3>2. QED BY <1>2, <1>3, <1>4, <1>5, <3>1, RequestMoves
  <2>3. QED BY <2>1, <2>2
<1>7. CASE CheckHealth(r)
  <2>1. UNCHANGED kept /\ at[r] = "health"
    BY <1>7 DEF CheckHealth
  <2>2. CASE at' = [at EXCEPT ![r] = "run"] /\ UNCHANGED response
    BY <1>2, <1>3, <1>4, <1>5, <2>1, <2>2, RequestMoves
  <2>3. CASE Respond(r, [NoResponse EXCEPT !.status = 503])
    <3> DEFINE what == [NoResponse EXCEPT !.status = 503]
    <3>1. what \in Responses /\ what.status = 503
      BY NothingYet DEF Responses
    <3> HIDE DEF what
    <3>2. Moves(r, ask, "done", what)
      BY <1>3, <2>3 DEF Respond, Moves, what
    <3>3. QED BY <1>3, <1>5, <2>1, <3>1, <3>2, RequestMoves
  <2>4. QED BY <1>7, <2>2, <2>3 DEF CheckHealth
<1>8. CASE SearchFinds(r)
  <2> DEFINE old == response[r]
             what == Finding(old, r)
             where == IF ask.get THEN "store" ELSE "done"
  <2>1. Moves(r, ask, where, what) /\ UNCHANGED kept /\ ask.wait
    BY <1>3, <1>8 DEF SearchFinds, Finding, Moves, ask
  <2>2. old \in Responses /\ where \in {"store", "done"}
    BY <1>2
  <2> HIDE DEF old, where
  <2>3. what \in Responses /\ what.status = 200 /\ what.found_by = r
    BY <2>2, AnswersMade
  <2> HIDE DEF what
  <2>4. QED BY <1>3, <1>5, <2>1, <2>2, <2>3, RequestMoves
<1>9. CASE StartJob(r)
  <2> DEFINE what == Starting(NoResponse, r)
  <2>1. Respond(r, what) /\ UNCHANGED kept /\ ~ask.wait
    BY <1>9 DEF StartJob, Starting, ask
  <2>2. what \in Responses /\ what.status = 200 /\ what.job = r
    BY NothingYet, AnswersMade
  <2> HIDE DEF what
  <2>3. Moves(r, ask, "done", what)
    BY <1>3, <2>1 DEF Respond, Moves
  <2>4. QED BY <1>3, <1>5, <2>1, <2>2, <2>3, RequestMoves
<1>10. CASE SearchFails(r)
  <2>1. PICK status \in {404, 500} : Respond(r, [NoResponse EXCEPT !.status = status])
    BY <1>10 DEF SearchFails
  <2> DEFINE what == [NoResponse EXCEPT !.status = status]
  <2>2. what \in Responses /\ what.status = status
    BY NothingYet DEF Responses
  <2>3. Moves(r, ask, "done", what)
    BY <1>3, <2>1 DEF Respond, Moves
  <2> HIDE DEF what
  <2>4. UNCHANGED kept
    BY <1>10 DEF SearchFails
  <2>5. QED BY <1>3, <1>5, <2>2, <2>3, <2>4, RequestMoves
<1>11. CASE StoreAnswer(r)
  <2>1. /\ kept' = [kept EXCEPT ![ask.results] = r] /\ at' = [at EXCEPT ![r] = "done"]
        /\ UNCHANGED response /\ at[r] = "store"
    BY <1>11 DEF StoreAnswer, ask
  <2>2. response[r].status = 200 /\ ask.wait => SearchedFor(response[r].found_by, ask.results)
    BY <1>5 DEF SearchInv
  <2>3. QED BY <1>2, <1>3, <1>4, <1>5, <2>1, <2>2, RequestMoves
<1>12. QED BY <1>6, <1>7, <1>8, <1>9, <1>10, <1>11

LEMMA SearchKeeps == SearchInv /\ [SearchNext]_searchVars => SearchInv'
<1> SUFFICES ASSUME SearchInv, [SearchNext]_searchVars PROVE SearchInv'
  OBVIOUS
<1>1. CASE UNCHANGED searchVars
  BY <1>1 DEF searchVars, SearchInv, SearchTypeOK, Admitted, SearchedFor
<1>2. ASSUME NEW r \in Searchers, NEW get \in BOOLEAN, NEW wait \in BOOLEAN, NEW b \in Budgets,
             AskSearch(r, [get |-> get, wait |-> wait, results |-> b[1], timeout |-> b[2]])
      PROVE  SearchInv'
  <2> DEFINE ask == [get |-> get, wait |-> wait, results |-> b[1], timeout |-> b[2]]
  <2>1. b[1] \in Results /\ b[2] \in {c[2] : c \in Budgets}
    BY DEF Results
  <2>2. ask \in Asks
    BY <2>1, Zenon DEF Asks
  <2> HIDE DEF ask
  <2>3. AskSearch(r, ask)
    BY <1>2 DEF ask
  <2>4. QED BY <2>2, <2>3, SearchAsks
<1>3. ASSUME NEW n \in DOMAIN kept, ExpireAnswer(n) PROVE SearchInv'
  <2>1. kept \in [Results -> Searchers \cup {Nobody}]
    BY DEF SearchInv, SearchTypeOK, Results
  <2>2. /\ UNCHANGED <<form, at, response>>
        /\ \A m \in Results : kept'[m] = kept[m] \/ kept'[m] = Nobody
        /\ kept' \in [Results -> Searchers \cup {Nobody}]
    BY <1>3, <2>1 DEF ExpireAnswer
  <2>3. SearchTypeOK'
    BY <2>2 DEF SearchInv, SearchTypeOK, Results
  <2>4. ASSUME NEW m \in Results, kept'[m] # Nobody PROVE SearchedFor(kept[m], m)'
    <3>1. kept'[m] = kept[m] /\ SearchedFor(kept[m], m)
      BY <2>2, <2>4 DEF SearchInv
    <3>2. QED BY <2>2, <3>1 DEF SearchedFor
  <2>5. QED BY <2>2, <2>3, <2>4 DEF SearchInv, Admitted, SearchedFor
<1>4. QED
  BY <1>1, <1>2, <1>3, SearchHandles DEF SearchNext

LEMMA SearchInvariant == SearchSpec => []SearchInv
BY SearchStarts, SearchKeeps, PTL DEF SearchSpec

\* Requests, answers and the cache keep their types.
THEOREM SearchTypes == SearchSpec => []SearchTypeOK
<1>1. SearchInv => SearchTypeOK
  BY DEF SearchInv
<1>2. QED BY <1>1, SearchInvariant, PTL

\* From the cache or not, whatever else asks, finds, stores and expires in
\* between: a blocking search is answered 200 only within its budget and with
\* places found for as many results, and the job form names its own job.
THEOREM HitsAndMisses == SearchSpec => []HitsAnswerLikeMisses
<1>1. SearchInv => HitsAnswerLikeMisses
  BY DEF SearchInv, Admitted, SearchedFor, HitsAnswerLikeMisses
<1>2. QED BY <1>1, SearchInvariant, PTL

(***************************************************************************)
(* The endpoints about one place.                                          *)
(***************************************************************************)

OpenStages == {"reading", "closing", "rereading", "reclosing"}
Codes      == {0, 200, 400, 404, 500}

\* An answer that claims no more than the pages showed.
Explains(a, what) ==
  /\ question[a].kind \in OnePage \cup TwoPages => place[a] # NoPlace
  /\ question[a].kind \in TwoPages \cup {"directions"} => page[a].read
  /\ what.says \in {"no", "unknown"} => Missing(page[a]) /\ what.items = 0
  /\ what.says = "no" => ~Link(a)
  /\ what.says = "yes" /\ what.items = 0 =>
       ~Missing(page[a]) \/ (question[a].kind # "qa" /\ Link(a))
  /\ question[a].kind \in TwoPages =>
       (what.link <=> question[a].kind = "availability" /\ Link(a))
  /\ question[a].kind = "directions" =>
       what.items \in 1 .. question[a].first /\ what.steps \subseteq {1}

\* A request reaches a stage only with what the stage before it read, holds a
\* browser exactly while a page of its is open, and is answered once.
Reached(a) ==
  /\ browsers[a] = IF stage[a] \in OpenStages THEN 1 ELSE 0
  /\ stage[a] \in {"first", "reading", "closing"} => question[a].kind \in OnePage \cup TwoPages
  /\ stage[a] \in {"second", "rereading", "reclosing"} =>
       \/ question[a].kind \in TwoPages /\ place[a] # NoPlace
       \/ question[a].kind = "directions"
  /\ stage[a] = "history" => question[a].kind = "history"
  /\ given[a].status \in Codes
  /\ given[a].status = 200 => stage[a] = "done" /\ Explains(a, given[a])

ContentKinds ==
  /\ question \in [Askers -> [kind : Questions \cup {"none"}, first : 0 .. MaxNodes]]
  /\ stage \in [Askers -> {"new", "first", "reading", "closing", "second", "rereading",
                           "reclosing", "history", "done"}]
  /\ place \in [Askers -> (SUBSET (Facts \ {"partial"})) \cup {NoPlace}]
  /\ browsers \in [Askers -> 0 .. 1]
  /\ page \in [Askers -> Pages \cup {NoPage}]
  /\ given = [a \in Askers |-> given[a]]

ContentInv == ContentKinds /\ \A a \in Askers : Reached(a)

\* A step of another request.
Untouched(b) ==
  /\ question'[b] = question[b] /\ stage'[b] = stage[b] /\ browsers'[b] = browsers[b]
  /\ place'[b] = place[b] /\ page'[b] = page[b] /\ given'[b] = given[b]

LEMMA OthersStay ==
  ASSUME ContentInv, NEW a \in Askers, ContentKinds', Reached(a)',
         \A b \in Askers \ {a} : Untouched(b)
  PROVE  ContentInv'
<1>1. ASSUME NEW b \in Askers \ {a} PROVE Reached(b)'
  <2>1. Reached(b) /\ Untouched(b)
    BY DEF ContentInv
  <2>2. Explains(b, given[b]) => Explains(b, given[b])'
    BY <2>1 DEF Explains, Untouched, Link
  <2>3. QED BY <2>1, <2>2 DEF Reached, Untouched
<1>2. QED BY <1>1 DEF ContentInv

\* Of the first n entries at most n parse.
LEMMA FirstFew ==
  ASSUME NEW k \in Nat, NEW nodes \in [1 .. k -> BOOLEAN], NEW n \in Nat
  PROVE  Cardinality(FirstOf(nodes, n)) \in 0 .. n
<1>1. FirstOf(nodes, n) \in SUBSET (1 .. n)
  BY DEF FirstOf, Parsed
<1>2. IsFiniteSet(1 .. n) /\ Cardinality(1 .. n) = n
  BY FS_Interval
<1>3. IsFiniteSet(FirstOf(nodes, n)) /\ Cardinality(FirstOf(nodes, n)) <= n
  BY <1>1, <1>2, FS_Subset
<1>4. Cardinality(FirstOf(nodes, n)) \in Nat
  BY <1>3, FS_CardinalityType
<1>5. QED BY <1>3, <1>4

\* How many entries of a page parse, of all or of the first n.
LEMMA EntriesParsed ==
  ASSUME NEW p \in Pages \cup {NoPage}, NEW n \in Nat
  PROVE  /\ Cardinality(Parsed(p.nodes)) \in Nat /\ Cardinality(FirstOf(p.nodes, n)) \in 0 .. n
         /\ Cardinality(Parsed(p.nodes)) = 0 <=> Parsed(p.nodes) = {}
         /\ Missing(p) => Parsed(p.nodes) = {} /\ Cardinality(FirstOf(p.nodes, n)) = 0
<1>1. PICK k \in Nat : p.nodes \in [1 .. k -> BOOLEAN]
  <2>1. CASE p \in Pages
    <3>1. PICK k \in 0 .. MaxNodes : p.nodes \in [1 .. k -> BOOLEAN]
      BY <2>1 DEF Pages
    <3>2. k \in Nat
      BY ContentAssumption
    <3>3. QED BY <3>1, <3>2
  <2>2. CASE p = NoPage
    <3>1. <<>> \in [1 .. 0 -> BOOLEAN]
      OBVIOUS
    <3>2. QED BY <2>2, <3>1 DEF NoPage
  <2>3. QED BY <2>1, <2>2
<1>2. Parsed(p.nodes) \in SUBSET (1 .. k) /\ IsFiniteSet(1 .. k)
  BY <1>1, FS_Interval DEF Parsed
<1>3. IsFiniteSet(Parsed(p.nodes))
  BY <1>2, FS_Subset
<1>4. /\ Cardinality(Parsed(p.nodes)) \in Nat
      /\ Cardinality(Parsed(p.nodes)) = 0 <=> Parsed(p.nodes) = {}
  BY <1>3, FS_CardinalityType, FS_EmptySet
<1>5. Cardinality(FirstOf(p.nodes, n)) \in 0 .. n
  BY <1>1, FirstFew
<1>6. ASSUME Missing(p) PROVE Parsed(p.nodes) = {} /\ Cardinality(FirstOf(p.nodes, n)) = 0
  <2>1. p.nodes = <<>>
    BY <1>6 DEF Missing
  <2>2. Parsed(p.nodes) = {} /\ FirstOf(p.nodes, n) = {}
    BY <2>1 DEF Parsed, FirstOf
  <2>3. QED BY <2>2, FS_EmptySet
<1>7. QED BY <1>4, <1>5, <1>6

\* What is answered from the pages is explained by them.
LEMMA PagesExplain ==
  ASSUME ContentKinds, NEW a \in Askers,
         question[a].kind \in OnePage \cup TwoPages \cup {"directions"},
         question[a].kind \in OnePage \cup TwoPages => place[a] # NoPlace,
         question[a].kind \in TwoPages \cup {"directions"} => page[a].read
  PROVE  /\ AnswerFromPages(a).status \in Codes
         /\ AnswerFromPages(a).status = 200 => Explains(a, AnswerFromPages(a))
<1> DEFINE q == question[a]
           p == page[a]
           what == AnswerFromPages(a)
           all == Cardinality(Parsed(p.nodes))
           few == Cardinality(FirstOf(p.nodes, q.first))
<1>1. q.first \in Nat /\ p \in Pages \cup {NoPage}
  BY DEF ContentKinds
<1>2. \A says, items :
        /\ Served(says, items).status = 200 /\ Served(says, items).says = says
        /\ Served(says, items).items = items /\ Served(says, items).steps = {}
        /\ Served(says, items).link = FALSE
  BY DEF Served, NoAnswer
<1>3. \A code : Refused(code).status \in {400, 404, 500}
  BY DEF Refused, NoAnswer, PassedOn
<1>4. /\ all \in Nat /\ few \in 0 .. q.first /\ (all = 0 <=> Parsed(p.nodes) = {})
      /\ Missing(p) => Parsed(p.nodes) = {} /\ few = 0
  BY <1>1, EntriesParsed
<1>5. CASE q.kind \in OnePage
  <2>1. what = OnePageAnswer(q, place[a])
    BY <1>5 DEF AnswerFromPages, HandlerAnswer, OnePage
  <2>2. \/ what.status \in {400, 404, 500}
        \/ what.status = 200 /\ what.says = "nothing"
    BY <1>2, <1>3, <2>1 DEF OnePageAnswer, ReviewsAnswer
  <2> HIDE DEF what
  <2>3. QED BY <1>5, <2>2 DEF Codes, Explains, OnePage, TwoPages, what
<1>6. CASE q.kind = "qa"
  <2> DEFINE says == IF Missing(p) THEN "unknown" ELSE "yes"
  <2>1. QaStatus(q, p) = "not_rendered" <=> Missing(p)
    BY DEF QaStatus
  <2>2. what = Served(says, few)
    BY <1>6, <2>1 DEF AnswerFromPages, HandlerAnswer, QaAnswer, OnePage
  <2>3. what.status = 200 /\ what.says = says /\ what.items = few /\ what.link = FALSE
    BY <1>2, <2>2
  <2> HIDE DEF what, few
  <2>4. QED BY <1>4, <1>6, <2>3 DEF Codes, Explains, OnePage, TwoPages, what
<1>7. CASE q.kind = "menu"
  <2> DEFINE none == Missing(p) /\ ~Link(a)
             says == IF none THEN "no" ELSE "yes"
  <2>1. MenuStatus(p, place[a]) = "no_menu" <=> none
    BY <1>4 DEF MenuStatus, Link
  <2>2. what = Served(says, all)
    BY <1>7, <2>1 DEF AnswerFromPages, HandlerAnswer, MenuAnswer, OnePage
  <2>3. what.status = 200 /\ what.says = says /\ what.items = all /\ what.link = FALSE
    BY <1>2, <2>2
  <2> HIDE DEF what, all
  <2>4. QED BY <1>4, <1>7, <2>3 DEF Codes, Explains, OnePage, TwoPages, what
<1>8. CASE q.kind = "availability"
  <2> DEFINE none == Missing(p) /\ ~Link(a)
             says == IF none THEN "no" ELSE "yes"
  <2>1. AvailabilityStatus(p, place[a]) = "no_reservation_integration" <=> none
    BY <1>4 DEF AvailabilityStatus, Link
  <2>2. what = [Served(says, all) EXCEPT !.link = Link(a)]
    BY <1>8, <2>1 DEF AnswerFromPages, HandlerAnswer, AvailabilityAnswer, OnePage, Link
  <2>3. what.status = 200 /\ what.says = says /\ what.items = all /\ what.link = Link(a)
    BY <2>2 DEF Served, NoAnswer
  <2> HIDE DEF what, all
  <2>4. QED BY <1>4, <1>8, <2>3 DEF Codes, Explains, OnePage, TwoPages, what
<1>9. CASE q.kind = "directions"
  <2> DEFINE steps == IF p.block THEN {1} ELSE {}
  <2>1. what = IF few = 0 THEN Refused(502)
               ELSE [Served("nothing", few) EXCEPT !.steps = steps]
    BY <1>9 DEF AnswerFromPages, HandlerAnswer, DirectionsAnswer, OnePage
  <2>2. CASE few = 0
    BY <1>3, <2>1, <2>2 DEF Codes
  <2>3. CASE few # 0
    <3>1. /\ what.status = 200 /\ what.says = "nothing"
          /\ what.items = few /\ what.steps = steps
      BY <2>1, <2>3 DEF Served, NoAnswer
    <3>2. steps \subseteq {1} /\ few \in 1 .. q.first
      BY <1>1, <1>4, <2>3
    <3> HIDE DEF what, few, steps
    <3>3. QED BY <1>9, <3>1, <3>2 DEF Codes, Explains, OnePage, TwoPages, what
  <2>4. QED BY <2>2, <2>3
<1>10. QED BY <1>5, <1>6, <1>7, <1>8, <1>9 DEF TwoPages

LEMMA ContentStarts == ContentInit => ContentInv
<1> SUFFICES ASSUME ContentInit PROVE ContentInv
  OBVIOUS
<1>1. /\ question = [a \in Askers |-> NoQuestion] /\ stage = [a \in Askers |-> "new"]
      /\ browsers = [a \in Askers |-> 0] /\ place = [a \in Askers |-> NoPlace]
      /\ page = [a \in Askers |-> NoPage] /\ given = [a \in Askers |-> NoAnswer]
  BY DEF ContentInit
<1>2. NoQuestion \in [kind : Questions \cup {"none"}, first : 0 .. MaxNodes]
  BY ContentAssumption DEF NoQuestion
<1>3. ContentKinds
  BY <1>1, <1>2 DEF ContentKinds
<1>4. NoAnswer.status = 0
  BY DEF NoAnswer
<1>5. QED BY <1>1, <1>3, <1>4 DEF ContentInv, Reached, OpenStages, Codes

LEMMA RefusedTells == \A code : Refused(code).status \in {400, 404, 500}
BY DEF Refused, NoAnswer, PassedOn

LEMMA ContentAsks ==
  ASSUME ContentInv, NEW a \in Askers, AskContent(a)
  PROVE  ContentInv'
<1>1. PICK kind \in Questions, first \in 1 .. MaxNodes, refused \in BOOLEAN :
        /\ refused => kind \in {"details", "directions", "history"}
        /\ question' = [question EXCEPT ![a] = [kind |-> kind, first |-> first]]
        /\ given' = IF refused THEN [given EXCEPT ![a] = Refused(400)] ELSE given
        /\ stage' = [stage EXCEPT ![a] = IF refused THEN "done"
                                         ELSE CASE kind = "directions" -> "second"
                                                [] kind = "history"    -> "history"
                                                [] OTHER               -> "first"]
  BY DEF AskContent, Goto
<1> DEFINE where == IF refused THEN "done"
                    ELSE CASE kind = "directions" -> "second"
                           [] kind = "history"    -> "history"
                           [] OTHER               -> "first"
<1>2. stage[a] = "new" /\ UNCHANGED <<browsers, place, page>>
  BY DEF AskContent
<1>3. \/ where = "done" /\ refused
      \/ where = "second" /\ kind = "directions" /\ ~refused
      \/ where = "history" /\ kind = "history" /\ ~refused
      \/ where = "first" /\ kind \in OnePage \cup TwoPages /\ ~refused
  BY DEF Questions
<1>4. stage' = [stage EXCEPT ![a] = where]
  BY <1>1
<1> HIDE DEF where
<1>5. first \in 0 .. MaxNodes
  BY ContentAssumption
<1>6. ContentKinds'
  BY <1>1, <1>2, <1>3, <1>4, <1>5 DEF ContentInv, ContentKinds
<1>7. \A b \in Askers \ {a} : Untouched(b)
  BY <1>1, <1>2, <1>4 DEF ContentInv, ContentKinds, Untouched
<1>8. /\ question'[a].kind = kind /\ stage'[a] = where /\ browsers'[a] = 0
      /\ given'[a].status \in Codes \ {200}
  <2>1. browsers[a] = 0 /\ given[a].status \in Codes \ {200}
    BY <1>2 DEF ContentInv, Reached, OpenStages
  <2>2. question'[a].kind = kind /\ stage'[a] = where
    BY <1>1, <1>4 DEF ContentInv, ContentKinds
  <2>3. given'[a] = Refused(400) \/ given'[a] = given[a]
    BY <1>1 DEF ContentInv, ContentKinds
  <2>4. QED BY <1>2, <2>1, <2>2, <2>3, RefusedTells DEF Codes
<1>9. Reached(a)'
  BY <1>3, <1>8 DEF Reached, OpenStages
<1>10. QED BY <1>6, <1>7, <1>9, OthersStay

\* A step that leaves the answer alone.
LEMMA ContentReads ==
  ASSUME ContentInv, NEW a \in Askers, OpenBrowser(a) \/ ReadPlace(a) \/ ReadPage(a)
  PROVE  ContentInv'
<1>1. CASE OpenBrowser(a)
  <2>1. /\ stage[a] \in {"first", "second"} /\ UNCHANGED <<question, place, page, given>>
        /\ browsers' = [browsers EXCEPT ![a] = browsers[a] + 1]
        /\ stage' = [stage EXCEPT ![a] = IF stage[a] = "first" THEN "reading" ELSE "rereading"]
    BY <1>1 DEF OpenBrowser, Goto
  <2>2. browsers[a] = 0
    BY <2>1 DEF ContentInv, Reached, OpenStages
  <2>3. ContentKinds'
    BY <2>1, <2>2 DEF ContentInv, ContentKinds
  <2>4. \A b \in Askers \ {a} : Untouched(b)
    BY <2>1 DEF ContentInv, ContentKinds, Untouched
  <2>5. Reached(a)'
    BY <2>1, <2>2 DEF ContentInv, ContentKinds, Reached, OpenStages
  <2>6. QED BY <2>3, <2>4, <2>5, OthersStay
<1>2. CASE ReadPlace(a)
  <2>1. /\ stage[a] = "reading" /\ UNCHANGED <<question, browsers, page, given>>
        /\ stage' = [stage EXCEPT ![a] = "closing"]
        /\ \/ \E raw \in SUBSET Facts : place' = [place EXCEPT ![a] = ProcessedPlace(raw)]
           \/ UNCHANGED place
    BY <1>2 DEF ReadPlace, Goto
  <2>2. \A raw \in SUBSET Facts : ProcessedPlace(raw) \in SUBSET (Facts \ {"partial"})
    BY DEF ProcessedPlace
  <2>3. ContentKinds'
    BY <2>1, <2>2 DEF ContentInv, ContentKinds
  <2>4. \A b \in Askers \ {a} : Untouched(b)
    BY <2>1 DEF ContentInv, ContentKinds, Untouched
  <2>5. Reached(a)'
    BY <2>1 DEF ContentInv, ContentKinds, Reached, OpenStages
  <2>6. QED BY <2>3, <2>4, <2>5, OthersStay
<1>3. CASE ReadPage(a)
  <2>1. /\ stage[a] = "rereading" /\ UNCHANGED <<question, browsers, place, given>>
        /\ stage' = [stage EXCEPT ![a] = "reclosing"]
        /\ (\E p \in Pages : page' = [page EXCEPT ![a] = p]) \/ UNCHANGED page
    BY <1>3 DEF ReadPage, Goto
  <2>2. ContentKinds'
    BY <2>1 DEF ContentInv, ContentKinds
  <2>3. \A b \in Askers \ {a} : Untouched(b)
    BY <2>1 DEF ContentInv, ContentKinds, Untouched
  <2>4. Reached(a)'
    BY <2>1 DEF ContentInv, ContentKinds, Reached, OpenStages
  <2>5. QED BY <2>2, <2>3, <2>4, OthersStay
<1>4. QED BY <1>1, <1>2, <1>3

\* A step that answers: the answer tells no more than the pages it leaves alone.
LEMMA ContentAnswers ==
  ASSUME ContentInv, NEW a \in Askers, NEW what, stage[a] # "done",
         UNCHANGED <<question, place, page>>,
         browsers' = [browsers EXCEPT ![a] = 0], stage' = [stage EXCEPT ![a] = "done"],
         given' = [given EXCEPT ![a] = what],
         what.status \in Codes, what.status = 200 => Explains(a, what)
  PROVE  ContentInv'
<1>1. ContentKinds'
  <2>1. given = [b \in Askers |-> given[b]]
    BY DEF ContentInv, ContentKinds
  <2>2. given' = [b \in Askers |-> given'[b]]
    BY <2>1
  <2>3. /\ stage' \in [Askers -> {"new", "first", "reading", "closing", "second", "rereading",
                                  "reclosing", "history", "done"}]
        /\ browsers' \in [Askers -> 0 .. 1]
    BY DEF ContentInv, ContentKinds
  <2>4. QED BY <2>2, <2>3 DEF ContentInv, ContentKinds
<1>2. \A b \in Askers \ {a} : Untouched(b)
  BY DEF ContentInv, ContentKinds, Untouched
<1>3. /\ stage'[a] = "done" /\ browsers'[a] = 0 /\ given'[a] = what
  BY DEF ContentInv, ContentKinds
<1>4. what.status = 200 => Explains(a, given[a])'
  BY <1>3 DEF Explains, Link
<1>5. Reached(a)'
  BY <1>3, <1>4 DEF Reached, OpenStages
<1>6. QED BY <1>1, <1>2, <1>5, OthersStay

LEMMA ContentCloses ==
  ASSUME ContentInv, NEW a \in Askers, CloseFirst(a) \/ CloseSecond(a) \/ ReadHistory(a)
  PROVE  ContentInv'
<1>1. \A code : Refused(code).status \in Codes \ {200}
  BY RefusedTells DEF Codes
<1>2. CASE CloseFirst(a)
  <2>1. /\ stage[a] = "closing" /\ UNCHANGED <<question, place, page>>
        /\ browsers' = [browsers EXCEPT ![a] = browsers[a] - 1]
    BY <1>2 DEF CloseFirst
  <2>2. browsers[a] = 1 /\ browsers[a] - 1 = 0 /\ question[a].kind \in OnePage \cup TwoPages
    BY <2>1 DEF ContentInv, Reached, OpenStages
  <2>3. CASE place[a] # NoPlace /\ question[a].kind \in TwoPages
    <3>1. stage' = [stage EXCEPT ![a] = "second"] /\ UNCHANGED given
      BY <1>2, <2>3 DEF CloseFirst, Goto
    <3>2. ContentKinds'
      BY <2>1, <2>2, <3>1 DEF ContentInv, ContentKinds
    <3>3. \A b \in Askers \ {a} : Untouched(b)
      BY <2>1, <3>1 DEF ContentInv, ContentKinds, Untouched
    <3>4. Reached(a)'
      BY <2>1, <2>2, <2>3, <3>1 DEF ContentInv, ContentKinds, Reached, OpenStages
    <3>5. QED BY <3>2, <3>3, <3>4, OthersStay
  <2>4. CASE ~(place[a] # NoPlace /\ question[a].kind \in TwoPages)
    <3> DEFINE what == IF place[a] = NoPlace THEN Refused(0) ELSE AnswerFromPages(a)
    <3>1. stage' = [stage EXCEPT ![a] = "done"] /\ given' = [given EXCEPT ![a] = what]
      BY <1>2, <2>4 DEF CloseFirst, Goto
    <3>2. what.status \in Codes /\ (what.status = 200 => Explains(a, what))
      <4>1. CASE place[a] = NoPlace
        BY <1>1, <4>1
      <4>2. CASE place[a] # NoPlace
        <5>1. question[a].kind \notin TwoPages \cup {"directions"}
          BY <2>2, <2>4, <4>2 DEF OnePage, TwoPages
        <5>2. QED BY <2>2, <4>2, <5>1, PagesExplain DEF ContentInv
      <4>3. QED BY <4>1, <4>2
    <3> HIDE DEF what
    <3>3. QED BY <2>1, <2>2, <3>1, <3>2, ContentAnswers
  <2>5. QED BY <2>3, <2>4
<1>3. CASE CloseSecond(a)
  <2> DEFINE what == IF page[a].read THEN AnswerFromPages(a) ELSE Refused(502)
  <2>1. /\ stage[a] = "reclosing" /\ UNCHANGED <<question, place, page>>
        /\ browsers' = [browsers EXCEPT ![a] = browsers[a] - 1]
        /\ stage' = [stage EXCEPT ![a] = "done"] /\ given' = [given EXCEPT ![a] = what]
    BY <1>3 DEF CloseSecond, Goto
  <2>2. /\ browsers[a] = 1 /\ browsers[a] - 1 = 0
        /\ \/ question[a].kind \in TwoPages /\ place[a] # NoPlace
           \/ question[a].kind = "directions"
    BY <2>1 DEF ContentInv, Reached, OpenStages
  <2>3. what.status \in Codes /\ (what.status = 200 => Explains(a, what))
    <3>1. CASE page[a].read
      <4>1. question[a].kind = "directions" => question[a].kind \notin OnePage \cup TwoPages
        BY DEF OnePage, TwoPages
      <4>2. QED BY <2>2, <3>1, <4>1, PagesExplain DEF ContentInv
    <3>2. CASE ~page[a].read
      BY <1>1, <3>2
    <3>3. QED BY <3>1, <3>2
  <2> HIDE DEF what
  <2>4. QED BY <2>1, <2>2, <2>3, ContentAnswers
<1>4. CASE ReadHistory(a)
  <2>1. PICK n \in 0 .. MaxNodes : given' = [given EXCEPT ![a] = Served("nothing", n)]
    BY <1>4 DEF ReadHistory
  <2> DEFINE what == Served("nothing", n)
  <2>2. /\ stage[a] = "history" /\ UNCHANGED <<question, browsers, place, page>>
        /\ stage' = [stage EXCEPT ![a] = "done"]
    BY <1>4 DEF ReadHistory, Goto
  <2>3. browsers[a] = 0 /\ question[a].kind = "history"
    BY <2>2 DEF ContentInv, Reached, OpenStages
  <2>4. browsers' = [browsers EXCEPT ![a] = 0]
    BY <2>2, <2>3 DEF ContentInv, ContentKinds
  <2>5. what.status = 200 /\ what.says = "nothing"
    BY DEF Served, NoAnswer
  <2>6. what.status \in Codes /\ Explains(a, what)
    BY <2>3, <2>5 DEF Codes, Explains, OnePage, TwoPages
  <2> HIDE DEF what
  <2>7. given' = [given EXCEPT ![a] = what]
    BY <2>1 DEF what
  <2>8. QED BY <2>2, <2>4, <2>6, <2>7, ContentAnswers
<1>5. QED BY <1>2, <1>3, <1>4

LEMMA ContentKeeps == ContentInv /\ [ContentNext]_contentVars => ContentInv'
<1> SUFFICES ASSUME ContentInv, [ContentNext]_contentVars PROVE ContentInv'
  OBVIOUS
<1>1. CASE UNCHANGED contentVars
  BY <1>1 DEF contentVars, ContentInv, ContentKinds, Reached, Explains, Link
<1>2. CASE ContentNext
  <2>1. PICK a \in Askers : AskContent(a) \/ ContentStep(a)
    BY <1>2 DEF ContentNext
  <2>2. QED BY <2>1, ContentAsks, ContentReads, ContentCloses DEF ContentStep
<1>3. QED BY <1>1, <1>2

LEMMA ContentInvariant == ContentSpec => []ContentInv
BY ContentStarts, ContentKeeps, PTL DEF ContentSpec

\* Requests, pages and answers keep their types, and no request holds two browsers.
THEOREM ContentTypes == ContentSpec => []ContentTypeOK
<1>1. ContentInv => ContentTypeOK
  BY DEF ContentInv, ContentKinds, Reached, Codes, ContentTypeOK
<1>2. QED BY <1>1, ContentInvariant, PTL

\* For any number of requests, permits and entries on a page: nothing is served
\* of a page that did not load, "there is none" is answered only where nothing was
\* rendered, and an empty list of what is there only where something was; the
\* booking link is the place's, and a route is served only if one was rendered.
THEOREM AnswersAreOfPages == ContentSpec => []AnswersComeFromPages
<1>1. ContentInv => AnswersComeFromPages
  BY DEF ContentInv, Reached, Explains, AnswersComeFromPages
<1>2. QED BY <1>1, ContentInvariant, PTL

(***************************************************************************)
(* All of them side by side, with the jobs and the browser pool.           *)
(***************************************************************************)

\* A step is one component's, and a stutter of every other.
LEMMA EachStepsAlone ==
  [MCNext]_mapsVars =>
    /\ [JobsNext]_jobsVars /\ [Next]_vars /\ [FeedNext]_feedVars /\ [AreaNext]_areaVars
    /\ [SearchNext]_searchVars /\ [ContentNext]_contentVars
BY DEF MCNext, mapsVars

\* Side by side, every component's variables keep their types.
THEOREM MapsTypes == MCSpec => []MapsTypeOK
<1> DEFINE Whole == FeedInv /\ AreaInv /\ SearchInv /\ ContentInv
<1>1. MCInit => Init /\ JobsInit /\ Whole
  BY FeedStarts, AreaStarts, SearchStarts, ContentStarts DEF MCInit
<1>2. Whole /\ [MCNext]_mapsVars => Whole'
  BY EachStepsAlone, FeedKeeps, AreaKeeps, SearchKeeps, ContentKeeps
<1>3. Whole => FeedTypeOK /\ AreaTypeOK /\ SearchTypeOK /\ ContentTypeOK
  BY DEF FeedInv, AreaInv, SearchInv, ContentInv, ContentKinds, Reached, Codes, ContentTypeOK
<1>4. MCSpec => Spec /\ JobsSpec
  BY <1>1, EachStepsAlone, PTL DEF MCSpec, Spec, JobsSpec
<1>5. MCSpec => []Whole
  BY <1>1, <1>2, PTL DEF MCSpec
<1>6. TypeOK /\ JobsTypeOK /\ FeedTypeOK /\ AreaTypeOK /\ SearchTypeOK /\ ContentTypeOK => MapsTypeOK
  BY DEF MapsTypeOK
<1>7. QED BY <1>3, <1>4, <1>5, <1>6, PoolTypes, Types, PTL
================================================================================
