------------------------------ MODULE SearchIndex ------------------------------
(***************************************************************************)
(* A trigram search section: the grams that ozawrite's trigramBuilder      *)
(* takes from the texts and those it leaves out of the table, and          *)
(* oza.TrigramIndex.Search of concurrent goroutines, with the LRU cache of *)
(* decoded posting lists that they share.                                  *)
(*                                                                         *)
(* A text is a sequence of characters, a character a sequence of bytes.  A *)
(* posting list is a set of entry IDs; a decoded one is a bitmap object,   *)
(* which the cache and any number of searches hold by reference.  The      *)
(* limit of Search, which Archive.Search never gives, is left out.         *)
(***************************************************************************)
EXTENDS Integers, Sequences, FiniteSets, Functions, SequencesExt

CONSTANTS
  Char,          \* characters
  Bytes,         \* the UTF-8 bytes of each
  CJK,           \* the characters in CJK blocks
  LowerIndexed,  \* the lower case of a character as the builder has it
  LowerQueried,  \* and as Search has it
  Corpus,        \* what may be indexed: a set of texts for each entry ID
  Query,         \* query texts
  Searcher,      \* the goroutines
  PruneFreq,     \* searchPruneFreq, a percentage
  PruneMinDocs,  \* pruneMinDocs, 1000 in the code
  BitmapMax,     \* the capacity of the cache
  MaxSearches    \* bound: calls of Search

ASSUME SearchAssumption ==
  /\ Bytes \in [Char -> Seq(Nat)]
  /\ CJK \subseteq Char /\ \A c \in CJK : Len(Bytes[c]) = 3
  /\ LowerIndexed \in [Char -> Char] /\ LowerQueried \in [Char -> Char]
  /\ \A c \in Char : LowerIndexed[c] \in CJK <=> c \in CJK
  /\ Query \subseteq Seq(Char)
  /\ \A t \in Corpus : IsFiniteSet(DOMAIN t) /\ Range(t) \subseteq SUBSET Seq(Char)
  /\ PruneFreq \in Nat /\ PruneMinDocs \in Nat
  /\ BitmapMax \in Nat \ {0} /\ MaxSearches \in Nat

VARIABLES
  text,      \* the texts that were indexed, by entry ID
  table,     \* the section: the posting list of each gram in it
  bitmaps,   \* every bitmap object that has been decoded
  cache,     \* bitmapCache: the bitmap of each cached gram
  lru,       \* bitmapLRU: gram and bitmap, most recently used first
  search,    \* search[r]: the call of Search that r is in, or its last one
  searches,  \* history: how many calls have begun
  raced      \* history: a bitmap was changed while another goroutine used it

vars == <<text, table, bitmaps, cache, lru, search, searches, raced>>

Doc == DOMAIN text

-----------------------------------------------------------------------------
(* Grams. *)

Lower(t, lower) == [i \in DOMAIN t |-> lower[t[i]]]
BytesOf(t) == FlattenSeq([i \in DOMAIN t |-> Bytes[t[i]]])
Windows(b) ==
  IF Len(b) < 3 THEN <<>> ELSE [j \in 1 .. Len(b) - 2 |-> SubSeq(b, j, j + 2)]

(* The loop of emitGrams and cjkQueryGrams, one character: a CJK character *)
(* ends a run of others, and makes a gram of its own and one with the CJK  *)
(* character before it.                                                    *)
ScanChar(s, c) ==
  IF c \in CJK
    THEN [grams |-> s.grams \o Windows(s.run) \o <<Bytes[c]>>
                      \o [i \in DOMAIN s.prevLast |-> s.prevLast \o SubSeq(Bytes[c], 1, 2)],
          run |-> <<>>, prevLast |-> <<Bytes[c][3]>>]
    ELSE [grams |-> s.grams, run |-> s.run \o Bytes[c], prevLast |-> <<>>]

(* The state of the loop after each character of t. *)
Loop(t) ==
  LET state[i \in 0 .. Len(t)] ==
        IF i = 0 THEN [grams |-> <<>>, run |-> <<>>, prevLast |-> <<>>]
                 ELSE ScanChar(state[i - 1], t[i])
  IN  state

Scan(t) == Loop(t)[Len(t)].grams \o Windows(Loop(t)[Len(t)].run)

(* addGram: each gram once, where it comes first. *)
AddGram(seen, g) == IF g \in Range(seen) THEN seen ELSE Append(seen, g)

Distinct(grams) ==
  LET seen[i \in 0 .. Len(grams)] ==
        IF i = 0 THEN <<>> ELSE AddGram(seen[i - 1], grams[i])
  IN  seen[Len(grams)]

(* Mutant: the builder indexes a text as it is written. *)
MutIndexRaw(d) == UNION {Range(Scan(t)) : t \in text[d]}

(* Every call of IndexEntry for one entry adds to its grams. *)
TextGrams(d) == UNION {Range(Scan(Lower(t, LowerIndexed))) : t \in text[d]}

HasCJK == \E d \in Doc : \E t \in text[d] : Range(t) \intersect CJK # {}

(* What Search looks up: plain windows if the section's flag is not set. *)
(* A query of less than three bytes has no gram.                         *)
ScannedGrams(q) == Distinct(Scan(Lower(q, LowerQueried)))
PlainGrams(q) == Distinct(Windows(BytesOf(Lower(q, LowerQueried))))

QueryGrams(q) == IF HasCJK THEN ScannedGrams(q) ELSE PlainGrams(q)

Posting(g) == {d \in Doc : g \in TextGrams(d)}

(* The default of searchPruneFreq is 50, and pruneMinDocs is 1000. *)
Pruned(g) ==
  LET n == Cardinality(Posting(g))
  IN  PruneFreq > 0 /\ n >= PruneMinDocs /\ 100 * n >= PruneFreq * Cardinality(Doc)

(* Build: the posting lists, but those of too many entries. *)
Build == [g \in {x \in UNION {TextGrams(d) : d \in Doc} : ~ Pruned(x)} |-> Posting(g)]

-----------------------------------------------------------------------------
(* A call: where it is, the grams still to look up, the bitmaps it took and *)
(* their order, its result, and whether each bitmap was the whole posting   *)
(* list as long as the call used it (history).                              *)
Idle == [at |-> "idle", query |-> <<>>, todo |-> <<>>, held |-> {},
         order |-> <<>>, result |-> {}, whole |-> TRUE]

TypeOK ==
  /\ text \in Corpus
  /\ bitmaps \in Seq(SUBSET Doc)
  /\ DOMAIN cache \subseteq DOMAIN table /\ Range(cache) \subseteq DOMAIN bitmaps
  /\ lru \in Seq([gram : DOMAIN table, bitmap : DOMAIN bitmaps]) /\ Len(lru) <= BitmapMax
  /\ \A r \in Searcher :
       /\ search[r].at \in {"idle", "lookup", "load", "sort", "and", "done"}
       /\ search[r].query \in Query \union {<<>>}
       /\ search[r].todo \in Seq(Seq(Nat))
       /\ search[r].at \in {"lookup", "load"} => search[r].todo # <<>>
       /\ search[r].held \subseteq DOMAIN bitmaps
       /\ Range(search[r].order) \subseteq search[r].held
       /\ search[r].result \subseteq Doc
       /\ search[r].whole \in BOOLEAN
  /\ searches \in 0 .. MaxSearches
  /\ raced \in BOOLEAN

Init ==
  /\ text \in Corpus
  /\ table = Build
  /\ bitmaps = <<>>
  /\ cache = <<>>
  /\ lru = <<>>
  /\ search = [r \in Searcher |-> Idle]
  /\ searches = 0
  /\ raced = FALSE

(* r's call returns docs; what it held is garbage. *)
Returned(r, docs) ==
  [Idle EXCEPT !.at = "done", !.query = search[r].query,
               !.result = docs, !.whole = search[r].whole]

Return(r, docs) == search' = [search EXCEPT ![r] = Returned(r, docs)]

Begin(r, q) ==
  /\ search[r].at \in {"idle", "done"} /\ searches < MaxSearches
  /\ searches' = searches + 1
  /\ LET grams == QueryGrams(q)
     IN  search' = [search EXCEPT ![r] =
           [Idle EXCEPT !.at = IF grams = <<>> THEN "done" ELSE "lookup",
                        !.query = q, !.todo = grams]]
  /\ UNCHANGED <<text, table, bitmaps, cache, lru, raced>>

NextGram(r) == Head(search[r].todo)

(* lookup has bitmap b for the gram. *)
Take(r, b) ==
  search' = [search EXCEPT ![r].at = IF Len(search[r].todo) = 1 THEN "sort" ELSE "lookup",
                           ![r].todo = Tail(@), ![r].held = @ \union {b},
                           ![r].whole = @ /\ bitmaps'[b] = table[NextGram(r)]]

(* list.MoveToFront of the element at i. *)
MoveToFront(s, i) ==
  [k \in 1 .. Len(s) |-> IF k = 1 THEN s[i] ELSE IF k <= i THEN s[k - 1] ELSE s[k]]

(* The first locked part of lookup finds the gram. *)
LookupHit(r) ==
  /\ search[r].at = "lookup"
  /\ NextGram(r) \in DOMAIN cache
  /\ \E i \in DOMAIN lru :
       /\ lru[i] = [gram |-> NextGram(r), bitmap |-> cache[NextGram(r)]]
       /\ lru' = MoveToFront(lru, i)
  /\ UNCHANGED <<text, table, bitmaps, cache, searches, raced>>
  /\ Take(r, cache[NextGram(r)])

(* Mutant: a gram that is not in the table is passed over. *)
MutSkipMissing(r) ==
  /\ search[r].at = "lookup"
  /\ NextGram(r) \notin DOMAIN cache
  /\ search' = IF NextGram(r) \in DOMAIN table
       THEN [search EXCEPT ![r].at = "load"]
       ELSE [search EXCEPT ![r].at = IF Len(search[r].todo) > 1 THEN "lookup"
                                     ELSE IF search[r].held = {} THEN "done" ELSE "sort",
                           ![r].todo = Tail(@)]
  /\ UNCHANGED <<text, table, bitmaps, cache, lru, searches, raced>>

(* It does not, and the lock is released.  A gram that is not in the table *)
(* ends the search with no result.                                         *)
LookupMiss(r) ==
  /\ search[r].at = "lookup"
  /\ NextGram(r) \notin DOMAIN cache
  /\ IF NextGram(r) \in DOMAIN table
       THEN search' = [search EXCEPT ![r].at = "load"]
       ELSE Return(r, {})
  /\ UNCHANGED <<text, table, bitmaps, cache, lru, searches, raced>>

(* Mutant: an evicted element leaves its entry in the map. *)
MutMapKeepsEvicted ==
  IF Len(lru) >= BitmapMax
    THEN [map |-> cache, list |-> Front(lru)]
    ELSE [map |-> cache, list |-> lru]

(* Room for one more: eviction deletes whatever the map has for the gram of *)
(* the last element, which may be a younger element of the same gram.       *)
Room ==
  IF Len(lru) >= BitmapMax
    THEN [map |-> Restrict(cache, DOMAIN cache \ {Last(lru).gram}), list |-> Front(lru)]
    ELSE [map |-> cache, list |-> lru]

(* The posting list is decoded, and stored under the lock without a look at *)
(* what another goroutine has stored for the gram.                          *)
Load(r) ==
  /\ search[r].at = "load"
  /\ LET g == NextGram(r)
         new == Len(bitmaps) + 1
     IN  /\ bitmaps' = Append(bitmaps, table[g])
         /\ lru' = <<[gram |-> g, bitmap |-> new]>> \o Room.list
         /\ cache' = [x \in DOMAIN Room.map \union {g} |-> IF x = g THEN new ELSE Room.map[x]]
         /\ Take(r, new)
  /\ UNCHANGED <<text, table, searches, raced>>

(* sort.Slice: smallest first. *)
Sort(r) ==
  /\ search[r].at = "sort"
  /\ \E order \in SetToSeqs(search[r].held) :
       /\ \A i, j \in DOMAIN order :
            i < j => Cardinality(bitmaps[order[i]]) <= Cardinality(bitmaps[order[j]])
       /\ search' = [search EXCEPT ![r].at = "and", ![r].order = order]
  /\ UNCHANGED <<text, table, bitmaps, cache, lru, searches, raced>>

(* The goroutines other than r that use bitmap b: nothing locks its content.*)
Users(r, b) ==
  {r2 \in Searcher \ {r} : \/ search[r2].at = "sort" /\ b \in search[r2].held
                           \/ search[r2].at = "and" /\ b \in Range(search[r2].order)}

(* The first bitmap becomes docs, for all who hold it, and r goes on. *)
Narrow(r, docs) ==
  LET b == search[r].order[1]
  IN  /\ bitmaps' = [bitmaps EXCEPT ![b] = docs]
      /\ search' = [s \in Searcher |->
           IF s = r
             THEN IF docs = {}
                    THEN Returned(r, {})
                    ELSE [search[r] EXCEPT !.order = RemoveAt(@, 2)]
             ELSE IF b \in search[s].held
                    THEN [search[s] EXCEPT !.whole = @ /\ docs = bitmaps[b]]
                    ELSE search[s]]

And(r) ==
  /\ search[r].at = "and" /\ Len(search[r].order) >= 2
  /\ Narrow(r, bitmaps[search[r].order[1]] \intersect bitmaps[search[r].order[2]])
  /\ UNCHANGED <<text, table, cache, lru, searches, raced>>

(* While another goroutine uses one of the two, or changes it, the race may *)
(* leave anything; what the other one reads is what is left.                *)
RacyAnd(r) ==
  /\ search[r].at = "and" /\ Len(search[r].order) >= 2
  /\ \/ Users(r, search[r].order[1]) # {}
     \/ \E s \in Users(r, search[r].order[2]) :
          /\ search[s].at = "and" /\ Len(search[s].order) >= 2
          /\ search[s].order[1] = search[r].order[2]
  /\ raced' = TRUE
  /\ \E docs \in SUBSET Doc : Narrow(r, docs)
  /\ UNCHANGED <<text, table, cache, lru, searches>>

Finish(r) ==
  /\ search[r].at = "and" /\ Len(search[r].order) = 1
  /\ Return(r, bitmaps[search[r].order[1]])
  /\ UNCHANGED <<text, table, bitmaps, cache, lru, searches, raced>>

Terminated ==
  /\ searches = MaxSearches
  /\ \A r \in Searcher : search[r].at \in {"idle", "done"}
  /\ UNCHANGED vars

Next ==
  \/ \E r \in Searcher :
       \/ \E q \in Query : Begin(r, q)
       \/ LookupHit(r) \/ LookupMiss(r) \/ Load(r)
       \/ Sort(r) \/ And(r) \/ RacyAnd(r) \/ Finish(r)
  \/ Terminated

Spec == Init /\ [][Next]_vars

-----------------------------------------------------------------------------
(* The cache keeps its limit (TypeOK), and the map leads to elements of the *)
(* list, of the gram they are found under, so that MoveToFront and the      *)
(* eviction work on the list that the map describes, even when two          *)
(* goroutines have stored the same gram.                                    *)
CacheMapped ==
  /\ TypeOK
  /\ \A g \in DOMAIN cache : [gram |-> g, bitmap |-> cache[g]] \in Range(lru)

Done(r) == search[r].at = "done"

(* Whatever other searches do to the bitmaps, without a data race a search *)
(* returns only entries that have all grams of the query.                  *)
Sound ==
  \A r \in Searcher : Done(r) /\ ~raced =>
    \A d \in search[r].result :
      Range(QueryGrams(search[r].query)) \subseteq TextGrams(d)

ContainsText(t, q) == \E i \in 0 .. Len(t) - Len(q) : SubSeq(t, i + 1, i + Len(q)) = q

(* A search that took whole posting lists finds each entry with a text that *)
(* contains the query, case aside: the grams of a text include those of its *)
(* parts, CJK or not.  (A query of less than three bytes, and one with a    *)
(* pruned gram, find nothing.)                                              *)
Found ==
  \A r \in Searcher :
    LET q == Lower(search[r].query, LowerQueried)
    IN  Done(r) /\ ~raced /\ search[r].whole /\ Len(BytesOf(q)) >= 3 =>
          \A d \in Doc \ search[r].result :
            (\E t \in text[d] : ContainsText(Lower(t, LowerIndexed), q)) =>
              \E g \in Range(QueryGrams(search[r].query)) : Pruned(g)

(* oza/search.go:45-48: "Since posting lists are immutable, cached bitmaps *)
(* are safe to reuse across queries": without a race, a search returns the *)
(* entries that have all its grams, whatever was searched for before.      *)
ReuseSafe ==
  \A r \in Searcher :
    LET grams == Range(QueryGrams(search[r].query))
    IN  Done(r) /\ ~raced /\ grams # {} /\ grams \subseteq DOMAIN table =>
          search[r].result = {d \in Doc : \A g \in grams : d \in table[g]}
=============================================================================
