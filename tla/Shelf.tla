-------------------------------- MODULE Shelf --------------------------------
(******************************************************************************)
(* An opened archive as ozaserve and ozamcp see it, through the methods of    *)
(* oza.Archive (Catalogue models how they find their answers), and what the   *)
(* servers compute from it when they load it.                                 *)
(*                                                                            *)
(* An archive is a record:                                                    *)
(*   uuid       made of the source and the language, the same in every build  *)
(*   build      the build_uuid of its metadata, which nothing here looks at   *)
(*   title      the rank of its lowered title among all titles                *)
(*   entries    content entry i has ID i - 1: [path, title, mime, front,      *)
(*              size, readable]                                               *)
(*   redirects  redirect i has ID RedirectBit + i - 1: [path, title, target]  *)
(*   main       the path of the main entry, or NoPath                         *)
(*   hits       query -> the IDs it finds, best first; no query, no index     *)
(* Paths are distinct.  A path is the sequence of the names between its       *)
(* slashes; a name is [stem, ext], ext being its last dot and what follows    *)
(* it, stem the parts between the underscores before, none if it is empty.    *)
(* A title is 100 times its first byte plus a number, or 0 if it is empty,    *)
(* and titles compare as such.                                                *)
(******************************************************************************)
EXTENDS Integers, Sequences, FiniteSets, FiniteSetsExt, SequencesExt

CONSTANTS
    RedirectBit,    \* the ID bit of redirects, 2^31
    IDSpace,        \* the number of IDs, 2^32
    DefaultLimit,   \* results of a search without a limit, 20
    DateLike        \* name segments of four bytes or more with a leading digit

Empty == [stem |-> <<>>, ext |-> ""]
Dot == [stem |-> <<>>, ext |-> "."]
DotDot == [stem |-> <<".">>, ext |-> "."]
NoPath == <<Empty>>
NoEntry == [ok |-> FALSE]
NoID == -1

IDs(a) == 0 .. Len(a.entries) - 1
          \cup RedirectBit .. RedirectBit + Len(a.redirects) - 1
IsRedirectID(id) == id >= RedirectBit

Name == [stem : Seq(STRING), ext : {"", "."} \cup STRING]
Path == Seq(Name) \ {<<>>}

(* The paths that stay as they are in a URL: see OzaServe. *)
IsClean(path) ==
    \A i \in DOMAIN path : path[i] \notin {Dot, DotDot} /\ (path[i] = Empty => i = Len(path))

(* What Open and the writer see to: IDs have their 32 bits, an index finds  *)
(* entries, and finds nothing for no text.                                  *)
WellFormed(a) ==
    /\ a.entries \in Seq([path : Path, title : Nat, mime : STRING, front : BOOLEAN,
                          size : Nat, readable : BOOLEAN])
    /\ a.redirects \in Seq([path : Path, title : Nat, target : Nat])
    /\ Len(a.entries) <= RedirectBit /\ RedirectBit + Len(a.redirects) <= IDSpace
    /\ \A q \in DOMAIN a.hits : q # "" /\ a.hits[q] \in Seq(IDs(a))

EntryByID(a, id) ==
    IF id \notin IDs(a) THEN NoEntry
    ELSE IF IsRedirectID(id)
         THEN LET r == a.redirects[id - RedirectBit + 1]
              IN  [ok |-> TRUE, id |-> id, path |-> r.path, title |-> r.title, target |-> r.target]
         ELSE LET e == a.entries[id + 1]
              IN  [ok |-> TRUE, id |-> id, path |-> e.path, title |-> e.title]

EntryByPath(a, path) ==
    IF \E id \in IDs(a) : EntryByID(a, id).path = path
    THEN EntryByID(a, CHOOSE id \in IDs(a) : EntryByID(a, id).path = path)
    ELSE NoEntry

MainEntry(a) == IF a.main = NoPath THEN NoEntry ELSE EntryByPath(a, a.main)

(* Size of an entry's own blob: a redirect has none. *)
Size(a, id) == IF IsRedirectID(id) THEN 0 ELSE a.entries[id + 1].size

(* The content entry at the end of a chain of redirects; none if it loops or *)
(* breaks.  Every hop visits an entry that was not visited before.           *)
Resolve(a, id) ==
    LET hop(w) ==
            IF w.at \notin IDs(a) \/ ~IsRedirectID(w.at) THEN w
            ELSE LET target == EntryByID(a, w.at).target
                 IN  [at |-> IF target \in w.visited THEN NoID ELSE target,
                      visited |-> w.visited \cup {target}]
        walk[n \in 0 .. Cardinality(IDs(a))] ==
            IF n = 0 THEN [at |-> id, visited |-> {id}] ELSE hop(walk[n - 1])
    IN  EntryByID(a, walk[Cardinality(IDs(a))].at)

(* The content of entry id, <<build, ID of the content entry>>, or an error. *)
ReadContent(a, id) ==
    LET e == Resolve(a, id)
    IN  IF e.ok /\ a.entries[e.id + 1].readable
        THEN [ok |-> TRUE, body |-> <<a.build, e.id>>]
        ELSE NoEntry

HasSearch(a) == DOMAIN a.hits # {}

Search(a, q, limit) ==
    LET found == IF q \in DOMAIN a.hits THEN a.hits[q] ELSE <<>>
        n == IF limit <= 0 THEN DefaultLimit ELSE limit
    IN  SubSeq(found, 1, Min({n, Len(found)}))

(* The title index: content and redirects, by title, then by ID.             *)
TitleIndex(a) ==
    LET title == [id \in IDs(a) |-> EntryByID(a, id).title]
        before(id) == {x \in IDs(a) : title[x] < title[id] \/ (title[x] = title[id] /\ x < id)}
        place == [id \in IDs(a) |-> Cardinality(before(id)) + 1]
    IN  [i \in 1 .. Cardinality(IDs(a)) |-> CHOOSE id \in IDs(a) : place[id] = i]

BrowseTitles(a, offset, limit) ==
    IF offset < 0 \/ limit <= 0 THEN <<>>
    ELSE SubSeq(TitleIndex(a), offset + 1, Min({offset + limit, Len(TitleIndex(a))}))

CollectFrontArticleIDs(a) == {id \in 0 .. Len(a.entries) - 1 : a.entries[id + 1].front}

(***************************************************************************)
(* The letter bar                                                          *)
(***************************************************************************)
Hash == 35
NoLetter == 0

(* The letter a title is listed under: its first byte, upper case; "#" for *)
(* any other byte; none for an empty title.                                *)
LetterOf(title) ==
    LET c == title \div 100
    IN  CASE c = 0 -> NoLetter
          [] c \in 97 .. 122 -> c - 32
          [] c \in 65 .. 90 -> c
          [] OTHER -> Hash

(* Mutant: titles without a letter are not counted. *)
MutcomputeLetterIndex(a) ==
    LET titles == SelectSeq([i \in DOMAIN TitleIndex(a) |-> EntryByID(a, TitleIndex(a)[i]).title],
                            LAMBDA t : t # 0)
        places(l) == {i \in DOMAIN titles : LetterOf(titles[i]) = l}
        letters == {LetterOf(titles[i]) : i \in DOMAIN titles}
    IN  [l \in letters |-> [offset |-> Min(places(l)) - 1, count |-> Cardinality(places(l))]]

(* For each letter the place of its first title and the number of its *)
(* titles; empty titles take a place, too.                            *)
computeLetterIndex(a) ==
    LET index == TitleIndex(a)
        places(l) == {i \in DOMAIN index : LetterOf(EntryByID(a, index[i]).title) = l}
        letters == {LetterOf(EntryByID(a, index[i]).title) : i \in DOMAIN index} \ {NoLetter}
    IN  [l \in letters |-> [offset |-> Min(places(l)) - 1, count |-> Cardinality(places(l))]]

(***************************************************************************)
(* Names                                                                   *)
(***************************************************************************)
(* A slug is the file's name, a sequence of segments, without the dates at *)
(* its end.                                                                *)
MakeSlug(name) ==
    LET ends == {n \in DOMAIN name : \A k \in n + 1 .. Len(name) : name[k] \in DateLike}
    IN  SubSeq(name, 1, Min(ends))

(* The files of the directories, each once, in the order of their paths.     *)
CollectOZAPaths(dirs) ==
    CHOOSE s \in [1 .. Cardinality(UNION dirs) -> UNION dirs] :
        \A i, j \in 1 .. Cardinality(UNION dirs) : i < j => s[i] < s[j]

=============================================================================
