------------------------------- MODULE Catalogue -------------------------------
(***************************************************************************)
(* The tables of an archive: what AddEntry, AddRedirect, SetMetadata and   *)
(* Close of ozawrite.Writer put into its MIME table, entry table, redirect *)
(* table, path and title index and metadata, and what an oza.Archive finds *)
(* in them: lookups, redirects, listings, the ranking of Search and the    *)
(* entry tier of VerifyAll.                                                *)
(*                                                                         *)
(* Content is left to ChunkWriter and ChunkReader: here an entry's blob is *)
(* either what was added or changed by damage to the file.  A path, title, *)
(* MIME type or metadata value is a sequence of characters; a metadata key *)
(* has a name and the characters that spell it.                            *)
(***************************************************************************)
EXTENDS NameIndex, Functions

CONSTANTS
  Slash, Space,          \* the delimiters of paths and titles
  StandardTypes,         \* the three MIME types that every table starts with
  MIMELimit,             \* MIME indices and counts are kept modulo this (2^16)
  StringLimit,           \* lengths of types and metadata keys are kept modulo
                         \* this (2^16), those of metadata values modulo its
                         \* square (2^32)
  Chars,                 \* how a metadata key is spelled
  Invalid,               \* a byte that no UTF-8 text holds
  Shuffles,              \* the orders in which a map hands out a set of keys
  RedirectIDBit,         \* the bit that tags redirect IDs (2^31), here a bound
  MaxMetadataValueSize,  \* Open refuses longer metadata values (16 MiB)
  Dates, Languages,      \* the values that pass for a date or a language
  ContentRecords,        \* the arguments AddEntry is called with
  RedirectRecords,       \* the arguments AddRedirect is called with
  MetadataCalls,         \* the arguments SetMetadata is called with
  MaxNames               \* bound: entries and redirects of an archive

ASSUME CatalogueAssumption ==
  /\ Len(StandardTypes) = 3
  /\ MIMELimit \in Nat /\ MIMELimit > 3
  /\ {RedirectIDBit, MaxMetadataValueSize, MaxNames} \subseteq Nat
  /\ MaxNames < RedirectIDBit

ASSUME RecordsAssumption ==
  /\ StandardTypes \in Seq(Seq(Nat))
  /\ ContentRecords \subseteq [path : Seq(Nat), title : Seq(Nat), mime : Seq(Nat), front : BOOLEAN]
  /\ RedirectRecords \subseteq [path : Seq(Nat), title : Seq(Nat), target : Nat]
  /\ MetadataCalls \subseteq STRING \X Seq(Nat)

ASSUME TypesAssumption ==
  \A i, j \in 1 .. Len(StandardTypes) : StandardTypes[i] = StandardTypes[j] => i = j

ASSUME StringsAssumption ==
  StringLimit \in Nat /\ MaxMetadataValueSize < StringLimit * StringLimit

(* Different keys are spelled differently.                                 *)
ASSUME CharsAssumption ==
  /\ {c[1] : c \in MetadataCalls} \subseteq DOMAIN Chars
  /\ \A k \in DOMAIN Chars : Chars[k] \in Seq(Nat)
  /\ \A k, l \in DOMAIN Chars : Chars[k] = Chars[l] => k = l

(* Each order has every key once.                                          *)
ASSUME ShufflesAssumption ==
  /\ DOMAIN Shuffles = SUBSET DOMAIN Chars
  /\ \A S \in SUBSET DOMAIN Chars : \A order \in Shuffles[S] :
       /\ order \in Seq(S) /\ S \subseteq ToSet(order)
       /\ \A i, j \in 1 .. Len(order) : order[i] = order[j] => i = j

VARIABLES
  phase,      \* "writing", or how Close and Open ended
  strict,     \* WriterOptions.StrictMetadata
  entries,    \* Writer.entries
  redirects,  \* Writer.redirectEntries
  meta,       \* Writer.meta
  file,       \* the sections Close wrote
  unparsable, \* the entry records that damage made unreadable
  changed,    \* the entries whose blobs are damaged
  archive     \* what Open loaded

vars == <<phase, strict, entries, redirects, meta, file, unparsable, changed, archive>>

RequiredMetadataKeys == {"title", "language", "creator", "date", "source"}

IsRedirectID(id) == id >= RedirectIDBit
RedirectIndex(id) == id - RedirectIDBit
MakeRedirectID(i) == i + RedirectIDBit

Nothing == <<>>

Init ==
  /\ phase = "writing"
  /\ strict \in BOOLEAN
  /\ entries = <<>>
  /\ redirects = <<>>
  /\ meta = [k \in {} |-> <<>>]
  /\ file = Nothing
  /\ unparsable = {}
  /\ changed = {}
  /\ archive = Nothing

-----------------------------------------------------------------------------
(* The writer.                                                             *)
SetMetadata(key, value) ==
  /\ phase = "writing"
  /\ meta' = [k \in DOMAIN meta \union {key} |-> IF k = key THEN value ELSE meta[k]]
  /\ UNCHANGED <<phase, strict, entries, redirects, file, unparsable, changed, archive>>

AddEntry(e) ==
  /\ phase = "writing"
  /\ Len(entries) + Len(redirects) < MaxNames
  /\ entries' = Append(entries, e)
  /\ UNCHANGED <<phase, strict, redirects, meta, file, unparsable, changed, archive>>

(* Nothing looks at the target: it may be a redirect or not exist.         *)
AddRedirect(r) ==
  /\ phase = "writing"
  /\ Len(entries) + Len(redirects) < MaxNames
  /\ redirects' = Append(redirects, r)
  /\ UNCHANGED <<phase, strict, entries, meta, file, unparsable, changed, archive>>

Blank(v) == \A i \in 1 .. Len(v) : v[i] = Space

(* The elements of a sequence that a predicate holds of, in their order.   *)
Where(s, Holds(_)) ==
  LET at == Sorted({i \in 1 .. Len(s) : Holds(s[i])}, <)
  IN  [k \in 1 .. Len(at) |-> s[at[k]]]

ValidateMetadata == RequiredMetadataKeys \subseteq DOMAIN meta

(* Every value is text, and the keys with a defined format have it; an     *)
(* absent or empty date or language is not looked at.                      *)
ValidateMetadataStrict ==
  /\ RequiredMetadataKeys \subseteq DOMAIN meta
  /\ \A k \in DOMAIN meta : Invalid \notin ToSet(meta[k])
  /\ \A k \in DOMAIN meta \intersect
          {"title", "creator", "source", "favicon_entry", "main_entry", "license"} :
       ~Blank(meta[k])
  /\ "date" \in DOMAIN meta => meta["date"] \in Dates \union {<<>>}
  /\ "language" \in DOMAIN meta => meta["language"] \in Languages \union {<<>>}

(* The types in the order in which their first entries came.               *)
MIMETypes ==
  LET types[n \in 0 .. Len(entries)] ==
        IF n = 0 THEN StandardTypes
        ELSE IF entries[n].mime \in ToSet(types[n - 1]) THEN types[n - 1]
        ELSE Append(types[n - 1], entries[n].mime)
  IN  types[Len(entries)]

(* Mutant: the new types go in front of the standard ones.                 *)
MutEntryTable ==
  LET types == SelectSeq(MIMETypes, LAMBDA t : t \notin ToSet(StandardTypes)) \o StandardTypes
      index(t) == CHOOSE i \in 1 .. Len(types) : types[i] = t
  IN  [i \in 1 .. Len(entries) |->
        [mime |-> (index(entries[i].mime) - 1) % MIMELimit, front |-> entries[i].front]]

EntryTable ==
  LET types == MIMETypes
      index(t) == CHOOSE i \in 1 .. Len(types) : types[i] = t
  IN  [i \in 1 .. Len(entries) |->
        [mime |-> (index(entries[i].mime) - 1) % MIMELimit, front |-> entries[i].front]]

(* Everything that has a path: content under its ID, redirects under       *)
(* their tagged IDs.                                                       *)
Names ==
  [i \in 1 .. Len(entries) |->
     [id |-> i - 1, path |-> entries[i].path, title |-> entries[i].title]]
  \o [i \in 1 .. Len(redirects) |->
     [id |-> MakeRedirectID(i - 1), path |-> redirects[i].path, title |-> redirects[i].title]]

(* sort.Slice is not stable: equal keys come in the order of their adding  *)
(* or turned round.                                                        *)
BuildIndex(key, delim, turned) ==
  LET sooner(i, j) ==
        Before(key[i], key[j]) \/ (key[i] = key[j] /\ IF turned THEN i > j ELSE i < j)
      order == Sorted(1 .. Len(key), sooner)
  IN  SerializeIndex([k \in 1 .. Len(order) |-> Names[order[k]].id],
                     [k \in 1 .. Len(order) |-> key[order[k]]], delim)

RedirectTable == [i \in 1 .. Len(redirects) |-> redirects[i].target]

(* A length and what it is the length of; nothing looks whether it wraps.  *)
Field(s, limit) == <<Len(s) % limit>> \o s

MIMETable ==
  LET types == MIMETypes
  IN  [count |-> Len(types) % MIMELimit,
       cells |-> FlattenSeq([i \in 1 .. Len(types) |-> Field(types[i], StringLimit)])]

(* The pairs of a map, keys and values by turns, in the order in which the *)
(* map hands out its keys.                                                 *)
MarshalMetadata(order) ==
  LET field(i) ==
        IF i % 2 = 1 THEN Field(Chars[order[(i + 1) \div 2]], StringLimit)
        ELSE Field(meta[order[i \div 2]], StringLimit * StringLimit)
  IN  [count |-> Len(order), cells |-> FlattenSeq([i \in 1 .. 2 * Len(order) |-> field(i)])]

Sections(turned, order) ==
  [mime |-> MIMETable,
   entries |-> EntryTable,
   redirects |-> RedirectTable,
   path |-> BuildIndex([i \in 1 .. Len(Names) |-> Names[i].path], Slash, turned),
   title |-> BuildIndex([i \in 1 .. Len(Names) |-> Names[i].title], Space, turned),
   meta |-> MarshalMetadata(order)]

Close ==
  /\ phase = "writing"
  /\ IF ValidateMetadata /\ (strict => ValidateMetadataStrict)
     THEN /\ phase' = "closed"
          /\ \E turned \in BOOLEAN, order \in Shuffles[DOMAIN meta] :
               file' = Sections(turned, order)
     ELSE /\ phase' = "invalid"
          /\ UNCHANGED file
  /\ UNCHANGED <<strict, entries, redirects, meta, unparsable, changed, archive>>

(* The file is damaged where it holds entry records or blobs.              *)
Damage ==
  /\ phase = "closed"
  /\ unparsable \union changed = {}
  /\ \E i \in 0 .. Len(entries) - 1 :
       \/ unparsable' = {i} /\ UNCHANGED changed
       \/ changed' = {i} /\ UNCHANGED unparsable
       \/ \E j \in 0 .. Len(entries) - 1 : unparsable' = {i} /\ changed' = {j}
  /\ UNCHANGED <<phase, strict, entries, redirects, meta, file, archive>>

-----------------------------------------------------------------------------
(* The reader: EntryByID and the lookups.  a is what Open has loaded.      *)
Missing ==
  [id |-> -1, path |-> <<>>, title |-> <<>>, mime |-> -1, front |-> FALSE, target |-> -1]

(* contentEntryRecord accepts the record.                                  *)
ValidRecord(a, id) ==
  /\ id < Len(a.entries)
  /\ id \notin unparsable
  /\ a.entries[id + 1].mime < Len(a.mimeTypes)

NameOf(names, id) == IF id \in DOMAIN names THEN names[id] ELSE <<>>

EntryByID(a, id) ==
  IF IsRedirectID(id)
  THEN IF RedirectIndex(id) >= Len(a.redirects) THEN Missing
       ELSE [id |-> id, path |-> NameOf(a.idToPath, id), title |-> NameOf(a.idToTitle, id),
             mime |-> -1, front |-> FALSE, target |-> a.redirects[RedirectIndex(id) + 1]]
  ELSE IF ~ValidRecord(a, id) THEN Missing
  ELSE [id |-> id, path |-> NameOf(a.idToPath, id), title |-> NameOf(a.idToTitle, id),
        mime |-> a.entries[id + 1].mime, front |-> a.entries[id + 1].front, target |-> -1]

IsRedirect(e) == e.target # -1

(* The entry of an index record, with the key it was found under.          *)
EntryFromPath(a, r) ==
  IF EntryByID(a, r.id) = Missing THEN Missing
  ELSE [EntryByID(a, r.id) EXCEPT !.path = r.key]

EntryFromTitle(a, r) ==
  IF EntryByID(a, r.id) = Missing THEN Missing
  ELSE [EntryByID(a, r.id) EXCEPT !.title = r.key]

EntryByPath(a, path) ==
  LET i == SearchIndexFor(a.pathIdx, path)
  IN  IF i = 0 THEN Missing ELSE EntryFromPath(a, a.pathIdx[i])

EntryByTitle(a, title) ==
  LET i == SearchIndexFor(a.titleIdx, title)
  IN  IF i = 0 THEN Missing ELSE EntryFromTitle(a, a.titleIdx[i])

MainEntry(a) ==
  LET key == Chars["main_entry"]
  IN  IF key \in DOMAIN a.meta THEN EntryByPath(a, a.meta[key]) ELSE Missing

Loop == [Missing EXCEPT !.id = -2]

(* Mutant: one hop, as if chains had been flattened when they were added.  *)
MutResolve(a, e) ==
  IF IsRedirect(e) THEN EntryByID(a, e.target) ELSE e

(* Resolve goes from redirect to redirect and remembers where it was.  No  *)
(* chain is longer than the redirect table.                                *)
Resolve(a, e) ==
  LET Hop(w) ==
        IF ~IsRedirect(w.at) THEN w
        ELSE IF w.at.target \in w.visited THEN [at |-> Loop, visited |-> w.visited]
        ELSE [at |-> EntryByID(a, w.at.target), visited |-> w.visited \union {w.at.target}]
      walk[n \in 0 .. Len(a.redirects) + 1] ==
        IF n = 0 THEN [at |-> e, visited |-> {e.id}] ELSE Hop(walk[n - 1])
  IN  walk[Len(a.redirects) + 1].at

(* The bytes ReadContent returns: the blob of an entry, or an error.       *)
ReadContent(a, e) ==
  LET content == Resolve(a, e)
  IN  IF content.id < 0 THEN <<"error", content.id>>
      ELSE IF content.id \in changed THEN <<"changed", content.id>>
      ELSE <<"added", content.id>>

-----------------------------------------------------------------------------
(* The listings.  An iterator yields entries until one cannot be read, and *)
(* stops without a word.                                                   *)
UntilMissing(list) ==
  LET bad == {i \in 1 .. Len(list) : list[i] = Missing}
  IN  IF bad = {} THEN list ELSE SubSeq(list, 1, Min(bad) - 1)

(* The variants that end in Err yield the error in its place.              *)
UntilError(list) ==
  LET bad == {i \in 1 .. Len(list) : list[i] = Missing}
  IN  IF bad = {} THEN list ELSE SubSeq(list, 1, Min(bad))

Entries(a) == UntilMissing([i \in 1 .. Len(a.entries) |-> EntryByID(a, i - 1)])

RedirectEntries(a) ==
  UntilMissing([i \in 1 .. Len(a.redirects) |-> EntryByID(a, MakeRedirectID(i - 1))])

EntriesErr(a) == UntilError([i \in 1 .. Len(a.entries) |-> EntryByID(a, i - 1)])

EntriesByPathErr(a) ==
  UntilError([i \in 1 .. Len(a.pathIdx) |-> EntryFromPath(a, a.pathIdx[i])])

EntriesByPath(a) ==
  UntilMissing([i \in 1 .. Len(a.pathIdx) |-> EntryFromPath(a, a.pathIdx[i])])

EntriesByTitle(a) ==
  UntilMissing([i \in 1 .. Len(a.titleIdx) |-> EntryFromTitle(a, a.titleIdx[i])])

FrontArticles(a) == Where(Entries(a), LAMBDA e : e.front)

(* The positions of a type in the table, in the order mimeIndex tries them *)
EntriesByMIME(a, type) ==
  LET at == {i \in 1 .. Len(a.mimeTypes) : a.mimeTypes[i] = type}
      ids == IF at = {} THEN <<>> ELSE a.mimeToEntries[Min(at)]
  IN  UntilMissing([i \in 1 .. Len(ids) |-> EntryByID(a, ids[i])])

(* A page of BrowseTitles leaves out what cannot be read.                  *)
BrowseTitles(a, offset, limit) ==
  LET end == Min({offset + limit, Len(a.titleIdx)})
      page == [i \in 1 .. end - offset |-> EntryFromTitle(a, a.titleIdx[offset + i])]
  IN  IF offset >= Len(a.titleIdx) \/ limit <= 0 THEN <<>>
      ELSE Where(page, LAMBDA e : e # Missing)

(* ForEachTitleKey needs no entry records.                                 *)
ForEachTitleKey(a) ==
  LET records == ForEach(a.titleIdx) IN [i \in 1 .. Len(records) |-> records[i].key]

(* ForEachEntryRecord skips a record that does not parse, without a look   *)
(* at its MIME index.                                                      *)
ForEachEntryRecord(a) ==
  Where([i \in 1 .. Len(a.entries) |-> i - 1], LAMBDA id : id \notin unparsable)

(* Mutant: an entry that both indices find is ranked in both groups.       *)
MutSearchTwoTier(a, titleIDs, bodyIDs, limit, titleOnly) ==
  LET ranked == Sorted(titleIDs, <)
                  \o (IF titleOnly THEN <<>> ELSE Sorted(bodyIDs, <))
      cut == SubSeq(ranked, 1, Min({limit, Len(ranked)}))
  IN  Where(cut, LAMBDA id : EntryByID(a, id) # Missing)

(* searchTwoTier: what the title index finds, then what only the body      *)
(* index finds, each by ID, cut at the limit; an entry that cannot be read *)
(* is then left out.                                                       *)
SearchTwoTier(a, titleIDs, bodyIDs, limit, titleOnly) ==
  LET ranked == Sorted(titleIDs, <)
                  \o (IF titleOnly THEN <<>> ELSE Sorted(bodyIDs \ titleIDs, <))
      cut == SubSeq(ranked, 1, Min({limit, Len(ranked)}))
  IN  Where(cut, LAMBDA id : EntryByID(a, id) # Missing)

-----------------------------------------------------------------------------
(* The entry tier: the hash of each blob up to the first record that       *)
(* cannot be read.                                                         *)
VerifyEntries(a) ==
  LET list == Entries(a)
  IN  [i \in 1 .. Len(list) |-> [tier |-> "entry", id |-> i - 1, ok |-> (i - 1) \notin changed]]

(* Mutant: only the entry tier.                                            *)
MutVerifyAll(a) == VerifyEntries(a)

(* All tiers: the hash of the file, of each section, and of the entries.   *)
VerifyAll(a) ==
  <<[tier |-> "file", id |-> -1, ok |-> unparsable \union changed = {}],
    [tier |-> "section", id |-> 3, ok |-> unparsable = {}],  \* ENTRY_TABLE
    [tier |-> "section", id |-> 6, ok |-> changed = {}]>>    \* CONTENT
  \o VerifyEntries(a)

Verified(a) == \A i \in 1 .. Len(VerifyAll(a)) : VerifyAll(a)[i].ok

(* buildReverseMaps and buildMIMEIndex.                                    *)
ReverseMap(records) ==
  LET last(id) == Max({i \in 1 .. Len(records) : records[i].id = id})
  IN  [id \in {records[i].id : i \in 1 .. Len(records)} |-> records[last(id)].key]

(* One field more, and n of them from the front of cells.  Behind a length *)
(* that has wrapped the next is looked for in the midst of a string.       *)
ReadField(cells, read) ==
  LET at == read.off + 1
      to == at + cells[at]
  IN  IF read.ok /\ at <= Len(cells) /\ to <= Len(cells)
      THEN [ok |-> TRUE, off |-> to, fields |-> Append(read.fields, SubSeq(cells, at + 1, to))]
      ELSE [ok |-> FALSE, off |-> 0, fields |-> <<>>]

ReadFields(cells, n) ==
  LET read[i \in 0 .. n] ==
        IF i = 0 THEN [ok |-> TRUE, off |-> 0, fields |-> <<>>] ELSE ReadField(cells, read[i - 1])
  IN  read[n]

TypesRead(section) == ReadFields(section.cells, section.count)
PairsRead(section) == ReadFields(section.cells, 2 * section.count)

ParseMIMETable(section) ==
  LET read == TypesRead(section)
  IN  read.ok /\ (Len(read.fields) >= 3 => SubSeq(read.fields, 1, 3) = StandardTypes)

(* A key that comes twice is an error, as is a long value.                 *)
ParseMetadata(section) ==
  LET read == PairsRead(section)
  IN  /\ read.ok
      /\ \A i, j \in 1 .. section.count : read.fields[2 * i - 1] = read.fields[2 * j - 1] => i = j
      /\ \A i \in 1 .. section.count : Len(read.fields[2 * i]) <= MaxMetadataValueSize

MetadataOf(section) ==
  LET fields == PairsRead(section).fields
      at(key) == CHOOSE i \in 1 .. section.count : fields[2 * i - 1] = key
  IN  [key \in {fields[2 * i - 1] : i \in 1 .. section.count} |-> fields[2 * at(key)]]

Load ==
  LET types == TypesRead(file.mime).fields
      path == DecodeIndex(file.path)
      title == DecodeIndex(file.title)
      ofType(m) == Where([i \in 1 .. Len(file.entries) |-> i - 1],
                     LAMBDA id : id \notin unparsable /\ file.entries[id + 1].mime = m - 1)
  IN  [mimeTypes |-> types, entries |-> file.entries, redirects |-> file.redirects,
       meta |-> MetadataOf(file.meta), pathIdx |-> path, titleIdx |-> title,
       idToPath |-> ReverseMap(path), idToTitle |-> ReverseMap(title),
       mimeToEntries |-> [m \in 1 .. Len(types) |-> ofType(m)]]

(* What Open refuses: a MIME table that does not start as it must, long or *)
(* ambiguous metadata, a table or an index that does not decode.           *)
Parses ==
  /\ ParseMIMETable(file.mime)
  /\ ParseMetadata(file.meta)
  /\ Decodable(DecodeIndex(file.path))
  /\ Decodable(DecodeIndex(file.title))

Open ==
  /\ phase = "closed"
  /\ \E verifyOnOpen \in BOOLEAN :
       IF Parses /\ (verifyOnOpen => Verified(Load))
       THEN phase' = "open" /\ archive' = Load
       ELSE phase' = "refused" /\ UNCHANGED archive
  /\ UNCHANGED <<strict, entries, redirects, meta, file, unparsable, changed>>

-----------------------------------------------------------------------------
Next ==
  \/ \E c \in MetadataCalls : SetMetadata(c[1], c[2])
  \/ \E e \in ContentRecords : AddEntry(e)
  \/ \E r \in RedirectRecords : AddRedirect(r)
  \/ Close
  \/ Damage
  \/ Open

Spec == Init /\ [][Next]_vars

-----------------------------------------------------------------------------
Ids == {Names[i].id : i \in 1 .. Len(Names)}

TypeOK ==
  /\ phase \in {"writing", "closed", "invalid", "open", "refused"}
  /\ ToSet(entries) \subseteq ContentRecords
  /\ ToSet(redirects) \subseteq RedirectRecords
  /\ \A k \in DOMAIN meta : <<k, meta[k]>> \in MetadataCalls
  /\ unparsable \union changed \subseteq 0 .. Len(entries) - 1
  /\ phase = "writing" => file = Nothing
  /\ phase # "open" => archive = Nothing

(* Nothing an archive holds is beyond the width of its field.              *)
KeyFits(key, delim) ==
  LET tokens == Tokenize(key, delim)
  IN  /\ Len(tokens) < CountLimit
      /\ Len(key) < PrefixLimit
      /\ \A k \in 1 .. Len(tokens) : Len(tokens[k]) < LengthLimit

Fits ==
  /\ \A i \in 1 .. Len(Names) : KeyFits(Names[i].path, Slash) /\ KeyFits(Names[i].title, Space)
  /\ Len(MIMETypes) < MIMELimit
  /\ \A i \in 1 .. Len(MIMETypes) : Len(MIMETypes[i]) < StringLimit
  /\ \A k \in DOMAIN meta : Len(Chars[k]) < StringLimit

SamePaths == \E i, j \in 1 .. Len(Names) : i # j /\ Names[i].path = Names[j].path

(* What Close has written without an error Open accepts, unless the file   *)
(* was damaged, a name, type, table or metadata key is beyond its field,   *)
(* or a metadata value is longer than the reader allows though not the     *)
(* writer; what it refuses it leaves nothing of (TypeOK).  Of archives     *)
(* with equal paths this says nothing: FORMAT.md:662-665 and 807-811 tell  *)
(* writers not to produce and readers to reject them; Close and Open look  *)
(* for no such paths.                                                      *)
OpensWhatFits ==
  /\ TypeOK
  /\ phase = "refused" =>
       \/ ~Fits
       \/ SamePaths
       \/ unparsable \union changed # {}
       \/ \E k \in DOMAIN meta : Len(meta[k]) > MaxMetadataValueSize

(* EntryByPath and EntryByTitle answer with an entry that was added under  *)
(* that key, wherever its record is in the blocks, and find nothing only   *)
(* if there is none or the record cannot be read; EntryByID knows the path *)
(* and the title of every entry and redirect.                              *)
LookupRight ==
  phase = "open" /\ Fits =>
    /\ \A n \in ToSet(Names) : \A key \in {n.path, n.title, Append(n.path, 0), Front(n.path)} :
         LET byPath == EntryByPath(archive, key)
             byTitle == EntryByTitle(archive, key)
             ofPath == {k \in ToSet(Names) : k.path = key}
             ofTitle == {k \in ToSet(Names) : k.title = key}
         IN  /\ IF byPath = Missing THEN ofPath = {} \/ \E k \in ofPath : k.id \in unparsable
                ELSE \E k \in ofPath : k.id = byPath.id /\ k.title = byPath.title
             /\ IF byTitle = Missing THEN ofTitle = {} \/ \E k \in ofTitle : k.id \in unparsable
                ELSE \E k \in ofTitle : k.id = byTitle.id /\ k.path = byTitle.path
    /\ \A n \in ToSet(Names) : n.id \notin unparsable =>
         LET e == EntryByID(archive, n.id)
         IN  e.id = n.id /\ e.path = n.path /\ e.title = n.title

(* Where the redirects lead to from id, as the least set that is closed.   *)
Targets ==
  [id \in {MakeRedirectID(i - 1) : i \in 1 .. Len(redirects)} |->
     redirects[RedirectIndex(id) + 1].target]

LeadsTo(id) ==
  LET ids == Ids \union Range(Targets)
      closed == {S \in SUBSET ids : id \in S /\ \A r \in S \intersect DOMAIN Targets : Targets[r] \in S}
  IN  {x \in ids : \A S \in closed : x \in S}

(* Resolve ends at the one content entry a chain of redirects leads to,    *)
(* whatever AddRedirect was given: it reports a loop exactly if the chain  *)
(* runs into itself, and a missing entry exactly if the chain leaves the   *)
(* tables or reaches a record that cannot be read.                         *)
ResolveRight ==
  phase = "open" /\ Fits =>
    \A id \in Ids \ unparsable :
      LET end == Resolve(archive, EntryByID(archive, id))
          ends == LeadsTo(id) \ DOMAIN Targets
      IN  IF end = Loop THEN ends = {}
          ELSE IF end = Missing THEN \E x \in ends : x \in unparsable \/ x \notin Ids
          ELSE ends = {end.id} /\ ~IsRedirect(end)

IdsOf(list) == [i \in 1 .. Len(list) |-> list[i].id]

(* The listings agree.  Pages of titles and the entries of a MIME type are *)
(* those that can be read, each once, whatever was damaged.  An iterator   *)
(* by path, by title or by ID stops at the first that cannot be read: it   *)
(* shows none twice, and all of an archive that is not damaged; the Err    *)
(* variants report that they stopped.                                      *)
ListingsAgree ==
  phase = "open" /\ Fits =>
    /\ \A limit \in 1 .. 2 :
         LET pages == FlattenSeq([p \in 1 .. Len(Names) |->
                        BrowseTitles(archive, (p - 1) * limit, limit)])
         IN  ToSet(IdsOf(pages)) = Ids \ unparsable
               /\ Len(pages) = Cardinality(Ids \ unparsable)
    /\ \A list \in {EntriesByPath(archive), EntriesByTitle(archive),
                    Entries(archive) \o RedirectEntries(archive)} :
         /\ Cardinality(ToSet(IdsOf(list))) = Len(list)
         /\ unparsable = {} => ToSet(IdsOf(list)) = Ids
    /\ \A type \in Range(StandardTypes) \union {entries[i].mime : i \in 1 .. Len(entries)} :
         ToSet(IdsOf(EntriesByMIME(archive, type)))
           = {id \in Ids \ unparsable : ~IsRedirectID(id) /\ entries[id + 1].mime = type}
    /\ unparsable = {} => {entries[id + 1].path : id \in ToSet(IdsOf(FrontArticles(archive)))}
                            = {e.path : e \in {f \in ToSet(entries) : f.front}}
    /\ \A list \in {EntriesErr(archive), EntriesByPathErr(archive)} :
         unparsable # {} <=> Missing \in ToSet(list)
    /\ Len(ForEachTitleKey(archive)) = Len(Names)
    /\ ForEachEntryRecord(archive) =
         Where([i \in 1 .. Len(entries) |-> i - 1], LAMBDA id : id \notin unparsable)

(* If VerifyAll finds nothing wrong then every entry reads back as it was  *)
(* added, although the entry tier stops at the first record that it cannot *)
(* read and says nothing of the entries behind it.                         *)
VerifiedReads ==
  phase = "open" /\ Fits /\ Verified(archive) =>
    \A id \in Ids : ~IsRedirectID(id) =>
      ReadContent(archive, EntryByID(archive, id)) = <<"added", id>>

(* A search shows title matches first; a smaller limit only cuts the list; *)
(* and with room for all, every match that can be read is shown once.      *)
SearchRanks ==
  phase = "open" /\ Fits =>
    LET content == {id \in Ids : ~IsRedirectID(id)}
    IN  \A titleIDs, bodyIDs \in SUBSET content :
          LET shown(limit) == SearchTwoTier(archive, titleIDs, bodyIDs, limit, FALSE)
              all == shown(Len(entries))
          IN  /\ ToSet(all) = (titleIDs \union bodyIDs) \ unparsable
              /\ Len(all) = Cardinality(ToSet(all))
              /\ \A i, j \in 1 .. Len(all) :
                   all[i] \notin titleIDs /\ all[j] \in titleIDs => j < i
              /\ \A limit \in 1 .. Len(entries) : IsPrefix(shown(limit), all)
=============================================================================
