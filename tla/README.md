# OZA in TLA+

Specifications of the OZA archive code: the writer (`ozawrite/`), the reader
(`oza/`), the ZIM converter (`cmd/zim2oza`) and the servers (`cmd/ozaserve`,
`cmd/ozamcp`). The modules are translated from the Go source; TLC checks them on
small instances and TLAPS proves the main results for all values of the constants.
File and line numbers below are relative to `src/`. `PROJECT.json` has the line
ranges behind every definition, the runs, the deliberate bugs ("mutants") that each
property must catch, the hazards and the findings.

## The system

OZA is an archive format for offline content. A converter reads some source (a
ZIM file, an EPUB, a web site) and feeds a `Writer`; programs open the result as
an `Archive`.

| component | state | operations | interacts with |
|---|---|---|---|
| writer front end (`ozawrite/writer.go`, `pipeline.go`, `chunk.go`, `dedup.go`) | entry records, dedup map, training buffer, open chunks by (MIME group, size bucket), next chunk ID, chunk descriptors, temp file | `AddEntry`, `Close`; inside: `addToChunk`, `trainAndFlushPending`, `flushChunk` | one caller; hands full chunks to the pipeline, or writes them itself |
| compression pipeline (`compress.go`, `pipeline.go:156-180`) | two channels, workers, the map of early results, the descriptors, the temp file | `compressionWorker`, closer goroutine, `chunkWriterLoop` | channels with the writer; `writerDone` for the verdict; `Close` reads its tables afterwards without a lock |
| archive file (`writer.go:569-757`, `assembly.go`, `signature.go`; `oza/header.go`, `section.go`, `archive.go:146-395`, `checksum.go`, `signature.go`) | the output file; header, section table, sections, file hash, signature trailer | the last steps of `Close`; `Open`, `Verify`, `VerifyAll`, `VerifySignatures` | the file is all that the two sides share |
| catalogue (`writer.go:350-450`, `assembly.go`, `index.go`, `strtable.go`; `oza/index.go`, `entry.go`, `iter.go`, `mime.go`, `metadata.go`, `archive.go`) | entry, redirect and MIME tables, metadata, path and title index | `AddEntry`, `AddRedirect`, `SetMetadata`, `Close`; lookups by path, title, ID; iteration; redirects; two-tier search | built by `Close`, immutable in the reader |
| chunk cache and decoders (`oza/chunk.go`, `oza/compress.go`) | LRU cache per archive; decoder pools per process, by dictionary ID | `readChunk`, `get`, `put`, `decodeZstdDict` | concurrent goroutines on several archives |
| search index (`ozawrite/search.go`, `oza/search.go`) | gram builder; table and posting lists; LRU cache of decoded lists | `IndexEntry`, `Build`; `Search`, `lookup` | bitmap objects shared by concurrent searches and the cache |
| zim2oza (`cmd/zim2oza/convert.go`) | plan, ID map, temp file of contents, worker pool with ordered output, redirect chains | `Run`, `addEntriesParallel`, `resolveChain` | a ZIM archive; the writer |
| servers (`cmd/ozaserve`, `cmd/ozamcp`, `cmd/internal/mcptools`) | the library of open archives, HTTP caches in browsers | loading, handlers, MCP tools, shutdown | the reader; `net/http`; clients |
| other converters and tools (`cmd/epub2oza`, `site2oza`, `ozainfo`, `ozacmp`, ...) | none beyond one pass | one-pass commands | writer or reader |

What is hard here, and what makes each part correct:

* **Pipeline.** Results arrive in any order and must reach the file in chunk-ID
  order, each once; a failing worker or write must leave nobody blocked; `Close`
  must wait for everything before it reads the tables. Correct: no chunk is lost
  or reordered, a nil verdict means a complete file, calls return.
* **Writer.** An entry's reference is fixed long before its chunk is stored, and
  passes through the training buffer, the dedup map, one of two flush paths and
  error paths that stop half-way and leave a chunk emptied but open. Correct: after
  any failed flushes, no entry reads another's bytes, and what was not lost reads
  back; equal contents are stored once.
* **File.** Offsets are computed before the writes, the header is written after
  the sections, hashes after the header, and nothing is synced. Correct: at no
  point of failure is there something that passes for a whole archive and is not.
* **Catalogue.** Block boundaries, prefix lengths, binary search, 8, 16 and 32-bit
  fields that wrap, redirects that nobody checks. Correct: what fits opens and every way
  to an entry finds it; redirects resolve or are reported; listings agree with
  each other; a damaged table is noticed or harmless.
* **Chunk cache.** The lock is not held while a chunk is read and decoded.
  Correct: map and list agree, the least recently used goes, nobody gets another
  chunk's bytes.
* **Search.** Same cache pattern, but with mutable objects that searches
  intersect into. Correct: results have all grams of the query, and what contains
  the query is found.
* **Converter.** IDs are planned before the contents are added, by a pool with
  ordered output; redirects are chains with cycles. Correct: the n-th ID is the
  n-th entry, each redirect ends where its chain does, the conversion ends and
  leaves no goroutine.
* **Servers.** Archives open concurrently and some fail; requests run while the
  process shuts down and unmaps the archives; browsers outlive processes; `net/http`
  cleans the paths that links are made of.
  Correct: each slug serves its archive, every answer belongs to the request, no
  handler reads a closed archive but after the deadline.

## Modules

| module | models | theorems in |
|---|---|---|
| `ChunkLog` | abstract: chunks come in any order and leave in ID order, an error stops the log, one verdict | |
| `CompressPipeline` | the pipeline, goroutine by goroutine | `CompressPipelineProofs` |
| `ChunkWriter` | the front end, with `ChunkLog` as its pipeline | `ChunkWriterProofs` |
| `ArchiveFile` | writing the output file, failures and crashes, what readers accept | `ArchiveFileProofs` |
| `NameIndex` | pure: the path and title index, serialised, decoded and searched | `CatalogueProofs` |
| `Catalogue` | the tables of an archive on both sides of the file, on top of `NameIndex` | `CatalogueProofs` |
| `ChunkReader` | chunk caches and decoder pools of a process | `ChunkReaderProofs` |
| `SearchIndex` | grams, pruning, concurrent searches and their cache | `SearchIndexProofs` |
| `ZimConvert` | the conversion of a ZIM archive, with its goroutines | `ZimConvertProofs` |
| `Shelf` | pure: an open archive as the servers use it, letters, slugs | `OzaServeProofs` |
| `McpTools` | pure: what each MCP tool answers | `OzaServeProofs` |
| `OzaServe` | ozaserve and ozamcp: loading, requests, shutdown, restart, on top of `McpTools` and `Shelf` | `OzaServeProofs` |

`MC<module>` gives the instances for TLC.

How the modules compose. `CompressPipeline` implements `ChunkLog` under a refinement
mapping (`ImplementsLog`). `ChunkWriter` does not contain goroutines: its parallel
path keeps a set of submitted chunks and takes the log's own steps, and `UsesLog`
states that all it does is what `ChunkLog` allows its user. So what is shown of the
writer holds with the real pipeline below it. `ChunkWriter` and `ArchiveFile` meet in
the temp file: `Readback` asks for `chunkOff = Len(tmp)` unless a write was torn
(`TornTmp`), and `ArchiveFile` shows what a longer temp file (`extra`) does to the
sections and which checks notice it. `Catalogue` takes the file layer as
given and contents as opaque; `ZimConvert` uses the writer as a list that entries
and redirects are appended to, which is what `Catalogue!AddEntry` and `AddRedirect`
are; its redirects then satisfy what `Catalogue!ResolveRight` asks for. `Shelf` has
the reader's methods by their answers (resolve, lookup, title index, search), which
are the answers that `Catalogue`'s properties establish.

### CompressPipeline

One action per step that other goroutines can see. The caller: `AddToNewChunk`,
`AddToOpenChunk` (`addToChunk`, a blob into a chunk), `Dispatch` (the blocking
send in `flushChunk`; its select looks for an early error), `CloseBegin`,
`CloseFlush`, `CloseSkip`, `CloseIn`, `AwaitWriter`. A worker: take a job,
compress, send, or exit when the channel is closed and empty. `CloseOut` is the
goroutine that waits for the workers. The writer goroutine: `Receive`,
`WriteChunk`, `WriteFails`, `WriterExit`. A chunk is its ID, a blob its size, 0
or 1: the sizes matter because a chunk of empty blobs only is skipped by `Close`.
Channels are bounded sequences of the real capacity (two per worker).

### ChunkWriter

Contents are byte sequences, so offsets and sizes are what they are in the code,
and `Reads` is the reader's slice of a chunk. `AddEntry` covers dedup hit,
training buffer and direct placement; `FlushStale` and `PlaceBlob` are
`addToChunk` for one entry of the call's work list, `Store` and `StoreFails` the two
outcomes of `flushChunk`, torn temp-file writes included, and `Abandon` how an error
ends the call. A failed flush leaves its chunk open, full and without its data
(`Emptied`), and later calls go on from there: `FlushStale` stores the empty chunk, a
duplicate of a lost blob still finds it in the dedup map (`Register`). The history
`lost` has the chunks that this happened to. A call runs to its end before the next
begins (the `Writer` is not for concurrent use). `faults` bounds failed flushes.

### ArchiveFile

The file maps offsets to cells; a cell is what one `Write` writes. `Close` is a
program counter over steps 13 to 21. Any write may fail, which ends `Close` with
an error and may leave a part of the cell, and the process may stop at any point;
with `MachineFails` a crash of the machine also loses any set of writes and any
tail of the file, because nothing is synced. `extra` is what torn writes have left in
the temp file beyond the descriptors; if there is chunk data, `Close` copies it too
(`Surplus`), and the sections behind CONTENT are pushed away from the offsets of their
descriptors. The data of CONTENT is then what the temp file has, torn cells and all:
what chunks read in it is nowhere claimed. `Opens`, `VerifyFile`,
`VerifySections`, `SignatureValid` are the reader's checks as predicates on a file. A
hash is what was hashed.

### NameIndex and Catalogue

`SerializeIndex` writes a section as a sequence of cells, one per field or literal
byte, with the restart points, the string table and the 8 and 16 bit fields that
wrap; `DecodeIndex` reads it back, and `SearchIndexFor` is the binary search over the
restart blocks followed by the scan. So a wrapped length makes the decoder lose its
place, as it does in the bytes. The MIME table and the metadata are written in the same
way (`Field`: a length that wraps, then the characters), the metadata in any order, as
Go's maps have none; a metadata key is a name with a spelling (`Chars`). `Catalogue`
fills the tables (`AddEntry`, `AddRedirect`, `SetMetadata`), `Close` validates the
metadata and writes the sections,
`Damage` makes some records unparsable and changes some blobs, and `Open` parses. The
reader's methods are operators on what `Open` loaded: lookups, `Resolve` with its
limit on hops, the iterators with and without errors, browse lists, `SearchTwoTier`,
`VerifyAll`'s entry tier. Widths are constants (`MIMELimit`, `StringLimit`,
`PrefixLimit`, ...), so that TLC reaches them.

### ChunkReader

`Hit`/`Get` and `Put` are the two locked parts of `readChunk`, `ReadFile`,
`DecodePlain`, `FindPool`, `DecodeDict` and `Fail` the unlocked ones. `pools` is a
variable of the process, not of an archive, as `dictPools` is in the code. Hit and
miss counters are left out.

### SearchIndex

`Scan` is the loop that builder and query share in shape (CJK characters give a
gram each and one with their neighbour, other runs three-byte windows); the two
differ in lower-casing (`LowerIndexed`, `LowerQueried`) and in that a query is cut
by plain windows if the section has no CJK flag. `LookupHit` and `Load` are the
locked parts of `lookup`. `bitmaps` is the heap of decoded lists; cache and
searches hold indices into it. `And` writes into the first one; `RacyAnd` is the
same step while another goroutine uses one of the bitmaps, and may leave anything.

### ZimConvert

`Run` is a program counter: `ScanAndPlan` (scan, cluster order, metadata and
`main_entry`, temp file), `ReadEntry` for each content, `SortAndNumber`, which fixes
the IDs, then `AddNext`, or the goroutines of `addEntriesParallel`: `Produce`, `Take`
and `Send` of each worker, `CloseResults`, `Receive` and `AddPending`; at last
`EntriesDone`, `AddRedirect`, `Finish`. Sorting is nondeterministic among equal keys, as
`sort.Slice` is. A read, a write to the temp file, an `AddEntry`, an `AddRedirect` or
`Close` may fail, at most `MaxFaults` times; the temp file is closed by the deferred
call while goroutines may still want it. The ZIM reader is external.

### Shelf, McpTools and OzaServe

An archive is a record of entries, redirects and search hits. Each handler and each
tool is an operator from the library and the request to the answer, a link being the
slug, the path and (as history) the entry it was made for. A path is the sequence of
the names between its slashes. What becomes of a link is three steps: `Url` puts the slug
before the path (`urlutil.go` escapes, which is undone on arrival, and changes nothing
else), `Cleaned` is what `ServeMux` and `http.Redirect` do to it (empty and `.` names go,
`..` takes the name before it along, a slash at the end stays), and `Fetch` is the route
that the result leads to, which may be in another archive. The client is taken to send
the link as it stands; browsers resolve `.` and `..` themselves, to the same effect.
`OzaServe` opens the
archives concurrently (`OpenFile`; ozamcp in sequence), builds the library, lets
requests begin and be answered (`Begin`, `Reply`), and ends: `Stop` (signal, end of
the MCP session), `ListenerFails`, `Deadline`, `CloseArchives`, `Exit`. `ReadClosed` is
a handler that reads an archive after it was unmapped. After `Restart` the process may
serve other files under the same slugs, and the browser still has its page and
ETag. `net/http` and the MCP library are external, taken by what `Shutdown` and `Run`
promise.

## Runs

| run | module | result |
|---|---|---|
| `Pipeline_safety` | CompressPipeline | holds: `TypeOK`, `NoChunkLost`, `NilMeansComplete`, `DescsFrozen`, `ImplementsLog` |
| `Pipeline_live` | CompressPipeline | holds: `CallsReturn`, `NoStall` |
| `Pipeline_hole` | CompressPipeline | **violated**: `CloseNilAllWritten` |
| `Writer_serial` | ChunkWriter | holds: `TypeOK`, `Readback`, `StoredOnce` |
| `Writer_pipelined` | ChunkWriter | holds: `Readback`, `UsesLog` |
| `Archive_crash` | ArchiveFile | holds: `HeaderMeansSections`, `VerifiedWhole`, `CloseNilGood`, `NothingOverwritten` |
| `Catalogue_lookup` | Catalogue | holds: `OpensWhatFits`, `LookupRight`, `ResolveRight`, `ListingsAgree`, `VerifiedReads`, `SearchRanks` |
| `Reader_safety` | ChunkReader | holds: `TypeOK`, `CacheAgrees`, `ReadsRight`, `KeepsRecent` |
| `Search_cache` | SearchIndex | holds: `CacheMapped`, `Sound`, `Found` |
| `Search_reuse` | SearchIndex | **violated**: `ReuseSafe` |
| `Zim_convert` | ZimConvert | holds: `AddedRight`, `RedirectsRight`, `MainEntryRight`, `QuietEnd`, `Finishes` |
| `Server_requests` | OzaServe | holds: `LoadRight`, `AnswersRight`, `PagesRight`, `DrainedOrLate`, `ToolsRight`, `Ends` |

What the properties say, in a line each: `NoChunkLost`, until an error every chunk
that was sent is somewhere; `NilMeansComplete`, after a nil verdict all chunks below
the first hole are written; `DescsFrozen`, the tables that `Close` reads do not
change; `Readback`, when `Close` returns nil every entry reads back its own content, or
its chunk's flush has failed and the reader refuses it, or it was never placed because of
such a failure and an error told so, and none reads another's bytes; `StoredOnce`, entries
of equal content share a blob, around failed flushes too; `HeaderMeansSections`, a file
with a header has all sections, whenever `Close` was stopped, but for those that a torn
temp-file write pushed away; `VerifiedWhole`, a file that a tier of verification
accepts has what that tier is about, whatever the disk lost; `CloseNilGood`, a file that
`Close` returned nil for passes the file hash and the signatures, and the section hashes
just if nothing was torn; `OpensWhatFits`, the reader opens what fits the widths and
limits and has no equal paths; `LookupRight`, every path and title leads to its
entry; `ResolveRight`, a redirect gives the end of its chain or an error;
`ListingsAgree`, pages and lists of a type show what can be read, each once, iterators
show none twice and stop where they cannot read, and the `Err` variants tell;
`VerifiedReads`, what `VerifyAll` accepts in every tier reads as it was added;
`SearchRanks`, title matches first, each once, within the limit; `CacheAgrees`,
`CacheMapped`, map and list of a cache describe each other; `ReadsRight`, a read gives the
right chunk, and an intact chunk fails only by another archive's dictionary pool;
`KeepsRecent`, eviction is by last use; `Sound`, `Found`, a search returns what has all
grams, and finds what contains the query; `AddedRight`, the entry of each planned ID
has its own path and bytes; `RedirectsRight`, `MainEntryRight`, redirects and main
entry lead to where the ZIM's lead; `QuietEnd`, no goroutine is left behind but after
a failed `AddEntry`; `LoadRight`, each slug serves one file that opened, and each file
that opened is served; `AnswersRight`, a link leads to the entry it was made for if the
mux leaves the paths on the way as they are, an entry whose path it changes is never what
its links show, and a cached page is confirmed only if it is what would be
sent, or the page of another build with the same UUID; `PagesRight`, the
pages of a letter, joined, are a run of the title index that starts at its first title
and has as many titles as the letter; `DrainedOrLate`, no handler reads a closed
archive but after the deadline or a failed listener; `ToolsRight`, MCP answers are about
the entry that was named and keep the limits, but for three doors; `CallsReturn`, `NoStall`, `Finishes`, `Ends` are liveness.

A violated property states what a comment or document of the repository says;
the trace is the behaviour of the code:

* A chunk of empty blobs only is skipped by `Close`, which leaves a hole in the
  IDs. On the parallel path `chunkWriterLoop` drops everything behind the hole
  and reports nil.
* A search changes the cached posting list it starts from; a later search misses
  entries.

Other disagreements between documents and code, or surprises, met on the way. They
are exceptions that the properties name, or details next to the models, and most have
a hazard entry:

* An error in the flush of the training buffer is kept in `pipelineErr`; with one
  compression worker nobody looks at it, and `Close` returns nil, although entries are
  missing. `flushChunk` leaves a full, empty chunk open after an error, which the next
  entry of its key stores under its ID: `Close` may return nil, and the reader refuses
  the entries of that chunk; a later duplicate of one of them shares the lost blob, and
  its `AddEntry` returns nil. A torn temp-file write moves every later section; `Close`
  returns nil, the file hash and the signatures accept the file, and the hash of
  CONTENT does not. `flushChunk`'s check for an early error never fires
  (`NoEarlyErrorEver`). The temp file stays when `Close` fails early, against
  OZAWRITE.md:285-286. Equal contents in the training buffer are stored twice.
* `Open` accepts archives that lack required sections (FORMAT.md:445-446) and
  signature trailers that are cut off; the entry tier of `VerifyAll` ends at the first
  record that does not parse; the lengths of index records, MIME names (`oza/mime.go:82`)
  and metadata keys (`oza/metadata.go:76`) and the MIME index wrap without an error.
* Two entries may have the same path: FORMAT.md:662-665 and 807-811 say that writers must
  not produce such archives and readers must reject them. `AddEntry`, `Close` and `Open`
  look for none, and lookups find one of the two. `OpensWhatFits` claims nothing of these
  archives.
* `AddRedirect` checks nothing and chains are not flattened (OZAWRITE.md:130-132,
  FORMAT.md:728-730).
* Two archives with different dictionaries of the same ID share a decoder pool: the
  second one's chunks fail. The encoders of `compressZstd` have the same key.
* A pruned gram ends a search (FORMAT.md:1072); the builder lower-cases ASCII only;
  concurrent misses store a gram twice.
* zim2oza: a failed `AddEntry` leaves goroutines blocked; results ahead of a slow
  cluster wait in an unbounded map; `main_entry` may name a page that could not be read;
  two ZIM paths in the namespaces `C` and `-` may become one OZA path.
* Servers: links to paths with empty, `.` or `..` names lead elsewhere, since they are only
  escaped and `net/http` cleans them: to a neighbour, another archive, a route or a 404;
  a redirect of the archive to a path that starts with `./` may be answered by a
  redirect to itself. `urlutil_test.go:18` has such a path. ozaserve.md:53 says that slugs
  are given in sorted path order; positional files come in the order of the command line.
  ozaserve.md:197 says that `/_random` is weighted by the number of front articles; it
  chooses an archive uniformly.
* Servers: `read_entry` bounds the size of the entry that was named, not of the one a
  redirect leads to; a negative `max_length` and a section of what is not HTML pass the
  check and bound nothing; an `entry_id` wraps to 32
  bits; letters list titles of mixed case in runs that are not contiguous; positional
  files and `--dir` are not deduplicated against each other; ozamcp leaves archives open
  when a file fails; the cache is an LRU where ozaserve.md says FIFO; responses are
  immutable for a year under slugs whose date was stripped, and an ETag is made of
  the UUID that all builds of one source and language share, by design (FORMAT.md:393-396),
  so that a page a newer build has changed is confirmed as unchanged (ozaserve.md:130-134
  takes content under an ETag to be immutable); a handler that outlives
  the deadline of `Shutdown` reads unmapped memory.

### Bounds

| run | bounds | why they are enough |
|---|---|---|
| `Pipeline_safety`, `_hole` | 2 workers, 2 keys, 5 chunks, target size 2 | five chunks are more than a channel's four slots, so senders block; two keys make chunks open out of order and leave several for `Close`; two workers overtake each other; two writes fill a chunk, so chunks may also stay empty |
| `Pipeline_live` | 2 workers, 1 key, 5 chunks of one blob | liveness without symmetry is costly; one key keeps blocking, overtaking and early results, and holes still come from empty blobs |
| `Writer_*` | 2 MIME groups, 2 byte values, contents of 0 to 2 bytes, 4 or 5 entries, up to 2 failed flushes | empty, small and large contents, exact fill and overfill of a chunk, duplicates before, in and after the training buffer, a second failure on the chunk that a first has left |
| `Archive_crash` | 3 sections with CONTENT in second place, up to 2 cells of chunk data and one of surplus, signed | a section before and one after the streamed one; with and without chunk data, with and without a torn write before |
| `Catalogue_lookup` | 4 entries and redirects out of 8 kinds, 14 metadata calls, blocks of 2, small widths | keys first, last and between in several blocks; tokens in and out of the string table; a prefix, a token count, a MIME index, the length of a MIME name and that of a metadata key that wrap, metadata in two orders; redirects to entries, redirects, themselves and nothing; equal titles and paths |
| `Reader_safety` | 2 archives, 2 goroutines, 4 chunks (with a dictionary, without, one oversized), caches of 2, 5 reads | eviction with both goroutines between miss and put, in one archive or two |
| `Search_*` | 3 entries, two corpora, 6 queries, cache of 2, 3 searches (2 goroutines, or 1 for `Search_reuse`) | overlapping posting lists, duplicate cache elements and their eviction, pruned and missing grams, CJK next to Latin text |
| `Zim_convert` | two ZIMs of 5 entries for the pool (2 workers, channels of 1, one failing call), and every way three redirects among 7 entries can point | orders by index, cluster and chunk key all differ; both workers overtake each other with the channels full; chains, circles, breaks, targets that are left out or unreadable |
| `Server_requests` | 6 command lines, 3 archives, 2 clients, 32 requests, one restart | equal and colliding slugs, an archive that fails, both modes of ozaserve and ozamcp, a browser that comes back to another build with the same UUID, or to another archive; entries whose paths begin with a slash or hold `.` or `..`, one of which leads into the other archive; every handler and tool with hits, misses, limits and broken redirects |

Symmetry is used for interchangeable workers, keys and goroutines, in runs without
liveness only. `MaxChunks`, `MaxEntries`, `MaxFaults`, `MaxReads`, `MaxSearches`,
`MaxNames` and `MaxRestarts` are the bounds on counters; each is a guard of the action
that counts. The constraint `TablesOrMetadata` of `Catalogue_lookup` keeps the metadata
apart from the tables: validation of metadata does not look at entries, so all
metadata is explored with at most one name, and all tables with one complete set of
metadata.

`CHECK_DEADLOCK FALSE` is in `Pipeline_live`, where the goroutines are gone after
`Close`, in `Catalogue_lookup`, where an archive that does not close or open is the
end, in `Zim_convert`, where a conversion ends and a failed one leaves goroutines
blocked (what may be left is what `QuietEnd` says), and in `Server_requests`, where the
process exits. In the other runs a `Terminated` disjunct stands for the regular end, so
that any other stop is reported as a deadlock.

### Fairness

`CompressPipeline!Fairness` is weak fairness of each goroutine: the caller inside a
call (`Dispatch`; the steps of `Close`), each worker, the closer, the writer
goroutine. The Go scheduler does not starve a runnable goroutine, and one that is
blocked on a channel runs again when the channel is ready: a step that stays
enabled is taken. That is weak fairness, and it suffices: workers compete for jobs
and results, but whichever of them wins, the chunk goes on. Nothing obliges the user
to make a call: `NoStall` holds without `Close`.

`ZimConvert!Spec` assumes the same of the converter, the producer, each worker and the
goroutine that closes the results; nothing of failures. `OzaServe!Spec` assumes that
archives are opened, that the library is built, that the timer of `Shutdown` goes off
and that main goes on when it can. Nothing is assumed of handlers, clients, signals or
the listener: `Ends` holds with a client that never takes its answer.
No other module claims liveness: the remaining code is calls without waiting.

## Proofs

All theorems hold for every value of the constants under the module's named
assumptions (`PipelineAssumption`, `WriterAssumption`, `ReaderAssumption`,
`FileAssumption`, `OzaServeAssumption`, `SearchAssumption`, `NameIndexAssumption`,
`CatalogueAssumption`, `StringsAssumption`, `ZimConvertAssumption`), which say no more than the
types of the options, at least two workers where a pipeline exists, a positive chunk
size, a positive cache capacity, a CONTENT section among the sections, fields that hold
something and hold the reader's largest metadata value (32 bits hold 16 MiB), and prefixes
no wider than lengths (both are 16 bits). `CharsAssumption`: different metadata keys are
spelled differently. `ShufflesAssumption`: an order of a map's keys has each once.
`RecordsAssumption`
and `JobsAssumption` type the inputs: the arguments of the writer's calls, the ZIM files
and options of a conversion. `TypesAssumption` says that the three standard MIME types
differ; they are literals in the code.
Of the servers three more. `ShelvesAssumption`: files have names, what opens is a whole
archive (its IDs fit their 32 bits, the index finds its own entries, an empty query
finds nothing), and two entries of an archive have different paths; `build` tells
archives apart. (The writer does not refuse a path that is there already; what lookups
then do is in `Catalogue`, and a link of the servers may lead to the other of the two.)
`SuffixAssumption`: there are enough different suffixes `2, 3, 4, ...` for the files.
`RequestsAssumption`: the parsed requests have their types, a page has a size, as
`handleBrowse` sees to, and the path of a request is a clean one when `handleContent`
gets it, as `ServeMux` sees to.
`SearchAssumption` also says that lowercasing as the builder does it, ASCII only,
makes no character CJK and no CJK character another (`ozawrite/search.go:80-87`).

**Pipeline.** The invariant grows in layers, each with its own induction.
`TypeOK`; `Shutdown`, the order in which goroutines end (job channel closed, workers
gone, result channel closed, verdict); `Placed`, what is written is 0, 1, 2, ... and
all that is anywhere was sent; `Accounted`, until an error all that was sent is
somewhere; `Unsent` and `Once`, no chunk is in two places. `NoEarlyErrorEver` and
`DescsFrozenAfterClose` follow from `Shutdown`, `WrittenInOrderAlways` from `Placed`,
`NoChunkLostEver` from `Placed` and `Accounted`, and `NilMeansCompleteAlways` needs
`Shutdown` as well: the loop leaves only when its input is closed and nothing
pending is next in line. `PipelineImplementsLog` is a step simulation: each action is
a `ChunkLog` step or a stutter under the mapping; `Once` gives that what fails or
is submitted is not in the log already. `NilMeansComplete` is not inductive: it
speaks of the end only, and says nothing of where chunks are before.

**Writer.** Types and `Placing`; `Ids`, every chunk ID below `nextChunk` has exactly
one place among open, in flight, written and skipped; `Mode` and `Control`, which path
and which phase; then `DataOK`: unless a chunk was skipped, a write torn or `Close` has
failed (`Healthy`), the temp file agrees with its descriptors, a lost chunk has no data
wherever it is, and every placed entry's reference finds its content in whatever place
its chunk is (`Held`) or names a lost chunk (`Kept`). The point of the
strengthening is that a reference must stay good while its chunk moves from open to
in flight to the file, that a chunk that is emptied stays full, so that no new blob gets
an offset in it, and that the dedup map, which hands out old references, has to
satisfy the same. `ReadbackAlways` is `DataOK` at the end, where a reference into an empty
chunk is one that the reader refuses. `StoredOnceStreaming` needs `OnceOK` instead:
without a training buffer an entry that is placed has the reference that the dedup map
holds for its content, and a failed flush takes nothing out of the map. `WriterUsesLog` is the simulation of
`ChunkLog`; `Counted` bounds the chunk IDs by the entries placed, so that they stay
within the log's.

**File.** `IInv` says of every cell of the file, whatever was torn or lost, that it is
where its kind belongs and that a hash is the hash of a complete file (`Cells`); how
far `Close` is and what it has written in front of it (`Progress`); which sections are
whole (`Wholes`); and what there is when it returns nil (`Nil`). `Layout` and
`NextStart` do the arithmetic of the offsets once, with the surplus of the temp file: what
is written follows the file's end, what is described follows the descriptors, and up to
CONTENT the two are the same. `HeaderMeansSectionsAlways` is not
inductive because it says nothing of a file without a header: `Progress` and `Wholes` say
what will be there when the header comes. `VerifiedWholeAlways` needs only `Cells`, which
losing writes keeps; `NothingOverwrittenAlways` needs `Progress`: the offset of each write
is the end of the file, or has a zero.

**Reader.** `IInv` is `Caches` (each list has no duplicates, has the keys of its map,
is within the capacity, is ordered by last use, and everything not in it was used
before everything in it) and `Calls` (who has decoded something holds the right
chunk); `PoolsOK` adds that a pool has the dictionary of some archive, which gives the
only reason for which an intact chunk may fail. `CacheAgrees`, `ReadsRight` and
`KeepsRecent` follow.

**Server.** `ServerInv` has three layers. `IInv`: archives are closed only when the
requests are over, the deadline has passed or the listener has failed (`DrainInv`), and
an MCP call runs only while the process serves, as `Stop` waits for it (`McpInv`).
`LoadInv`: each file is found bad exactly if it is, and the library has every good file
in its place (`LibraryOK`). `AnswerInv`: the last answer is one that its request may get
from the library still there; the properties speak of the last answer, and an answer
outlives neither its library nor a restart. `ServerInvAlways` is the induction, and the
rest follows from it:

* `DrainedOrLateAlways` speaks of the last step only, when a handler has read what was
  closed. It needs `IInv` alone.
* `LoadRightAlways`: slugs are given one after the other, each the first that none before
  has, so no two files share one (`SlugsDiffer`), and the map of archives has as many as
  there were good files. An archive is in its place whichever way equal titles are sorted.
* `PagesRightAlways`: the run of a letter is `Spots`, the places of its titles; a page is a
  piece of the title index (`PageIs`), and the pages are joined by an induction over the
  offset, downwards, each beginning where the one before ends.
* `ToolsRightAlways`: a search that fills up archive by archive is the first `n` of all
  hits joined (`FirstOf` of a join, by induction over the archives); a number is cut to
  32 bits by `ToUint32`, which is why the property names an entry modulo 2^32; and a
  blob above the limit is answered whole only where the check of its size is passed by a
  length or a section that then cuts nothing, or where the size is that of a redirect.
* `AnswersRightAlways`: a walk that has not ended has visited a new entry with each hop,
  so it ends within as many hops as there are entries (`ResolveEnds`), and what it
  ends in is no redirect. `Cleaned` is a fold over the names of a URL: by induction over
  them, what it gives is clean, and a clean URL stays as it is (`CleanedIsClean`,
  `CleanStays`); so is every path that the fallbacks try for a clean one
  (`WithExtClean`). A link with a clean path therefore arrives as it was made, and leads to
  its entry because a path has one entry; and whatever is found for any link is at a
  clean path, so never an entry with another (`LinksLand`). For pages confirmed as unchanged another invariant,
  `BrowserInv`: what the browser keeps is the page, at the path its ETag names, of an
  archive with the UUID its ETag names, which may be long gone, and it asks with
  that ETag only. It is proved on top of `ServerInv`.

The proofs changed the model where it could not be reasoned about: `Resolve` is a
function of the number of hops instead of the set of the visited, `CollectOZAPaths` is the
increasing sequence of the files, the suffixes of slugs are the constant `SlugSuffix`,
and the answers of tools are written as records. And once where the property was wrong
for values TLC does not try: `ToolsRight` allowed an `entry_id` to be too large by 2^32,
but by no other multiple; and the links of an entry whose path is empty lead to
the main page, as a path that is a route leads to the route. The assumption on UUIDs that
`AnswersRight` seemed to need, that two builds have different ones, is not what the
writer does (`ozawrite/writer.go:630-636`): archives have a UUID and a build since, and
the property has the exception that the code has.

**Search.** `IInv` says that nothing changes the texts and the table (`Fixed`), that the
heap holds sets of documents (`Bitmaps`), that each gram of the map has its element in
the list, within its capacity (`Cache`), where each call is (`Calls`), and
`SoundSoFar`: without a race, every cached bitmap is within the posting list of its
gram, and for each gram of its query a search has yet to look it up or goes on with a
bitmap within its posting list.
`SoundAlways` speaks of results only; the strengthening is needed because `And` writes
into a bitmap that the cache and other searches hold: without a race bitmaps only lose
entries, so what was below a posting list stays below. `OrderFacts` says that sorting
keeps all bitmaps. `CacheMappedAlways` follows from `Cache`: a goroutine that stores a
gram again leaves an element that the map does not lead to, and whose eviction takes
the gram's new entry out of the map, but never the reverse.
`FoundAlways` is two arguments. One is about the loops that cut texts: while
`emitGrams` goes over a text and `cjkQueryGrams` over a part of it, the loop of the part
stays behind that of the text (its grams are among the other's, its run of bytes is the
end of the other's, and where a character precedes, it is the same), so that every gram of
a query is a gram of a text that contains it (`PartGrams`), with the section's flag and
without. The other is an invariant, `WholeSoFar`: a search that took whole lists holds
only bitmaps with all the entries that match its query, whichever order they are
intersected in.

**Converter.** `IInv` says that the plan is what the scan found, in some cluster order
(`PlanInv`); that what has been read is in the temp file where its record says, and has
the ID of its place once it is sorted (`BufferInv`); that a work item and a result,
in whichever channel, worker or pending map, have the bytes of their index (`HandsInv`);
in which order the goroutines end (`ShutInv`); that what has been added is the right
entry for each place so far (`EntriesInv`); that an index is in one place only and still
to be added (`OnceInv`), and in some place unless an `AddEntry` has failed
(`Accounted`). The last two are why the consumer never waits for a result that cannot
come: when the results end, every index that was sent is below `nextIdx`, which gives
`QuietEnd`, and that a success has added all of them, which `AddedRight` needs.
`RedirectsRight` adds `LinkInv`: the redirects added so far are those
of the plan whose chain ends in an entry. What a chain ends in is an induction over its
length (`resolveChain` is a recursive function of the set of the entries it has seen);
the induction is by the least counterexample (`WFMin` of the library, on sets of
numbers), since a theorem that takes an operator cannot be instantiated here.

**Catalogue.** The state changes little, so the inductive invariant is short: the types
(`TypeInv`), a closed file is `FileOf` the calls that were made (`FileInv`), and an open
archive is `LoadOf` that file (`OpenInv`). The work is in what these operators compute,
for any number of names. It goes in this order:

* *Tools.* What a recursive function computes follows from `Recursion` (such a function
  exists) and `NatSetInduction`, both on sets instead of operators. `OrderExists` shows
  that a finite set has an enumeration in a total order, so that `Sorted` is one
  whatever it sorts; `FlattenJoins` is what flattening does, element by element.
* *The index.* `TokenizeRight`, the tokens of a key make the key again; `TableRight`, the
  string table never reaches the index that means "no entry"; one record is read back,
  at a restart or after its predecessor; and `DecodeIndexRight`, a whole section is
  read back as it was written, as long as its keys fit their fields.
* *The search.* `SearchFinds`: the restart blocks are in order, so the binary search names
  the only block that can have the key, and the scan finds it there.
* *The MIME table and metadata.* `ReadFieldsRight`: fields whose lengths have not wrapped
  are read back one after the other, by induction over the fields (`FieldStep` reads one
  from wherever the last has ended), whichever order the metadata is in.
* *The archive.* `OpensWhatFitsAlways` and `Opened`, what is in an archive in terms of
  the calls that were made; from it each of the properties. `LookupRightAlways` uses the
  search; `ResolveRightAlways` is an induction over the hops, which stay within the least
  closed set, and a loop shows by a redirect that was visited before;
  `VerifiedReadsAlways`, that the entry tier saw every record; `SearchRanksAlways` and
  `ListingsAgreeAlways`, that filtering, cutting and paging a sequence
  without duplicates keeps each element once: the pages of `BrowseTitles` are joined by
  an induction over the page number, each beginning where the one before it ends.

An index is searched in the model's order of the keys, which `Before` states as Go
compares strings. Two places of the model changed because the proof did not go through:
the string table is cut at 65534 entries as `strtable.go:70` does it, and the two widths
are related.

Only model-checked is liveness (`CallsReturn`, `NoStall`, `Finishes`, `Ends`), which is
out of the prover's reach; every other property of a passing run is a theorem.
`StoredOnce` is proved for a writer without training, as it is stated. What the
`violation` runs show are counterexamples and need no proof.

## Not modelled

* Bytes of the format beyond the indices (varints, record layouts, section codecs): no
  behaviour but parsing; damage is a record that does not parse.
* Codecs, roaring bitmaps, BLAKE3, Ed25519, mmap: libraries, taken by what the
  code uses of them. Hashes are collision-free. (When mmap is not possible, `io.go`
  reads the file through a handle that is closed: not modelled.)
* Content transformations (`minify.go`, `transcode.go`, `optimize_image.go`): functions
  of one content, before deduplication.
* Dictionary training itself: only that it happens once, and what is waiting then.
* `epub2oza` and `site2oza`: sequential conversions of parsed documents, whose work is
  HTML and XML. Their path collisions (two sources that become one path) are what
  `Catalogue` shows of equal paths.
* `ozainfo`, `ozacat`, `ozacmp`, `ozasearch`, `ozaverify`, `ozakeygen`: one pass over the reader.
* Pages and their layout, `info.go` of ozaserve; logging, progress, statistics.
* The limit of `TrigramIndex.Search`, which `Archive.Search` does not use; sections
  that do not decode.
