------------------------------ MODULE McpTools ------------------------------
(****************************************************************************)
(* The MCP tools and resources of cmd/internal/mcptools, which ozamcp and   *)
(* ozaserve --mcp register: what each call answers, given the library       *)
(* (lib.slugs in order, lib.archives by slug).  A call is a record: the     *)
(* tool, the archive's slug (<<>> for all) and the tool's own arguments; an *)
(* answer is an error, or what the texts are made from.                     *)
(****************************************************************************)
EXTENDS Shelf

CONSTANTS
    MaxReadContentSize,  \* 10 MiB
    BrowseLimit          \* titles of a page at most, 200; 50 if none is asked for

ToolError(why) == [status |-> "error", why |-> why]

Known(lib, call) == call.slug \in DOMAIN lib.archives
Arch(lib, slug) == lib.archives[slug].arch

(* The archives a call is about, in the library's order. *)
Targets(lib, call) == IF call.slug = <<>> THEN lib.slugs ELSE <<call.slug>>

(* The conversion to uint32: the JSON integer loses its upper bits.           *)
ToUint32(n) == n % IDSpace

(* The entry a call names, by ID if it has one, else by path.                *)
NamedEntry(lib, call) ==
    CASE call.id # -1 -> EntryByID(Arch(lib, call.slug), ToUint32(call.id))
      [] call.id = -1 /\ call.path # NoPath -> EntryByPath(Arch(lib, call.slug), call.path)
      [] OTHER -> NoEntry

list_archives(lib) ==
    [status |-> "ok",
     list |-> [i \in DOMAIN lib.slugs |->
             [slug |-> lib.slugs[i], count |-> Len(Arch(lib, lib.slugs[i]).entries),
              search |-> HasSearch(Arch(lib, lib.slugs[i]))]]]

(* Each archive gives up to limit hits; the first limit of all are kept.     *)
search_text(lib, call) ==
    LET limit == IF call.limit <= 0 THEN DefaultLimit ELSE call.limit
        hits(slug) == LET ids == Search(Arch(lib, slug), call.q, limit)
                      IN  [i \in DOMAIN ids |-> <<slug, ids[i]>>]
        all == FlattenSeq([i \in DOMAIN Targets(lib, call) |-> hits(Targets(lib, call)[i])])
    IN  IF call.q = "" THEN ToolError("query")
        ELSE IF call.slug # <<>> /\ ~Known(lib, call) THEN ToolError("archive")
        ELSE [status |-> "ok", hits |-> SubSeq(all, 1, Min({limit, Len(all)}))]

get_entry_info(lib, call) ==
    IF ~Known(lib, call) THEN ToolError("archive")
    ELSE IF ~NamedEntry(lib, call).ok THEN ToolError("entry")
    ELSE LET e == NamedEntry(lib, call)
         IN  [status |-> "ok", id |-> e.id, path |-> e.path,
              size |-> Size(Arch(lib, call.slug), e.id)]

browse_titles(lib, call) ==
    LET limit == IF call.limit <= 0 THEN 50 ELSE call.limit
    IN  IF ~Known(lib, call) THEN ToolError("archive")
        ELSE [status |-> "ok",
              ids |-> BrowseTitles(Arch(lib, call.slug), call.offset, Min({limit, BrowseLimit})),
              total |-> Cardinality(IDs(Arch(lib, call.slug)))]

(* One of the front articles of all the targets: an archive's chance grows *)
(* with its articles.                                                      *)
RandomPool(lib, call) ==
    UNION {{<<slug, id>> : id \in CollectFrontArticleIDs(Arch(lib, slug))} :
              slug \in Range(Targets(lib, call))}

get_random(lib, call) ==
    IF call.slug # <<>> /\ ~Known(lib, call) THEN {ToolError("archive")}
    ELSE IF RandomPool(lib, call) = {} THEN {[status |-> "ok", pick |-> <<>>]}
    ELSE {[status |-> "ok", pick |-> p] : p \in RandomPool(lib, call)}

(* Entries and bytes by MIME type; redirects have records of their own and *)
(* are not among them.                                                     *)
get_archive_stats(lib, call) ==
    IF ~Known(lib, call) THEN ToolError("archive")
    ELSE LET es == Arch(lib, call.slug).entries
             of(m) == {i \in DOMAIN es : es[i].mime = m}
         IN  [status |-> "ok",
              mimes |-> [m \in {es[i].mime : i \in DOMAIN es} |->
                      [count |-> Cardinality(of(m)),
                       bytes |-> MapThenSumSet(LAMBDA i : es[i].size, of(m))]],
              redirects |-> Len(Arch(lib, call.slug).redirects)]

(* The type of a content, body naming the entry that has it. *)
IsHTML(a, body) == a.entries[body[2] + 1].mime = "html"

(* The text of an entry, cut to a length if that is positive, and to a section *)
(* if it has sections.                                                         *)
Text(a, body, call) ==
    [status |-> "ok", body |-> body,
     cut |-> call.max > 0 \/ (call.section /\ IsHTML(a, body))]

(* Mutant: no size is refused. *)
Mutread_entry(lib, call) ==
    LET a == Arch(lib, call.slug)
        e == NamedEntry(lib, call)
        content == ReadContent(a, e.id)
    IN  IF ~Known(lib, call) THEN {ToolError("archive")}
        ELSE IF ~e.ok THEN {ToolError("entry")}
        ELSE IF ~content.ok THEN {ToolError("content")}
        ELSE {Text(a, content.body, call)}

(* The content of an entry.  A large one is refused unless the caller sets a *)
(* length other than 0 or names a section; the size looked at is the entry's *)
(* own.  A section is looked for in HTML only, and may not be there.         *)
read_entry(lib, call) ==
    LET a == Arch(lib, call.slug)
        e == NamedEntry(lib, call)
        content == ReadContent(a, e.id)
    IN  IF ~Known(lib, call) THEN {ToolError("archive")}
        ELSE IF ~e.ok THEN {ToolError("entry")}
        ELSE IF Size(a, e.id) > MaxReadContentSize /\ call.max = 0 /\ ~call.section
             THEN {ToolError("size")}
        ELSE IF ~content.ok THEN {ToolError("content")}
        ELSE IF call.section /\ IsHTML(a, content.body)
             THEN {ToolError("section"), Text(a, content.body, call)}
        ELSE {Text(a, content.body, call)}

(* The resource oza://{slug}/entry/{id}: the ID is parsed as 32 bits, and *)
(* there is no way to ask for a part.                                     *)
EntryResource(lib, call) ==
    IF call.id \notin 0 .. IDSpace - 1 THEN {ToolError("uri")}
    ELSE read_entry(lib, [call EXCEPT !.max = 0, !.section = FALSE])

(* All the answers a call may get. *)
Answers(lib, call) ==
    CASE call.op = "list_archives" -> {list_archives(lib)}
      [] call.op = "search_text" -> {search_text(lib, call)}
      [] call.op = "get_entry_info" -> {get_entry_info(lib, call)}
      [] call.op = "browse_titles" -> {browse_titles(lib, call)}
      [] call.op = "get_random" -> get_random(lib, call)
      [] call.op = "get_archive_stats" -> {get_archive_stats(lib, call)}
      [] call.op = "read_entry" -> read_entry(lib, call)
      [] call.op = "entry_resource" -> EntryResource(lib, call)

=============================================================================
