----------------------------- MODULE MCOzaServe -----------------------------
(* Instances of OzaServe for TLC.  The first archive has titles with a small  *)
(* and a capital A, an empty one and one under "#"; a redirect to a redirect, *)
(* one to itself and one to a blob above the limit; an entry that cannot be   *)
(* read, and one behind a route; and entries with /, .. and . in their paths, *)
(* one of which leads to the other archive.  The third is a later build of    *)
(* the file, and so has its UUID.                                             *)
EXTENDS OzaServe

X == <<"x">>
X2 == <<"x", "2">>

At(stem, ext) == <<[stem |-> <<stem>>, ext |-> ext]>>

EntryOf(path, title, front, size, readable) ==
    [path |-> path, title |-> title, mime |-> IF size > 8 THEN "text" ELSE "html", front |-> front,
     size |-> size, readable |-> readable]

RedirectOf(path, title, target) == [path |-> path, title |-> title, target |-> target]

ArchiveA ==
    [uuid |-> 1, build |-> 1, title |-> 2, main |-> At("r", ""),
     entries |-> <<EntryOf(At("a", ".md"), 6501, TRUE, 1, TRUE),
                   EntryOf(At("a", ".html"), 9701, FALSE, 2, TRUE),
                   EntryOf(At("-", "") \o At("search", ""), 6601, TRUE, 1, FALSE),
                   EntryOf(At("big", ""), 0, FALSE, 9, TRUE),
                   EntryOf(At("b", ".html"), 6601, TRUE, 1, FALSE),
                   EntryOf(<<Empty>> \o At("b", ".html"), 6603, TRUE, 8, TRUE),
                   EntryOf(<<DotDot, [stem |-> X2, ext |-> ""]>> \o At("a", ".md"), 6603, FALSE, 1, TRUE)>>,
     redirects |-> <<RedirectOf(At("r", ""), 6502, RedirectBit + 1),
                     RedirectOf(At("s", ""), 9702, 0),
                     RedirectOf(At("l", ""), 6602, RedirectBit + 2),
                     RedirectOf(At("t", ""), 3501, 3),
                     RedirectOf(At("u", "") \o <<Dot, Empty>>, 3502, 5)>>,
     hits |-> [q \in {"q"} |-> <<0, 6, RedirectBit, 4, 1>>]]

ArchiveB ==
    [uuid |-> 2, build |-> 2, title |-> 1, main |-> NoPath,
     entries |-> <<EntryOf(At("a", ".md"), 6501, FALSE, 1, TRUE)>>,
     redirects |-> <<>>, hits |-> <<>>]

ArchiveC ==
    [uuid |-> 1, build |-> 3, title |-> 2, main |-> At("a", ".html"),
     entries |-> <<EntryOf(At("a", ".html"), 6501, TRUE, 1, TRUE),
                   EntryOf(At("c", ""), 6701, TRUE, 1, TRUE)>>,
     redirects |-> <<>>, hits |-> [q \in {"q"} |-> <<1>>]]

File(name, arch) == [name |-> name, arch |-> arch]

Shelf1 == [mode |-> "http", positional |-> <<1>>, dirs |-> {{1, 2}, {2, 3}},
           file |-> <<File(<<"x">>, ArchiveA), File(X2, ArchiveB), File(<<"y">>, Bad)>>]

Shelf2 == [mode |-> "both", positional |-> <<>>, dirs |-> {{1, 2}},
           file |-> <<File(<<"x", "2025">>, ArchiveC), File(<<"x", "2026">>, ArchiveA)>>]

Shelf3 == [mode |-> "mcp", positional |-> <<1, 2>>, dirs |-> {},
           file |-> <<File(<<"x">>, ArchiveA), File(<<"z">>, ArchiveB)>>]

Shelf4 == [mode |-> "mcp", positional |-> <<1, 2, 3>>, dirs |-> {},
           file |-> <<File(<<"x">>, ArchiveA), File(<<"y">>, Bad), File(<<"z">>, ArchiveC)>>]

Shelf5 == [mode |-> "http", positional |-> <<2>>, dirs |-> {{1}},
           file |-> <<File(<<"x">>, ArchiveA), File(<<"y">>, Bad)>>]

Shelf6 == [mode |-> "http", positional |-> <<1>>, dirs |-> {},
           file |-> <<File(<<"x">>, ArchiveB)>>]

MCShelves == <<Shelf1, Shelf2, Shelf3, Shelf4, Shelf5, Shelf6>>

Asks(op, slug, more) ==
    more @@ [op |-> op, slug |-> slug, q |-> "q", limit |-> 0, letter |-> NoLetter,
             offset |-> 0, path |-> NoPath, match |-> <<>>, id |-> -1, max |-> 0,
             section |-> FALSE]
Page(path) == Asks("content", X, [path |-> path])

MCHttpRequests ==
    {Page(At("a", "")), Page(At("a", ".html")), Page(At("b", ".html")), Page(At("r", "")),
     Page(At("l", "")), Page(At("c", ".md")), Page(NoPath),
     Asks("searchAll", <<>>, [limit |-> 0]), Asks("searchJSON", X, [limit |-> 0]),
     Asks("searchPage", X, [limit |-> 1]), Asks("random", X, [limit |-> 0]),
     Asks("randomAll", <<>>, [limit |-> 0]), Asks("random", <<"w">>, [limit |-> 0]),
     Asks("browse", X, [letter |-> 65, limit |-> 3]),
     Asks("browse", X, [letter |-> 66, limit |-> 1]),
     Asks("browse", X, [letter |-> Hash, limit |-> 2])}

MCCalls ==
    {Asks("list_archives", <<>>, [limit |-> 0]), Asks("search_text", <<>>, [limit |-> 0]),
     Asks("search_text", X, [limit |-> 1]), Asks("get_entry_info", X, [id |-> IDSpace + 1]),
     Asks("get_entry_info", <<"w">>, [id |-> 1]), Asks("browse_titles", X, [offset |-> 1]),
     Asks("get_random", <<>>, [limit |-> 0]), Asks("get_archive_stats", X, [limit |-> 0]),
     Asks("read_entry", X, [path |-> At("big", "")]),
     Asks("read_entry", X, [id |-> RedirectBit + 3]),
     Asks("read_entry", X, [id |-> 3, max |-> 5]), Asks("read_entry", X, [id |-> 3, max |-> -1]),
     Asks("read_entry", X, [id |-> 3, section |-> TRUE]),
     Asks("read_entry", X, [id |-> 5, section |-> TRUE]),
     Asks("entry_resource", X, [id |-> 3]), Asks("entry_resource", X, [id |-> IDSpace])}

(* The session on standard input is one client; it also asks for a page.      *)
MCRequests == [c \in Client |-> IF c = Browser THEN MCHttpRequests
                                ELSE MCCalls \cup {Page(At("a", ".html"))}]
MCSlugSuffix == <<"2", "3", "4", "5">>
MCDateLike == {"2025", "2026"}
=============================================================================
