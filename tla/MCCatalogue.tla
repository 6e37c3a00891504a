----------------------------- MODULE MCCatalogue -----------------------------
(* Instances of Catalogue for TLC.  Characters: 0 is '/', 9 a space.  Blocks  *)
(* hold two records, so that keys lie at the ends, in the middle and beyond   *)
(* of several blocks; a token that occurs twice is in the string table.  The  *)
(* path a/bbb is longer than a prefix may be, the title "a b b" has a token   *)
(* more than is counted, two own types are one more than the table holds, and *)
(* the type long and the key source_url are too long for their length fields: *)
(* one is read back as png, the other makes the reader lose its place or find *)
(* the key title a second time.                                               *)
EXTENDS Catalogue

html == <<1>>
png == <<4>>
webp == <<5>>
long == <<4, 4, 4, 4, 4, 4, 4>>

MCStandardTypes == <<html, <<2>>, <<3>>>>

Content(path, title, mime, front) ==
  [path |-> path, title |-> title, mime |-> mime, front |-> front]

MCContentRecords ==
  {Content(<<1, 0, 2>>, <<1>>, html, TRUE),
   Content(<<1, 0, 3>>, <<1, 9, 2>>, png, FALSE),
   Content(<<1>>, <<1>>, webp, FALSE),
   Content(<<1, 0, 2, 2, 2>>, <<1, 9, 2, 9, 2>>, long, FALSE)}

Redirect(path, title, target) == [path |-> path, title |-> title, target |-> target]

(* To the first entry; to the first redirect, perhaps itself; to the second; *)
(* and to an entry that may not be there, from a path that may be taken.     *)
MCRedirectRecords ==
  {Redirect(<<1, 0, 4>>, <<1, 9, 3>>, 0),
   Redirect(<<1, 0, 2, 1>>, <<2>>, MakeRedirectID(0)),
   Redirect(<<3, 0>>, <<2, 9>>, MakeRedirectID(1)),
   Redirect(<<1, 0, 2>>, <<1>>, 2)}

MCDates == {<<5>>}
MCLanguages == {<<6>>}

MCMetadataCalls ==
  {"title", "creator", "source"} \X {<<1>>}
    \union {<<"title", <<9>>>>, <<"title", <<255>>>>, <<"title", <<1, 1, 1, 1>>>>,
            <<"date", <<5>>>>, <<"date", <<1>>>>, <<"date", <<>>>>,
            <<"language", <<6>>>>, <<"language", <<1>>>>,
            <<"main_entry", <<1, 0, 2>>>>, <<"license", <<>>>>,
            <<"source_url", <<1>>>>}

MCChars ==
  [title |-> <<1>>, creator |-> <<2>>, source |-> <<3>>, date |-> <<4>>, language |-> <<5>>,
   main_entry |-> <<6>>, license |-> <<7>>, source_url |-> <<1, 0, 0, 0, 0, 0, 0>>]

MCKeys ==
  <<"title", "creator", "source", "source_url", "date", "language", "main_entry", "license">>

(* One order or its reverse; it shows only where a length wraps.             *)
MCShuffles ==
  [S \in SUBSET ToSet(MCKeys) |->
     LET order == SelectSeq(MCKeys, LAMBDA k : k \in S)
     IN  {order} \union (IF "source_url" \in S THEN {Reverse(order)} ELSE {})]

Complete ==
  /\ DOMAIN meta = RequiredMetadataKeys
  /\ meta["title"] = <<1>> /\ meta["date"] = <<5>> /\ meta["language"] = <<6>>

(* Metadata is explored with at most one name, tables with good metadata.    *)
TablesOrMetadata ==
  Len(entries) + Len(redirects) <= 1 \/ (Complete /\ strict)
=============================================================================
