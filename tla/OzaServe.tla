------------------------------ MODULE OzaServe ------------------------------
(****************************************************************************)
(* ozaserve (and ozamcp, which is the same without HTTP): the archives are  *)
(* opened by concurrent goroutines, the library is built and never changes  *)
(* again, and the requests of the clients run concurrently on it until a    *)
(* signal, the end of the MCP session or an error of the listener ends the  *)
(* process.  It may be started again with other files.                      *)
(*                                                                          *)
(* A request has two steps: it comes in, and it is answered.  Between them  *)
(* the process may be shut down and the archives closed; a handler that     *)
(* then reads an archive reads unmapped memory.  net/http's Shutdown, which *)
(* stops new requests and waits for the running ones or its context, and    *)
(* mcp's Run, which returns when the session and its calls have ended, are  *)
(* external.  One client, the browser, remembers a page with its ETag.      *)
(****************************************************************************)
EXTENDS McpTools

CONSTANTS
    Shelves,       \* command lines by name: [positional, dirs, file, mode], see below
    Client, Browser,
    Requests,      \* client -> what it asks: HTTP requests and MCP calls
    PageLimit,     \* results of a search over HTTP: 20, 25 on the page
    SlugSuffix,    \* what is put behind a name that is taken: 2, 3, 4, ... as texts
    MaxRestarts

(* positional is a sequence of files, dirs a set of sets of files; file maps *)
(* a file, the rank of its path, to [name, arch], arch being Bad if it does  *)
(* not open.  mode is "http", "both" or "mcp" (ozamcp).                      *)
Bad == [uuid |-> 0]

Paths == [n \in DOMAIN Shelves |-> Shelves[n].positional \o CollectOZAPaths(Shelves[n].dirs)]

OzaServeAssumption ==
    /\ Browser \in Client
    /\ DefaultLimit \in Nat \ {0} /\ PageLimit \in Nat \ {0} /\ MaxRestarts \in Nat
    /\ RedirectBit \in Nat /\ IDSpace \in Nat \ {0} /\ BrowseLimit \in Nat \ {0}

ASSUME OzaServeAssumption

(* Files have names, and what opens is an archive whose paths are distinct;  *)
(* no two archives are the same build.                                       *)
AllArchives ==
    (UNION {{Shelves[n].file[f].arch : f \in DOMAIN Shelves[n].file} : n \in DOMAIN Shelves})
        \ {Bad}

ASSUME ShelvesAssumption ==
    /\ \A n \in DOMAIN Shelves :
          /\ DOMAIN Shelves[n].file \subseteq Nat
          /\ Shelves[n].positional \in Seq(DOMAIN Shelves[n].file)
          /\ IsFiniteSet(UNION Shelves[n].dirs) /\ UNION Shelves[n].dirs \subseteq DOMAIN Shelves[n].file
          /\ \A f \in DOMAIN Shelves[n].file : Shelves[n].file[f].name \in Seq(STRING) \ {<<>>}
    /\ \A a \in AllArchives :
          /\ WellFormed(a)
          /\ \A x, y \in IDs(a) : EntryByID(a, x).path = EntryByID(a, y).path => x = y
    /\ \A a, b \in AllArchives : a.build = b.build => a = b

(* There are as many suffixes as are needed. *)
ASSUME SuffixAssumption ==
    /\ \A n \in DOMAIN Shelves : Len(Paths[n]) <= Len(SlugSuffix)
    /\ SlugSuffix \in Seq(STRING)
    /\ \A i, j \in DOMAIN SlugSuffix : SlugSuffix[i] = SlugSuffix[j] => i = j

(* A request as its handler has it, parsed and its path cleaned. *)
ASSUME RequestsAssumption ==
    \A c \in Client : \A req \in Requests[c] :
        /\ req \in [op : STRING, slug : Seq(STRING), q : STRING, limit : Int, letter : Nat,
                    offset : Int, path : Path, match : {<<>>}, id : Int, max : Int,
                    section : BOOLEAN]
        /\ req.op = "browse" => req.limit > 0
        /\ req.op = "content" => IsClean(req.path)

VARIABLES
    shelf,      \* the name of this run's command line
    phase,      \* "loading", "serving", "draining", "closed", "exited", "failed"
    results,    \* by place in allPaths: "opening", "open", "bad"
    open,       \* the places whose archive is open
    lib,        \* the library: slugs in order; by slug the place it serves, what is loaded
    inflight,   \* Client -> the request being handled, or NoRequest
    answer,     \* the last answer: [client, req, reply]
    cached,     \* what the browser remembers: a page and its ETag
    late,       \* the deadline of Shutdown has passed
    broken,     \* the listener has failed
    faults,     \* a handler has read a closed archive
    restarts

vars == <<shelf, phase, results, open, lib, inflight, answer, cached, late,
          broken, faults, restarts>>

NoRequest == [op |-> "none"]
NoLibrary == [slugs |-> <<>>, place |-> <<>>, archives |-> <<>>]
NoAnswer == [client |-> Browser, req |-> NoRequest, reply |-> [status |-> "none"]]
NoPage == [url |-> <<>>, etag |-> <<>>, body |-> <<>>]

allPaths == Paths[shelf]
FileAt(i) == Shelves[shelf].file[allPaths[i]]
ArchAt(i) == FileAt(i).arch
Mode == Shelves[shelf].mode

(* What is made of an archive when it is opened.                             *)
Loaded == [n \in DOMAIN Shelves |-> [i \in DOMAIN Paths[n] |->
              LET a == Shelves[n].file[Paths[n][i]].arch
              IN  IF a = Bad THEN [arch |-> Bad]
                  ELSE [arch |-> a, letters |-> computeLetterIndex(a),
                        front |-> CollectFrontArticleIDs(a)]]]

Init ==
    /\ shelf \in DOMAIN Shelves
    /\ phase = "loading"
    /\ results = [i \in DOMAIN allPaths |-> "opening"]
    /\ open = {} /\ lib = NoLibrary
    /\ inflight = [c \in Client |-> NoRequest]
    /\ answer = NoAnswer /\ cached = NoPage
    /\ late = FALSE /\ broken = FALSE /\ faults = FALSE /\ restarts = 0

-----------------------------------------------------------------------------
(***************************************************************************)
(* Loading                                                                 *)
(***************************************************************************)
(* One archive is opened, or is not: by its own goroutine in ozaserve, one *)
(* after the other in ozamcp.                                              *)
OpenFile(i) ==
    /\ phase = "loading" /\ results[i] = "opening"
    /\ Mode = "mcp" => \A j \in 1 .. i - 1 : results[j] # "opening"
    /\ results' = [results EXCEPT ![i] = IF ArchAt(i) = Bad THEN "bad" ELSE "open"]
    /\ open' = IF ArchAt(i) = Bad THEN open ELSE open \cup {i}
    /\ UNCHANGED <<shelf, phase, lib, inflight, answer, cached, late, broken, faults, restarts>>

(* The first of base, base_2, base_3, ... that is not taken.                 *)
FreeSlug(base, taken) ==
    IF base \notin taken THEN base
    ELSE LET free == {j \in DOMAIN SlugSuffix : Append(base, SlugSuffix[j]) \notin taken}
         IN  Append(base, SlugSuffix[Min(free)])

(* The slugs of the archives that opened, in the order of allPaths.          *)
SlugsOf ==
    LET slugs[k \in 0 .. Len(allPaths)] ==
            IF k = 0 THEN <<>>
            ELSE Append(slugs[k - 1],
                   IF results[k] = "bad" THEN <<>>
                   ELSE FreeSlug(MakeSlug(FileAt(k).name), Range(slugs[k - 1])))
    IN  slugs[Len(allPaths)]

(* sort.Slice by title: equal titles come in any order.                      *)
ByTitle(place) ==
    {s \in SetToSeqs(DOMAIN place) :
        \A i, j \in DOMAIN s : i < j => ArchAt(place[s[i]]).title <= ArchAt(place[s[j]]).title}

(* The library that serves place: it never changes again.                   *)
LibrariesOf(place) ==
    {[slugs |-> s, place |-> place,
      archives |-> [slug \in DOMAIN place |-> Loaded[shelf][place[slug]]]] : s \in ByTitle(place)}

HardFail == \E i \in DOMAIN Shelves[shelf].positional : results[i] = "bad"

(* Mutant: an archive takes its plain name whether or not it is taken. *)
MutBuildLibrary ==
    /\ phase = "loading"
    /\ \A i \in DOMAIN results : results[i] # "opening"
    /\ LET good == {i \in DOMAIN results : results[i] = "open"}
           name(i) == MakeSlug(FileAt(i).name)
           place == [s \in {name(i) : i \in good} |-> CHOOSE i \in good : name(i) = s]
       IN  IF HardFail \/ good = {}
           THEN phase' = "failed" /\ open' = {} /\ UNCHANGED lib
           ELSE /\ lib' \in LibrariesOf(place)
                /\ phase' = "serving" /\ UNCHANGED open
    /\ UNCHANGED <<shelf, results, inflight, answer, cached, late, broken, faults, restarts>>

(* A positional file that does not open is an error, and so is a library *)
(* without an archive.  ozaserve closes what is open before it gives up, *)
(* ozamcp stops at the file and closes nothing.                          *)
BuildLibrary ==
    /\ phase = "loading"
    /\ \/ \A i \in DOMAIN results : results[i] # "opening"
       \/ Mode = "mcp" /\ HardFail
    /\ LET good == {i \in DOMAIN results : results[i] = "open"}
           place == [s \in {SlugsOf[i] : i \in good} |-> CHOOSE i \in good : SlugsOf[i] = s]
       IN  IF HardFail \/ good = {}
           THEN /\ phase' = "failed"
                /\ open' = IF Mode = "mcp" THEN open ELSE {}
                /\ UNCHANGED lib
           ELSE /\ lib' \in LibrariesOf(place)
                /\ phase' = "serving"
                /\ UNCHANGED open
    /\ UNCHANGED <<shelf, results, inflight, answer, cached, late, broken, faults, restarts>>

-----------------------------------------------------------------------------
(***************************************************************************)
(* HTTP handlers                                                           *)
(***************************************************************************)
Status(n) == [status |-> n]
Link(slug, id) == [slug |-> slug, path |-> EntryByID(Arch(lib, slug), id).path, of |-> id]
Links(slug, ids) == [i \in DOMAIN ids |-> Link(slug, ids[i])]

(* Mutant: the archives after a full page are asked for 0 more results. *)
MuthandleSearchAll(q) ==
    LET upTo[k \in 0 .. Len(lib.slugs)] ==
            IF k = 0 THEN <<>>
            ELSE LET slug == lib.slugs[k]  so == upTo[k - 1]
                 IN  so \o Links(slug, Search(Arch(lib, slug), q, PageLimit - Len(so)))
    IN  [status |-> "200", links |-> IF q = "" THEN <<>> ELSE upTo[Len(lib.slugs)]]

(* All archives in turn, until the page is full.                             *)
handleSearchAll(q) ==
    LET upTo[k \in 0 .. Len(lib.slugs)] ==
            IF k = 0 THEN <<>>
            ELSE LET slug == lib.slugs[k]  so == upTo[k - 1]
                 IN  IF Len(so) >= PageLimit \/ ~HasSearch(Arch(lib, slug)) THEN so
                     ELSE so \o Links(slug, Search(Arch(lib, slug), q, PageLimit - Len(so)))
    IN  [status |-> "200", links |-> IF q = "" THEN <<>> ELSE upTo[Len(lib.slugs)]]

(* The JSON search of an archive, and the search page with its own limit.    *)
handleSearchJSON(slug, q) ==
    [status |-> "200",
     links |-> IF q = "" \/ ~HasSearch(Arch(lib, slug)) THEN <<>>
               ELSE Links(slug, Search(Arch(lib, slug), q, PageLimit))]

handleSearchPage(slug, q, limit) ==
    LET n == IF limit \in 1 .. 100 THEN limit ELSE PageLimit
    IN  [status |-> "200",
         links |-> IF q = "" \/ ~HasSearch(Arch(lib, slug)) THEN <<>>
                   ELSE Links(slug, Search(Arch(lib, slug), q, n))]

(* A redirect to a random front article of the archive.                      *)
handleRandom(slug) ==
    IF lib.archives[slug].front = {} THEN {Status("404")}
    ELSE {[status |-> "302", links |-> <<Link(slug, id)>>] : id \in lib.archives[slug].front}

(* First a random archive, then a random article of it.                      *)
handleRandomAll == UNION {handleRandom(slug) : slug \in Range(lib.slugs)}

(* A page of the titles under a letter.                                      *)
handleBrowse(slug, letter, offset, limit) ==
    LET letters == lib.archives[slug].letters
        lr == IF letter \in DOMAIN letters THEN letters[letter] ELSE [offset |-> 0, count |-> 0]
        n == Min({limit, lr.count - offset})
        ids == BrowseTitles(Arch(lib, slug), lr.offset + offset, n)
    IN  IF offset < lr.count
        THEN [status |-> "200", links |-> Links(slug, ids), count |-> lr.count,
              next |-> IF offset + limit < lr.count THEN offset + limit ELSE -1]
        ELSE [status |-> "200", links |-> <<>>, count |-> lr.count, next |-> -1]

(* What is tried in turn when there is no entry at a path.                   *)
Fallbacks(path) ==
    LET with(ext) == [path EXCEPT ![Len(path)].ext = ext]
    IN  CASE Last(path).ext = "" -> <<with(".md"), with(".html")>>
          [] Last(path).ext = ".html" -> <<with(".md")>>
          [] Last(path).ext = ".md" -> <<with(".html")>>
          [] OTHER -> <<>>

FindEntry(a, path) ==
    LET tried == <<path>> \o Fallbacks(path)
        found == {i \in DOMAIN tried : EntryByPath(a, tried[i]).ok}
    IN  IF found = {} THEN NoEntry ELSE EntryByPath(a, tried[Min(found)])

(* Mutant: the tag of a page is made of its path alone. *)
MutmakeETag(slug, path) == <<0, path>>

makeETag(slug, path) == <<Arch(lib, slug).uuid, path>>

(* A redirect is answered as such, to the entry at its end.                  *)
RedirectTo(slug, id) ==
    LET e == Resolve(Arch(lib, slug), id)
    IN  IF e.ok THEN [status |-> "302", links |-> <<Link(slug, e.id)>>] ELSE Status("500")

(* Mutant: a redirect is answered by its first target. *)
MuthandleContent(slug, path, ifNoneMatch) ==
    LET a == Arch(lib, slug)
        e == FindEntry(a, path)
        content == ReadContent(a, e.id)
    IN  IF path = NoPath
        THEN IF MainEntry(a).ok THEN RedirectTo(slug, MainEntry(a).id) ELSE Status("404")
        ELSE IF ~e.ok THEN Status("404")
        ELSE IF IsRedirectID(e.id) THEN [status |-> "302", links |-> <<Link(slug, e.target)>>]
        ELSE IF ifNoneMatch = makeETag(slug, path) THEN Status("304")
        ELSE IF ~content.ok THEN Status("500")
        ELSE [status |-> "200", body |-> content.body, etag |-> makeETag(slug, path)]

handleContent(slug, path, ifNoneMatch) ==
    LET a == Arch(lib, slug)
        e == FindEntry(a, path)
        content == ReadContent(a, e.id)
    IN  IF path = NoPath
        THEN IF MainEntry(a).ok THEN RedirectTo(slug, MainEntry(a).id) ELSE Status("404")
        ELSE IF ~e.ok THEN Status("404")
        ELSE IF IsRedirectID(e.id) THEN RedirectTo(slug, e.id)
        ELSE IF ifNoneMatch = makeETag(slug, path) THEN Status("304")
        ELSE IF ~content.ok THEN Status("500")
        ELSE [status |-> "200", body |-> content.body, etag |-> makeETag(slug, path)]

(***************************************************************************)
(* URLs                                                                    *)
(***************************************************************************)
Plain(text) == [stem |-> <<text>>, ext |-> ""]

(* The routes of the mux come before the paths of an archive.                *)
Routes == {<<Plain("-"), Plain(page)>> : page \in {"search", "random", "browse", "info"}}
          \cup {<<Plain("-"), [stem |-> <<"info">>, ext |-> ".json"]>>,
                <<[stem |-> <<"", "search">>, ext |-> ""]>>}

(* The path of the URL that entryHref makes: escaped, and otherwise as it is. *)
Url(slug, path) == <<[stem |-> slug, ext |-> ""]>> \o path

(* What ServeMux makes of the path of a request, with a redirect to it, and  *)
(* http.Redirect of the one it sends: empty names and "." go, ".." takes the *)
(* name before it along, a slash at the end stays.                           *)
Cleaned(url) ==
    LET upTo[k \in 0 .. Len(url)] ==
            IF k = 0 THEN <<>>
            ELSE CASE url[k] \in {Empty, Dot} -> upTo[k - 1]
                   [] url[k] = DotDot -> Front(upTo[k - 1])
                   [] OTHER -> Append(upTo[k - 1], url[k])
        all == upTo[Len(url)]
    IN  IF Last(url) = Empty /\ all # <<>> THEN Append(all, Empty) ELSE all

HttpOps == {"searchAll", "searchJSON", "searchPage", "random", "randomAll", "browse", "content"}

(* Every reply a request may get. *)
Replies(req) ==
    CASE req.op = "searchAll" -> {handleSearchAll(req.q)}
      [] req.op = "randomAll" -> handleRandomAll
      [] req.op \in HttpOps \ {"searchAll", "randomAll"} /\ req.slug \notin DOMAIN lib.archives ->
             {Status("404")}
      [] req.op = "searchJSON" /\ req.slug \in DOMAIN lib.archives ->
             {handleSearchJSON(req.slug, req.q)}
      [] req.op = "searchPage" /\ req.slug \in DOMAIN lib.archives ->
             {handleSearchPage(req.slug, req.q, req.limit)}
      [] req.op = "random" /\ req.slug \in DOMAIN lib.archives -> handleRandom(req.slug)
      [] req.op = "browse" /\ req.slug \in DOMAIN lib.archives ->
             {handleBrowse(req.slug, req.letter, req.offset, req.limit)}
      [] req.op = "content" /\ req.slug \in DOMAIN lib.archives ->
             {handleContent(req.slug, req.path, req.match)}
      [] OTHER -> Answers(lib, req)

-----------------------------------------------------------------------------
(***************************************************************************)
(* Requests                                                                *)
(***************************************************************************)
Serves(req) ==
    IF req.op \in HttpOps THEN Mode # "mcp" ELSE Mode # "http"

(* A request comes in; the browser asks for the page it has with its ETag.   *)
Begin(c, req) ==
    /\ phase = "serving" /\ inflight[c] = NoRequest /\ Serves(req)
    /\ inflight' = [inflight EXCEPT ![c] =
          IF req.op = "content"
          THEN [req EXCEPT !.match = IF c = Browser /\ cached.url = <<req.slug, req.path>>
                                     THEN cached.etag ELSE <<>>]
          ELSE req]
    /\ answer' = NoAnswer
    /\ UNCHANGED <<shelf, phase, results, open, lib, cached, late, broken, faults, restarts>>

Reply(c) ==
    /\ phase \in {"serving", "draining"} /\ inflight[c] # NoRequest
    /\ \E reply \in Replies(inflight[c]) :
          /\ answer' = [client |-> c, req |-> inflight[c], reply |-> reply]
          /\ cached' = IF c = Browser /\ inflight[c].op = "content" /\ reply.status = "200"
                       THEN [url |-> <<inflight[c].slug, inflight[c].path>>,
                             etag |-> reply.etag, body |-> reply.body]
                       ELSE cached
    /\ inflight' = [inflight EXCEPT ![c] = NoRequest]
    /\ UNCHANGED <<shelf, phase, results, open, lib, late, broken, faults, restarts>>

(* A handler still running reads an archive after Close: the process dies.   *)
ReadClosed(c) ==
    /\ phase = "closed" /\ inflight[c] # NoRequest
    /\ faults' = TRUE
    /\ phase' = "failed"
    /\ inflight' = [d \in Client |-> NoRequest]
    /\ UNCHANGED <<shelf, results, open, lib, answer, cached, late, broken, restarts>>

-----------------------------------------------------------------------------
(***************************************************************************)
(* The end                                                                 *)
(***************************************************************************)
Calls == {c \in Client : inflight[c] # NoRequest /\ inflight[c].op \notin HttpOps}

(* SIGINT or SIGTERM for serveHTTP; the end of the session, and of its *)
(* calls, for serveMCP and ozamcp.                                     *)
Stop ==
    /\ phase = "serving"
    /\ Mode # "http" => Calls = {}
    /\ phase' = "draining"
    /\ answer' = NoAnswer
    /\ UNCHANGED <<shelf, results, open, lib, inflight, cached, late, broken, faults, restarts>>

(* The context of Shutdown ends: 10 seconds, 5 for serveMCP.                 *)
Deadline ==
    /\ phase = "draining" /\ Mode # "mcp" /\ ~late /\ ~broken
    /\ late' = TRUE
    /\ UNCHANGED <<shelf, phase, results, open, lib, inflight, answer, cached, broken, faults, restarts>>

(* ListenAndServe returns an error of its own: serveHTTP returns at once.    *)
ListenerFails ==
    /\ phase = "serving" /\ Mode = "http"
    /\ broken' = TRUE /\ phase' = "draining"
    /\ UNCHANGED <<shelf, results, open, lib, inflight, answer, cached, late, faults, restarts>>

(* Mutant: Shutdown gets a context without a deadline. *)
MutCloseArchives ==
    /\ phase = "draining"
    /\ broken \/ \A c \in Client : inflight[c] = NoRequest
    /\ open' = {} /\ phase' = "closed"
    /\ UNCHANGED <<shelf, results, lib, inflight, answer, cached, late, broken, faults, restarts>>

(* Mutant: serve does not wait for Shutdown. *)
MutCloseAtOnce ==
    /\ phase = "draining"
    /\ open' = {} /\ phase' = "closed"
    /\ UNCHANGED <<shelf, results, lib, inflight, answer, cached, late, broken, faults, restarts>>

(* Shutdown returns, serve returns, its deferred call closes the archives.   *)
CloseArchives ==
    /\ phase = "draining"
    /\ broken \/ late \/ \A c \in Client : inflight[c] = NoRequest
    /\ open' = {} /\ phase' = "closed"
    /\ UNCHANGED <<shelf, results, lib, inflight, answer, cached, late, broken, faults, restarts>>

(* main returns; what still runs ends with the process.                      *)
Exit ==
    /\ phase = "closed"
    /\ phase' = "exited"
    /\ inflight' = [c \in Client |-> NoRequest]
    /\ UNCHANGED <<shelf, results, open, lib, answer, cached, late, broken, faults, restarts>>

(* The process is started again; the browser keeps what it has.              *)
Restart ==
    /\ phase = "exited" /\ restarts < MaxRestarts
    /\ shelf' \in DOMAIN Shelves
    /\ restarts' = restarts + 1
    /\ phase' = "loading"
    /\ results' = [i \in DOMAIN Paths[shelf'] |-> "opening"]
    /\ open' = {} /\ lib' = NoLibrary /\ answer' = NoAnswer
    /\ late' = FALSE /\ broken' = FALSE
    /\ UNCHANGED <<inflight, cached, faults>>

Next ==
    \/ \E i \in DOMAIN results : OpenFile(i)
    \/ BuildLibrary
    \/ \E c \in Client : \E req \in Requests[c] : Begin(c, req)
    \/ \E c \in Client : Reply(c) \/ ReadClosed(c)
    \/ Stop \/ Deadline \/ ListenerFails \/ CloseArchives \/ Exit \/ Restart

(* Goroutines that can run do, and the timer of Shutdown goes off.  Nothing *)
(* is assumed of the handlers: a client may take its answer as slowly as it *)
(* likes.                                                                   *)
Spec ==
    /\ Init /\ [][Next]_vars
    /\ WF_vars(\E i \in DOMAIN results : OpenFile(i)) /\ WF_vars(BuildLibrary)
    /\ WF_vars(Deadline) /\ WF_vars(CloseArchives) /\ WF_vars(Exit)

-----------------------------------------------------------------------------
(***************************************************************************)
(* Properties                                                              *)
(***************************************************************************)
TypeOK ==
    /\ phase \in {"loading", "serving", "draining", "closed", "exited", "failed"}
    /\ DOMAIN results = DOMAIN allPaths /\ Range(results) \subseteq {"opening", "open", "bad"}
    /\ open \subseteq DOMAIN results
    /\ Range(lib.slugs) = DOMAIN lib.place /\ Range(lib.place) \subseteq DOMAIN results
    /\ \A c \in Client : inflight[c] = NoRequest \/ Serves(inflight[c])
    /\ answer.client \in Client /\ {late, broken, faults} \subseteq BOOLEAN
    /\ restarts \in 0 .. MaxRestarts

Goodies == {i \in DOMAIN allPaths : ArchAt(i) # Bad}
BaseSlug(i) == MakeSlug(FileAt(i).name)
ServedAs(i) == {s \in DOMAIN lib.place : ArchAt(lib.place[s]) = ArchAt(i)}

(* Loading ends in a failure exactly if a named file is bad or none is good; *)
(* else every good file is served, under its plain name unless an earlier    *)
(* file has it, as often as it was given, and all are open until the end.    *)
(* What was opened in vain is closed, except by ozamcp.  (loadLibrary opens  *)
(* the files in any order and names them with a probe that can meet the name *)
(* of another file, x_2 among them.)                                         *)
LoadRight ==
    /\ TypeOK
    /\ phase \in {"serving", "draining"} =>
          /\ Goodies # {} /\ DOMAIN Shelves[shelf].positional \subseteq Goodies
          /\ open = Goodies
          /\ Len(lib.slugs) = Cardinality(Goodies)
          /\ \A i \in Goodies :
                /\ Cardinality(ServedAs(i)) = Cardinality({j \in Goodies : ArchAt(j) = ArchAt(i)})
                /\ \E s \in ServedAs(i) : IsPrefix(BaseSlug(i), s) /\ Len(s) <= Len(BaseSlug(i)) + 1
                /\ BaseSlug(i) \in ServedAs(i) \/ \E j \in Goodies : j < i /\ BaseSlug(i) \in ServedAs(j)
          /\ \A i, j \in DOMAIN lib.slugs : i < j =>
                Arch(lib, lib.slugs[i]).title <= Arch(lib, lib.slugs[j]).title
    /\ phase = "failed" /\ ~faults =>
          /\ Goodies = {} \/ ~(DOMAIN Shelves[shelf].positional \subseteq Goodies)
          /\ Mode # "mcp" => open = {}

(* What a client gets for the link to a path, once the mux has sent it to the *)
(* cleaned one, which may be of another archive.  The server has pages and    *)
(* the mux has routes of its own, and an empty path is the main page.         *)
Fetch(slug, path) ==
    LET url == Cleaned(Url(slug, path))
    IN  IF Len(url) <= 1 THEN Status("route")
        ELSE IF Tail(url) \in Routes \cup {NoPath} THEN Status("route")
        ELSE IF url[1].ext # "" \/ url[1].stem \notin DOMAIN lib.archives THEN Status("404")
        ELSE handleContent(url[1].stem, Tail(url), <<>>)

(* The same for a client that follows a redirect of the archive. *)
Follow(reply) ==
    IF reply.status = "302" THEN Fetch(reply.links[1].slug, reply.links[1].path) ELSE reply

Shows(page, content) ==
    \/ page.status = "route"
    \/ ~content.ok /\ page.status = "500"
    \/ content.ok /\ page.status = "200" /\ page.body = content.body

(* A link leads to its content if neither its own path nor that of the entry *)
(* at the end of its redirects is changed by the cleaning; an entry whose    *)
(* path is changed is not at the end of its links.                           *)
LinkLands(link) ==
    LET a == Arch(lib, link.slug)
        end == Resolve(a, link.of)
        page == Follow(Fetch(link.slug, link.path))
    IN  /\ IsClean(link.path) /\ (end.ok => IsClean(end.path)) =>
              Shows(page, ReadContent(a, link.of))
        /\ end.ok /\ ~IsClean(end.path) /\ page.status = "200" =>
              page.body # <<a.build, end.id>>

(* What the browser keeps is what it would get. *)
StillSent(slug, path) ==
    LET page == handleContent(slug, path, <<>>)
    IN  page.status = "200" /\ page.body = cached.body

(* It is what another build of archive a has there. *)
OfOtherBuild(a, path) ==
    \E b \in AllArchives \ {a} :
        b.uuid = a.uuid /\ cached.body = ReadContent(b, FindEntry(b, path).id).body

(* Every link an HTTP answer holds leads, over one redirect of the archive   *)
(* at most, to the content of the entry it was made for (or to an error if   *)
(* that cannot be read, or to the route or the main page that hides its      *)
(* path), chains and loops included, if the server leaves the paths on the   *)
(* way as they are; an entry whose path has an empty name, "." or ".." in it *)
(* is never what its links show; and a page is confirmed as                  *)
(* unchanged, after a restart with other files too, only if it is what would *)
(* be sent, or the page at this path in another build of the same source:    *)
(* the UUID that an ETag is made of does not tell builds apart.              *)
AnswersRight ==
    answer.req.op \in HttpOps =>
        /\ "links" \in DOMAIN answer.reply =>
              \A i \in DOMAIN answer.reply.links : LinkLands(answer.reply.links[i])
        /\ answer.req.op \in {"random", "randomAll"} /\ answer.reply.status = "302" =>
              LET link == answer.reply.links[1]
              IN  link.of \in CollectFrontArticleIDs(Arch(lib, link.slug))
        /\ answer.reply.status = "304" =>
              /\ answer.client = Browser
              /\ \/ StillSent(answer.req.slug, answer.req.path)
                 \/ OfOtherBuild(Arch(lib, answer.req.slug), answer.req.path)

(* The titles of the pages of a letter, one after the other. *)
Pages(slug, letter, limit) ==
    LET from[o \in Nat] ==
            LET page == handleBrowse(slug, letter, o, limit)
                ids == [i \in DOMAIN page.links |-> page.links[i].of]
            IN  IF page.next = -1 THEN ids ELSE ids \o from[page.next]
    IN  from[0]

(* A run of the title index that begins with the first title of the letter, *)
(* the places of whose titles are of.                                       *)
RunOfLetter(ids, index, of) ==
    IF of = {} THEN ids = <<>>
    ELSE /\ ids = SubSeq(index, Min(of), Min(of) + Cardinality(of) - 1)
         /\ Max(of) - Min(of) + 1 = Cardinality(of) => Range(ids) = {index[i] : i \in of}

(* The pages of a letter, one after the other, are a run of the title index *)
(* that starts at the first title of the letter and is as long as the       *)
(* letter has titles; they are the letter's titles if these are neighbours  *)
(* in the index, which they are not if some begin with a small and some     *)
(* with a capital letter.                                                   *)
PagesRight ==
    answer.req.op = "browse" /\ answer.req.slug \in DOMAIN lib.archives =>
        LET a == Arch(lib, answer.req.slug)
            titled(i) == LetterOf(EntryByID(a, TitleIndex(a)[i]).title)
            of == {i \in DOMAIN TitleIndex(a) : titled(i) = answer.req.letter}
        IN  RunOfLetter(Pages(answer.req.slug, answer.req.letter, answer.req.limit),
                        TitleIndex(a), IF answer.req.letter = NoLetter THEN {} ELSE of)

(* A handler reads an archive after it was closed only if Shutdown ran out *)
(* of time or the listener failed, and never one of an MCP call of ozamcp: *)
(* that the archives outlive the requests rests on the deadline alone.     *)
DrainedOrLate == faults => (late \/ broken) /\ Mode # "mcp"

(* All hits of the archives asked, in the library's order. *)
AllHits(slugs, q) ==
    LET hits(slug) == LET a == Arch(lib, slug)
                      IN  IF q \in DOMAIN a.hits
                          THEN [i \in DOMAIN a.hits[q] |-> <<slug, a.hits[q][i]>>] ELSE <<>>
    IN  FlattenSeq([i \in DOMAIN slugs |-> hits(slugs[i])])

FirstOf(s, n) == SubSeq(s, 1, Min({n, Len(s)}))

(* A search over all archives gives the first hits of all of them together, *)
(* full or not at the end of an archive.  A call of a tool that names an    *)
(* entry, by its path or by a number that is cut to 32 bits, is about that  *)
(* entry, and the tool answers with all of a blob above its limit only if   *)
(* the length asked for is negative, if a section is asked for of what is   *)
(* not HTML, or through a redirect, whose own size is 0.                    *)
ToolsRight ==
    LET req == answer.req  reply == answer.reply
    IN  /\ req.op = "searchAll" =>
              [i \in DOMAIN reply.links |-> <<reply.links[i].slug, reply.links[i].of>>]
                 = FirstOf(AllHits(lib.slugs, req.q), PageLimit)
        /\ req.op = "search_text" /\ reply.status = "ok" =>
              reply.hits = FirstOf(AllHits(Targets(lib, req), req.q),
                                   IF req.limit <= 0 THEN DefaultLimit ELSE req.limit)
        /\ req.op \in {"read_entry", "entry_resource"} /\ reply.status = "ok" =>
              LET a == Arch(lib, req.slug)
                  named == {id \in IDs(a) : IF req.id # -1 THEN (req.id - id) % IDSpace = 0
                                            ELSE EntryByID(a, id).path = req.path}
              IN  /\ \E id \in named : reply.body = ReadContent(a, id).body
                  /\ Size(a, reply.body[2]) > MaxReadContentSize /\ ~reply.cut =>
                        \/ req.op = "read_entry" /\ req.max < 0
                        \/ req.op = "read_entry" /\ req.section /\ ~IsHTML(a, reply.body)
                        \/ \E id \in named : IsRedirectID(id)
        /\ req.op = "get_random" /\ reply.status = "ok" =>
              \/ reply.pick = <<>> /\ RandomPool(lib, req) = {}
              \/ reply.pick[2] \in CollectFrontArticleIDs(Arch(lib, reply.pick[1]))

(* Loading ends, and a process that was told to stop ends, whatever its *)
(* clients do: the deadline of Shutdown sees to it.                     *)
Ends ==
    /\ phase = "loading" ~> phase \in {"serving", "failed"}
    /\ phase = "draining" ~> phase \in {"exited", "failed"}

=============================================================================
