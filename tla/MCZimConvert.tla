----------------------------- MODULE MCZimConvert -----------------------------
EXTENDS ZimConvert

CONSTANTS w1, w2
MCWorker == {w1, w2}

Content(ns, path, mime, key, cluster, size, readable) ==
    [ns |-> ns, path |-> path, to |-> NoIndex, mime |-> mime, key |-> key,
     cluster |-> cluster, size |-> size, readable |-> readable]
Redirect(ns, path, to) ==
    [ns |-> ns, path |-> path, to |-> to, mime |-> "", key |-> 0,
     cluster |-> 0, size |-> 0, readable |-> TRUE]

(* Four entries whose orders by index, by cluster and by chunk key differ,  *)
(* two of them images, one empty, one maybe unreadable: for the goroutines. *)
PipelineJobs ==
    {[zim |-> <<Content("C", 1, "html", 2, 3, 1, r), Content("C", 2, "image", 1, 2, 2, TRUE),
                Content("W", 1, "text", 1, 1, 0, TRUE), Content("-", 1, "image", 1, 4, 1, TRUE),
                Redirect("C", 3, 1)>>,
      main |-> 4, meta |-> {"title"}, parallel |-> TRUE] : r \in BOOLEAN}

(* Every way three redirects can point, into the chrome and out of the file *)
(* too: chains, circles and breaks.  Two entries share a path.              *)
Target == {0, 1, 2, 3, 4, 5, 6, 9}
RedirectJobs ==
    {[zim |-> <<Content("C", 1, "html", 1, 1, 1, TRUE), Content("-", 1, "html", 1, 1, 1, v[1]),
                Content("X", 1, "text", 1, 1, 1, TRUE), Redirect("C", Mediawiki, 0),
                Redirect("C", 2, a), Redirect("A", 2, b), Redirect("W", 2, c)>>,
      main |-> v[2], meta |-> v[3], parallel |-> FALSE] :
        a \in Target, b \in Target, c \in Target,
        v \in {<<TRUE, 4, {}>>, <<FALSE, 4, {}>>, <<TRUE, NoIndex, {"main_entry", "date"}>>}}

MCJobs == PipelineJobs \cup RedirectJobs

=============================================================================
