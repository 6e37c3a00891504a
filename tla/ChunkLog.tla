------------------------------ MODULE ChunkLog ------------------------------
(***************************************************************************)
(* What the compression pipeline promises to the Writer, whatever its      *)
(* goroutines do: chunks are submitted in any order, and the log holds     *)
(* them in the order of their IDs.  After the first error the log stops.   *)
(* The verdict comes once, when no submitted chunk is next in line; it is  *)
(* good if and only if there was no error, and then the log is final.      *)
(***************************************************************************)
EXTENDS Naturals, Sequences

CONSTANT Chunk   \* the chunk IDs

VARIABLES
  submitted,  \* the chunks handed to the pipeline
  log,        \* the chunks in the temp file
  broken,     \* an error has stopped the log
  verdict     \* "none" until the pipeline reports

vars == <<submitted, log, broken, verdict>>

Init ==
  /\ submitted = {}
  /\ log = <<>>
  /\ broken = FALSE
  /\ verdict = "none"

Submit(c) ==
  /\ verdict = "none"
  /\ c \notin submitted
  /\ submitted' = submitted \union {c}
  /\ UNCHANGED <<log, broken, verdict>>

AppendNext ==
  /\ verdict = "none"
  /\ ~broken
  /\ Len(log) \in submitted
  /\ log' = Append(log, Len(log))
  /\ UNCHANGED <<submitted, broken, verdict>>

Break ==
  /\ verdict = "none"
  /\ \E c \in submitted : \A i \in DOMAIN log : log[i] # c
  /\ broken' = TRUE
  /\ UNCHANGED <<submitted, log, verdict>>

Report ==
  /\ verdict = "none"
  /\ broken \/ Len(log) \notin submitted
  /\ verdict' = IF broken THEN "error" ELSE "ok"
  /\ UNCHANGED <<submitted, log, broken>>

Next ==
  \/ \E c \in Chunk : Submit(c)
  \/ AppendNext
  \/ Break
  \/ Report

Spec == Init /\ [][Next]_vars
=============================================================================
