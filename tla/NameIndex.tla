------------------------------- MODULE NameIndex -------------------------------
(***************************************************************************)
(* The path and title indices (IDX1): serializeIndex of ozawrite, and the  *)
(* Index of oza that parses and searches them.                             *)
(*                                                                         *)
(* A key is a sequence of characters.  The records of a section are a      *)
(* sequence of cells, one for each field and one for each literal byte, so *)
(* that a field that has wrapped makes the reader lose its place as it     *)
(* does in the bytes.  What the header says is a record.                   *)
(***************************************************************************)
EXTENDS Integers, Sequences, FiniteSets, SequencesExt

CONSTANTS
  RestartInterval,  \* records in a block (64)
  MinFreq,          \* how often a token occurs to be in the string table (3)
  CountLimit,       \* token_count is kept modulo this (2^8)
  PrefixLimit,      \* prefix_length is kept modulo this (2^16)
  LengthLimit       \* literal_length is kept modulo this (2^16)

ASSUME NameIndexAssumption ==
  /\ {RestartInterval, MinFreq, CountLimit, PrefixLimit, LengthLimit} \subseteq Nat \ {0}
  /\ PrefixLimit <= LengthLimit

NoTableEntry == 65535

(* Go compares strings byte by byte; a proper prefix comes first.          *)
Before(a, b) ==
  \E n \in 0 .. Len(a) :
    /\ n < Len(b)
    /\ \A i \in 1 .. n : a[i] = b[i]
    /\ n = Len(a) \/ (n < Len(a) /\ a[n + 1] < b[n + 1])

(* The elements of a finite set in the order of Sooner.                    *)
Sorted(S, Sooner(_, _)) ==
  CHOOSE s \in [1 .. Cardinality(S) -> S] :
    \A i, j \in 1 .. Cardinality(S) : i < j => Sooner(s[i], s[j])

(* The tokens of s: each delimiter, '/' in a path and ' ' in a title,      *)
(* closes one, and the rest is the last.                                   *)
Tokenize(s, delim) ==
  LET ends == Sorted({i \in 1 .. Len(s) : s[i] = delim}, <)
      from(k) == IF k = 1 THEN 1 ELSE ends[k - 1] + 1
      to(k) == IF k > Len(ends) THEN Len(s) ELSE ends[k]
  IN  IF s = <<>> THEN <<>>
      ELSE [k \in 1 .. Len(ends) + 1 |-> SubSeq(s, from(k), to(k))]

(* The shared string table: frequent tokens, the most frequent first, as   *)
(* many as have an index in front of NoTableEntry.                         *)
StringTable(keys, delim) ==
  LET tokens == FlattenSeq([i \in 1 .. Len(keys) |-> Tokenize(keys[i], delim)])
      freq(t) == Cardinality({i \in 1 .. Len(tokens) : tokens[i] = t})
      sooner(s, t) == freq(s) > freq(t) \/ (freq(s) = freq(t) /\ Before(s, t))
      frequent == Sorted({t \in ToSet(tokens) : freq(t) >= MinFreq}, sooner)
  IN  SubSeq(frequent, 1, Min({NoTableEntry - 1, Len(frequent)}))

Lookup(table, t) == {i \in 1 .. Len(table) : table[i] = t}

TokenTuple(token, table) ==
  IF Lookup(table, token) # {}
  THEN <<(CHOOSE i \in Lookup(table, token) : TRUE) - 1, 0>>
  ELSE <<NoTableEntry, Len(token) % LengthLimit>> \o token

Tuples(tokens, table) ==
  FlattenSeq([k \in 1 .. Len(tokens) |-> TokenTuple(tokens[k], table)])

SharedPrefix(a, b) == Len(LongestCommonPrefix({a, b}))

IsRestart(i) == (i - 1) % RestartInterval = 0

(* Mutant: the prefix is taken from the key before also at a restart.      *)
MutSharedAtRestart(i, keys) ==
  IF i = 1 THEN 0 ELSE SharedPrefix(keys[i - 1], keys[i])

(* How much of key i its record leaves out.                                *)
LeftOut(i, keys) ==
  IF IsRestart(i) THEN 0 ELSE SharedPrefix(keys[i - 1], keys[i])

(* Record i: its ID, what is shared with the key before unless the record  *)
(* starts a block, the number of tokens, and the tokens.                   *)
IndexRecord(i, ids, keys, delim, table) ==
  LET shared == LeftOut(i, keys)
      tokens == Tokenize(SubSeq(keys[i], shared + 1, Len(keys[i])), delim)
      count == Len(tokens) % CountLimit
  IN  (IF IsRestart(i) THEN <<ids[i], count>> ELSE <<ids[i], shared % PrefixLimit, count>>)
        \o Tuples(tokens, table)

RestartCount(n) == (n + RestartInterval - 1) \div RestartInterval

SerializeIndex(ids, keys, delim) ==
  LET n == Len(keys)
      table == StringTable(keys, delim)
      records == [i \in 1 .. n |-> IndexRecord(i, ids, keys, delim, table)]
      before(b) == FlattenSeq(SubSeq(records, 1, (b - 1) * RestartInterval))
  IN  [count |-> n, table |-> table, cells |-> FlattenSeq(records),
       restarts |-> [b \in 1 .. RestartCount(n) |-> Len(before(b))]]

-----------------------------------------------------------------------------
(* Reading.  What is decoded is a key and how far the reader has come, or  *)
(* Undecodable.                                                            *)
Decoded(id, key, off) == [ok |-> TRUE, id |-> id, key |-> key, off |-> off]
Undecodable == [ok |-> FALSE, id |-> 0, key |-> <<>>, off |-> 0]

(* decodeTuples: one tuple after what was decoded as d, and n of them.     *)
DecodeTuple(section, d) ==
  LET cells == section.cells
      entry == cells[d.off + 1]
      len == cells[d.off + 2]
      word == IF entry = NoTableEntry THEN <<>> ELSE section.table[entry + 1]
  IN  IF \/ ~d.ok
         \/ d.off + 2 > Len(cells)
         \/ entry # NoTableEntry /\ entry >= Len(section.table)
         \/ d.off + 2 + len > Len(cells)
      THEN Undecodable
      ELSE Decoded(d.id, d.key \o word \o SubSeq(cells, d.off + 3, d.off + 2 + len),
                   d.off + 2 + len)

DecodeTuples(section, off, n) ==
  LET decoded[t \in 0 .. n] ==
        IF t = 0 THEN Decoded(0, <<>>, off) ELSE DecodeTuple(section, decoded[t - 1])
  IN  decoded[n]

(* The first record of a block, at off.                                    *)
DecodeRestart(section, off) ==
  LET cells == section.cells
  IN  IF off + 2 > Len(cells) THEN Undecodable
      ELSE LET d == DecodeTuples(section, off + 2, cells[off + 2] % CountLimit)
           IN  IF d.ok THEN Decoded(cells[off + 1], d.key, d.off) ELSE Undecodable

(* The record after one that was decoded as prev.                          *)
DecodeNext(section, prev) ==
  LET cells == section.cells
      off == prev.off
      shared == cells[off + 2]
  IN  IF ~prev.ok \/ off + 3 > Len(cells) \/ shared > Len(prev.key) THEN Undecodable
      ELSE LET d == DecodeTuples(section, off + 3, cells[off + 3] % CountLimit)
           IN  IF d.ok
               THEN Decoded(cells[off + 1], SubSeq(prev.key, 1, shared) \o d.key, d.off)
               ELSE Undecodable

(* All records as Record, ForEach and Search decode them, each from the    *)
(* start of its block.                                                     *)
DecodeIndex(section) ==
  LET records[i \in 1 .. section.count] ==
        IF IsRestart(i)
        THEN DecodeRestart(section, section.restarts[(i - 1) \div RestartInterval + 1])
        ELSE DecodeNext(section, records[i - 1])
  IN  records

Decodable(records) == \A i \in DOMAIN records : records[i].ok

(* ForEach stops at the first record it cannot decode.                     *)
ForEach(records) ==
  LET bad == {i \in 1 .. Len(records) : ~records[i].ok}
  IN  IF bad = {} THEN records ELSE SubSeq(records, 1, Min(bad) - 1)

-----------------------------------------------------------------------------
(* Search: the first block whose first key is not before key, or the one   *)
(* in front of it.  sort.Search finds the smallest index for which its     *)
(* predicate holds.                                                        *)
BlockStart(b) == b * RestartInterval + 1

RestartReached(records, b, key) ==
  LET r == records[BlockStart(b)]
  IN  r.ok /\ ~Before(r.key, key)

SearchBlocks(records, key) ==
  {b \in 0 .. RestartCount(Len(records)) - 1 : RestartReached(records, b, key)}

(* Mutant: the block in front is forgotten.                                *)
MutScannedBlock(records, key) ==
  LET reached == SearchBlocks(records, key)
  IN  IF reached = {} THEN RestartCount(Len(records)) - 1 ELSE Min(reached)

(* The block to scan when no block starts with key.                        *)
ScannedBlock(records, key) ==
  LET reached == SearchBlocks(records, key)
  IN  (IF reached = {} THEN RestartCount(Len(records)) ELSE Min(reached)) - 1

(* The scan of block b, up to an undecodable record or a later key.        *)
ScanBlock(records, b, key) ==
  {j \in 1 .. Len(records) :
     /\ BlockStart(b) <= j /\ j < BlockStart(b + 1)
     /\ records[j].key = key
     /\ \A i \in BlockStart(b) .. j : records[i].ok /\ ~Before(key, records[i].key)}

(* The position of the record that Search answers with, or 0.              *)
SearchIndexFor(records, key) ==
  LET reached == SearchBlocks(records, key)
      block == ScannedBlock(records, key)
      found == ScanBlock(records, block, key)
  IN  IF reached # {} /\ records[BlockStart(Min(reached))].key = key
      THEN BlockStart(Min(reached))
      ELSE IF block < 0 \/ found = {} THEN 0
      ELSE Min(found)
=============================================================================
