------------------------------ MODULE ArchiveFile ------------------------------
(***************************************************************************)
(* The archive file: how ozawrite.Writer.Close lays it out and writes it   *)
(* (steps 13 to 21), with writes that fail and crashes at any point, and   *)
(* what oza's Open, Verify, VerifyAll and VerifySignatures make of what is *)
(* there then.                                                             *)
(*                                                                         *)
(* The file is a function from offsets to cells.  A cell is what one Write *)
(* writes: the header, a section descriptor, a section; the CONTENT        *)
(* section is a cell for its chunk table and one for each piece of the     *)
(* temp file.  A hash is what was hashed: hashes do not collide.           *)
(***************************************************************************)
EXTENDS Naturals

CONSTANTS
  NumSections,  \* sections of the archive
  ContentIdx,   \* the place of the CONTENT section among them
  Signed,       \* there are signing keys
  MaxChunks,    \* bound: cells of chunk data
  MachineFails  \* a crash may lose writes that were not synced

ASSUME FileAssumption ==
  /\ NumSections \in Nat
  /\ ContentIdx \in 1 .. NumSections
  /\ Signed \in BOOLEAN
  /\ MaxChunks \in Nat
  /\ MachineFails \in BOOLEAN

VARIABLES
  pc,        \* what Close does next
  file,      \* the file, from offset 0
  at,        \* the offset of the next Write
  section,   \* the section that is being written
  part,      \* how many of its cells are
  chunkOff,  \* the size of the chunk data, from the chunk descriptors
  extra,     \* cells that a torn write has left in the temp file
  result,    \* what Close has returned
  lost       \* a crash of the machine has lost writes

vars == <<pc, file, at, section, part, chunkOff, extra, result, lost>>

(* What no step of Close assigns. *)
given == <<chunkOff, extra, lost>>

Section == 1 .. NumSections

(* The layout that Close computes before it writes (step 13). *)
Size(i) == IF i = ContentIdx THEN 1 + chunkOff ELSE 1
Off(i) == NumSections + i + (IF i > ContentIdx THEN chunkOff ELSE 0)
ChecksumOff == 2 * NumSections + 1 + chunkOff

(* What the temp file gives behind the data that its descriptors know: Close *)
(* copies all that it holds, if the descriptors say that it holds anything.  *)
Surplus == IF chunkOff > 0 THEN extra ELSE 0

(* The cells that are written for a section. *)
Streamed(i) == IF i = ContentIdx THEN Size(i) + Surplus ELSE Size(i)

(* Mutant: the hash starts after the header and the section table. *)
MutImageOfData(f, size) == [p \in NumSections + 1 .. size - 1 |-> f[p]]

(* What Verify hashes, and steps 19 and 20 before it. *)
Image(f, size) == [p \in 0 .. size - 1 |-> f[p]]

Zero == [kind |-> "zero"]
Torn == [kind |-> "torn"]
Data(i, k) == [kind |-> "data", section |-> i, part |-> k]
HeaderOf(off, signed) ==
  [kind |-> "header", sections |-> NumSections, checksumOff |-> off, signed |-> signed]
Header == HeaderOf(ChecksumOff, Signed)
DescOf(i, sha) ==
  [kind |-> "desc", section |-> i, off |-> Off(i), size |-> Size(i), sha |-> sha]
Desc(i) == DescOf(i, [k \in 0 .. Streamed(i) - 1 |-> Data(i, k)])
Sum(f) == [kind |-> "sum", of |-> Image(f, ChecksumOff)]
Signatures(f) == [kind |-> "signatures", of |-> Image(f, ChecksumOff)]

Init ==
  /\ pc = "placeholder"
  /\ file = [p \in {} |-> Zero]
  /\ at = 0 /\ section = 1 /\ part = 0
  /\ chunkOff \in 0 .. MaxChunks
  /\ extra \in 0 .. 1
  /\ result = "none" /\ lost = FALSE

-----------------------------------------------------------------------------
(* Close. *)

(* One cell is written at offset p. *)
PutAt(p, cell) == file' = [q \in DOMAIN file \union {p} |-> IF q = p THEN cell ELSE file[q]]

(* A step that fails has written nothing, or a part of its cell. *)
Fails(parts) ==
  /\ UNCHANGED file \/ \E cell \in parts : PutAt(at, cell)
  /\ pc' = "done" /\ result' = "error"
  /\ UNCHANGED <<at, section, part, given>>

(* Mutant: step 16 writes the header itself, not a placeholder. *)
MutHeaderFirst ==
  /\ pc = "placeholder"
  /\ file' = [p \in 0 .. NumSections |-> IF p = 0 THEN Header ELSE Zero]
  /\ at' = NumSections + 1
  /\ pc' = "sections"
  /\ UNCHANGED <<section, part, given, result>>

(* Step 16: zeros where the header and the section table will be. *)
WritePlaceholder ==
  /\ pc = "placeholder"
  /\ \/ /\ file' = [p \in 0 .. NumSections |-> Zero]
        /\ at' = NumSections + 1
        /\ pc' = "sections"
        /\ UNCHANGED <<section, part, given, result>>
     \/ \E n \in 0 .. NumSections :
          /\ file' = [p \in 0 .. n - 1 |-> Zero]
          /\ pc' = "done" /\ result' = "error"
          /\ UNCHANGED <<at, section, part, given>>

(* Step 17, one cell; after the last one, the seek of step 18. *)
WriteSection ==
  /\ pc = "sections"
  /\ \/ /\ PutAt(at, Data(section, part))
        /\ IF part + 1 < Streamed(section)
             THEN section' = section /\ part' = part + 1
             ELSE section' = section + 1 /\ part' = 0
        /\ IF section' \in Section
             THEN pc' = pc /\ at' = at + 1
             ELSE pc' = "header" /\ at' = 0
        /\ UNCHANGED <<given, result>>
     \/ Fails({Torn})

(* Step 18.  A part of a header that parses may lack the last fields.       *)
WriteHeader ==
  /\ pc = "header"
  /\ \/ /\ PutAt(at, Header)
        /\ at' = at + 1
        /\ pc' = "table"
        /\ UNCHANGED <<section, part, given, result>>
     \/ Fails({Torn, HeaderOf(ChecksumOff, FALSE), HeaderOf(0, FALSE)})

(* Mutant: the last descriptor is not written. *)
MutTableShort ==
  /\ pc = "table"
  /\ \/ /\ PutAt(at, Desc(at))
        /\ IF at + 1 < NumSections
             THEN pc' = pc /\ at' = at + 1
             ELSE pc' = "sum" /\ at' = ChecksumOff
        /\ UNCHANGED <<section, part, given, result>>
     \/ Fails({Torn, DescOf(at, <<>>)})

(* Mutant: the hash is written without the seek before it. *)
MutSumNoSeek ==
  /\ pc = "table"
  /\ \/ /\ PutAt(at, Desc(at))
        /\ at' = at + 1
        /\ pc' = IF at < NumSections THEN pc ELSE "sum"
        /\ UNCHANGED <<section, part, given, result>>
     \/ Fails({Torn, DescOf(at, <<>>)})

(* A part of a descriptor may lack its hash only, and then it loads. *)
WriteDesc ==
  /\ pc = "table"
  /\ \/ /\ PutAt(at, Desc(at))
        /\ IF at < NumSections
             THEN pc' = pc /\ at' = at + 1
             ELSE pc' = "sum" /\ at' = ChecksumOff
        /\ UNCHANGED <<section, part, given, result>>
     \/ Fails({Torn, DescOf(at, <<>>)})

(* Steps 19 and 20: hash the file up to checksumOff; write the hash there.  *)
WriteSum ==
  /\ pc = "sum"
  /\ \/ /\ PutAt(at, Sum(file))
        /\ at' = at + 1
        /\ IF Signed THEN pc' = "trailer" /\ UNCHANGED result
                     ELSE pc' = "done" /\ result' = "nil"
        /\ UNCHANGED <<section, part, given>>
     \/ Fails({Torn})

(* Step 21: the signatures of the hash. *)
WriteTrailer ==
  /\ pc = "trailer"
  /\ \/ /\ PutAt(at, Signatures(file))
        /\ at' = at + 1
        /\ pc' = "done" /\ result' = "nil"
        /\ UNCHANGED <<section, part, given>>
     \/ Fails({Torn})

-----------------------------------------------------------------------------
(* The process stops.  What it has written stays. *)
ProcessCrash ==
  /\ pc \notin {"done", "crashed"}
  /\ pc' = "crashed"
  /\ UNCHANGED <<file, at, section, part, given, result>>

(* What the disk may hold at checksumOff without the hash: zeros, or the *)
(* section data that the hash overwrote.                                 *)
UnderSum ==
  {Zero} \union
  (IF Surplus > 0 THEN {Data(NumSections, Streamed(NumSections) - 1)} ELSE {})

(* The machine stops.  Close syncs nothing, so that any of its writes, and  *)
(* the end of the file, may not be on the disk, also after it has returned. *)
MachineCrash ==
  /\ MachineFails /\ ~ lost
  /\ \E S \in SUBSET DOMAIN file, size \in {0} \union {p + 1 : p \in DOMAIN file},
        under \in UnderSum :
       file' = [p \in {q \in DOMAIN file : q < size} |->
                  IF p \notin S THEN file[p] ELSE IF p = ChecksumOff THEN under ELSE Zero]
  /\ pc' = "crashed"
  /\ lost' = TRUE
  /\ UNCHANGED <<at, section, part, chunkOff, extra, result>>

Terminated == pc \in {"done", "crashed"} /\ UNCHANGED vars

Next ==
  \/ WritePlaceholder
  \/ WriteSection
  \/ WriteHeader
  \/ WriteDesc
  \/ WriteSum
  \/ WriteTrailer
  \/ ProcessCrash
  \/ MachineCrash
  \/ Terminated

Spec == Init /\ [][Next]_vars

-----------------------------------------------------------------------------
(* The reader. *)

HasHeader(f) == 0 \in DOMAIN f /\ f[0].kind = "header"

(* The cells that descriptor d places its section in; a descriptor of zeros *)
(* is one of type 0 and of no size.                                         *)
Place(d) == IF d.kind = "desc" THEN d.off .. d.off + d.size - 1 ELSE {}

(* load parses a section; it leaves the data of chunks where it is, and *)
(* ignores a type it does not know.                                     *)
Loads(f, d) ==
  \/ d.kind = "zero"
  \/ /\ d.kind = "desc"
     /\ d.off \in DOMAIN f /\ f[d.off] = Data(d.section, 0)

(* The archive opens for sure (a piece of a descriptor may load or not). *)
Opens(f) ==
  /\ HasHeader(f)
  /\ \A i \in 1 .. f[0].sections : i \in DOMAIN f /\ Loads(f, f[i])

(* Verify, and the first tier of VerifyAll. *)
VerifyFile(f) ==
  /\ f[0].checksumOff \in DOMAIN f
  /\ f[f[0].checksumOff] = [kind |-> "sum", of |-> Image(f, f[0].checksumOff)]

(* Mutant: VerifyAll passes over what load passed over. *)
MutVerifyLoaded(f) ==
  \A i \in 1 .. f[0].sections :
    /\ i \in DOMAIN f /\ f[i].kind \in {"zero", "desc"}
    /\ f[i].kind = "desc" =>
         /\ Place(f[i]) \subseteq DOMAIN f
         /\ f[i].sha = [k \in 0 .. f[i].size - 1 |-> f[f[i].off + k]]

(* The second tier of VerifyAll: every descriptor, what it places, its hash. *)
VerifySections(f) ==
  \A i \in 1 .. f[0].sections :
    /\ i \in DOMAIN f /\ f[i].kind = "desc"
    /\ Place(f[i]) \subseteq DOMAIN f
    /\ f[i].sha = [k \in 0 .. f[i].size - 1 |-> f[f[i].off + k]]

(* VerifySignatures has a valid signature of the hash that is stored. *)
SignatureValid(f) ==
  LET c == f[0].checksumOff
  IN  /\ {c, c + 1} \subseteq DOMAIN f
      /\ f[c].kind = "sum" /\ f[c + 1].kind = "signatures"
      /\ f[c + 1].of = f[c].of

-----------------------------------------------------------------------------
Kind == {"zero", "torn", "data", "header", "desc", "sum", "signatures"}

(* The variables have their types, and the file has no hole: the section *)
(* counter and the offset stay within the layout.                        *)
TypeOK ==
  /\ pc \in {"placeholder", "sections", "header", "table", "sum", "trailer",
             "done", "crashed"}
  /\ \E size \in 0 .. ChecksumOff + extra + 2 : DOMAIN file = 0 .. size - 1
  /\ \A p \in DOMAIN file : file[p].kind \in Kind
  /\ at \in 0 .. ChecksumOff + extra + 2
  /\ section \in 1 .. NumSections + 1
  /\ part \in 0 .. MaxChunks + 1
  /\ chunkOff \in 0 .. MaxChunks
  /\ extra \in 0 .. 1
  /\ result \in {"none", "nil", "error"}
  /\ lost \in BOOLEAN

(* Where section i is whole: the cells that its descriptor would place.     *)
SectionWhole(f, i) ==
  \A k \in 0 .. Size(i) - 1 : Off(i) + k \in DOMAIN f /\ f[Off(i) + k] = Data(i, k)

(* The sections that are written where their descriptors say: all, unless *)
(* a surplus of the temp file pushes those behind CONTENT away.           *)
Placed == {i \in Section : i <= ContentIdx \/ Surplus = 0}

(* Close stays within its layout (TypeOK) and writes the header last: a file *)
(* that has a header, from a crash or a failed write at any point, has every *)
(* section whole where the layout says (writer.go:674-705), unless the       *)
(* machine lost writes, and but for those that a surplus pushed away.        *)
HeaderMeansSections ==
  /\ TypeOK
  /\ ~ lost /\ HasHeader(file) => \A i \in Placed : SectionWhole(file, i)

(* A file that Verify accepts has the header, the table and the data that  *)
(* Close meant to write, whatever was lost (checksum.go:21-49): it does    *)
(* not see that a surplus has pushed sections away from their descriptors. *)
FileVerifiedWhole ==
  HasHeader(file) /\ VerifyFile(file) =>
    /\ file[0] = Header
    /\ \A i \in Section : file[i] = Desc(i)
    /\ \A i \in Placed : SectionWhole(file, i)

(* The second tier of VerifyAll needs no file hash for that, and it sees *)
(* also the sections that a surplus has pushed away: when it accepts     *)
(* every descriptor, every section is whole where its descriptor says    *)
(* (checksum.go:103-121).                                                *)
SectionsVerifiedWhole ==
  HasHeader(file) /\ VerifySections(file) => \A i \in Section : SectionWhole(file, i)

(* What a tier of the verification accepts is whole.                        *)
VerifiedWhole == FileVerifiedWhole /\ SectionsVerifiedWhole

(* What nil from Close says of the file (writer.go:674-757).  Its hash and   *)
(* its signatures are right, and nothing follows them.  The archive opens    *)
(* and its sections have their hashes unless the temp file had a surplus: a  *)
(* torn write of a chunk before Close (pipeline.go:248), which is not an     *)
(* error of Close.  Then the hash and the signatures still pass, but the     *)
(* hash of CONTENT does not, and a section behind CONTENT is not where load  *)
(* looks for it.                                                             *)
CloseNilGood ==
  result = "nil" /\ ~ lost =>
    /\ VerifyFile(file)
    /\ Signed => SignatureValid(file)
    /\ DOMAIN file = 0 .. ChecksumOff + (IF Signed THEN 1 ELSE 0)
    /\ VerifySections(file) <=> Surplus = 0
    /\ Opens(file) <=> Placed = Section

(* No write of Close lands on what an earlier one wrote: the offsets of step *)
(* 13 are those that the writes reach (writer.go:613-757).  The placeholder  *)
(* is the exception, and the one cell of data that a surplus leaves where    *)
(* the hash is to go.                                                        *)
NothingOverwritten ==
  [][~ lost' =>
       \A p \in DOMAIN file :
         file[p] # Zero /\ (p = ChecksumOff => Surplus = 0) =>
           p \in DOMAIN file' /\ file'[p] = file[p]]_vars
=============================================================================
