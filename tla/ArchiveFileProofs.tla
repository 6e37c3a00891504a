--------------------------- MODULE ArchiveFileProofs ---------------------------
(***************************************************************************)
(* Proofs about ArchiveFile, for any number of sections and chunks, any    *)
(* failing write, any crash, and any loss of unsynced writes.              *)
(***************************************************************************)
EXTENDS ArchiveFile, TLAPS

Params == chunkOff \in 0 .. MaxChunks /\ extra \in 0 .. 1

(* Where the cells of section i really begin, and where the sections end.   *)
Start(i) == NumSections + i + (IF i > ContentIdx THEN chunkOff + Surplus ELSE 0)
End == ChecksumOff + Surplus

(* The layout is one section after the other, between table and hash.       *)
LEMMA Layout ==
  ASSUME Params
  PROVE  /\ NumSections \in Nat /\ ContentIdx \in Section /\ MaxChunks \in Nat
         /\ chunkOff \in Nat /\ extra \in {0, 1} /\ Surplus \in {0, 1} /\ Surplus <= extra
         /\ ChecksumOff \in Nat /\ ChecksumOff > NumSections
         /\ End \in Nat /\ End >= ChecksumOff /\ End <= ChecksumOff + 1
         /\ \A i \in Section :
              /\ i \in Nat /\ i >= 1 /\ i <= NumSections
              /\ Size(i) \in Nat /\ Size(i) >= 1
              /\ Off(i) \in Nat /\ Off(i) > NumSections /\ Off(i) + Size(i) <= ChecksumOff
              /\ Streamed(i) \in Nat /\ Streamed(i) >= Size(i)
              /\ Streamed(i) <= MaxChunks + 2
              /\ Start(i) \in Nat /\ Start(i) > NumSections /\ Start(i) + Streamed(i) <= End
              /\ (i \in Placed => Start(i) = Off(i)) /\ (Surplus = 0 => Streamed(i) = Size(i))
<1>1. NumSections \in Nat /\ ContentIdx \in 1 .. NumSections /\ MaxChunks \in Nat
  BY FileAssumption DEF FileAssumption
<1>2. chunkOff \in Nat /\ chunkOff <= MaxChunks /\ extra \in {0, 1}
  BY <1>1 DEF Params
<1>3. Surplus \in {0, 1} /\ Surplus <= extra /\ (chunkOff = 0 => Surplus = 0)
      /\ (chunkOff > 0 => Surplus = extra)
  BY <1>2 DEF Surplus
<1>4. ChecksumOff \in Nat /\ ChecksumOff > NumSections /\ End \in Nat
      /\ End >= ChecksumOff /\ End <= ChecksumOff + 1
  BY <1>1, <1>2, <1>3 DEF ChecksumOff, End
<1>5. ASSUME NEW i \in Section
      PROVE  /\ i \in Nat /\ i >= 1 /\ i <= NumSections
             /\ Size(i) \in Nat /\ Size(i) >= 1
             /\ Off(i) \in Nat /\ Off(i) > NumSections /\ Off(i) + Size(i) <= ChecksumOff
             /\ Streamed(i) \in Nat /\ Streamed(i) >= Size(i)
             /\ Streamed(i) <= MaxChunks + 2
             /\ Start(i) \in Nat /\ Start(i) > NumSections /\ Start(i) + Streamed(i) <= End
             /\ (i \in Placed => Start(i) = Off(i)) /\ (Surplus = 0 => Streamed(i) = Size(i))
  <2>1. i \in Nat /\ i >= 1 /\ i <= NumSections
    BY <1>1 DEF Section
  <2>2. CASE i = ContentIdx
    <3>1. /\ Size(i) = 1 + chunkOff /\ Off(i) = NumSections + i /\ Start(i) = NumSections + i
          /\ Streamed(i) = 1 + chunkOff + Surplus
      BY <1>1, <1>2, <1>3, <2>1, <2>2 DEF Size, Off, Start, Streamed
    <3>2. QED  BY <1>1, <1>2, <1>3, <2>1, <3>1 DEF ChecksumOff, End
  <2>3. CASE i < ContentIdx
    <3>1. /\ Size(i) = 1 /\ Off(i) = NumSections + i /\ Start(i) = NumSections + i
          /\ Streamed(i) = 1
      BY <1>1, <1>2, <2>1, <2>3 DEF Size, Off, Start, Streamed
    <3>2. QED  BY <1>1, <1>2, <1>3, <2>1, <2>3, <3>1 DEF ChecksumOff, End
  <2>4. CASE i > ContentIdx
    <3>1. /\ Size(i) = 1 /\ Off(i) = NumSections + i + chunkOff
          /\ Start(i) = NumSections + i + (chunkOff + Surplus)
          /\ Streamed(i) = 1
      BY <1>1, <1>2, <2>1, <2>4 DEF Size, Off, Start, Streamed
    <3>2. i \in Placed => Surplus = 0
      BY <1>1, <2>1, <2>4 DEF Placed
    <3>3. QED  BY <1>1, <1>2, <1>3, <2>1, <2>4, <3>1, <3>2 DEF ChecksumOff, End
  <2>5. QED  BY <1>1, <2>1, <2>2, <2>3, <2>4
<1>6. ContentIdx \in Section
  BY <1>1 DEF Section
<1>7. QED  BY <1>1, <1>2, <1>3, <1>4, <1>5, <1>6

(* The next section begins where the one before ends. *)
LEMMA NextStart ==
  ASSUME Params, NEW i \in Section
  PROVE  /\ i + 1 \in Section => Start(i + 1) = Start(i) + Streamed(i)
         /\ i + 1 \notin Section => i = NumSections /\ Start(i) + Streamed(i) = End
         /\ i = 1 => Start(i) = NumSections + 1
<1>1. NumSections \in Nat /\ ContentIdx \in 1 .. NumSections /\ i \in 1 .. NumSections
  BY FileAssumption DEF FileAssumption, Section
<1>2. chunkOff \in Nat /\ extra \in {0, 1} /\ Surplus \in {0, 1}
      /\ (chunkOff = 0 => Surplus = 0) /\ (chunkOff > 0 => Surplus = extra)
  BY FileAssumption DEF FileAssumption, Params, Surplus
<1>3. Streamed(i) = IF i = ContentIdx THEN 1 + chunkOff + Surplus ELSE 1
  BY <1>1, <1>2 DEF Streamed, Size
<1>4. QED  BY <1>1, <1>2, <1>3 DEF Start, End, ChecksumOff, Section

-----------------------------------------------------------------------------
(* The inductive invariant. *)

(* Section i is in f where it was written, but for what the hash overwrites. *)
Written(f, i) ==
  \A k \in 0 .. Streamed(i) - 1 :
    Start(i) + k < ChecksumOff => Start(i) + k \in DOMAIN f /\ f[Start(i) + k] = Data(i, k)

(* f holds what Close writes in front of the hash. *)
Complete(f) ==
  /\ f[0] = Header
  /\ \A i \in Section : f[i] = Desc(i)
  /\ \A i \in Section : Written(f, i)

(* What a cell at p may be, whatever was torn or lost: above all, a hash *)
(* anywhere is the one of a complete file.                               *)
CellOK(p, cell) ==
  /\ cell.kind \in Kind
  /\ cell.kind = "header" => p = 0 /\ cell.sections = NumSections
  /\ cell.kind = "desc" => p \in Section /\ (cell = Desc(p) \/ cell = DescOf(p, <<>>))
  /\ cell.kind = "sum" => p = ChecksumOff /\ Complete(cell.of)

Cells == \A p \in DOMAIN file : CellOK(p, file[p])

Types ==
  /\ pc \in {"placeholder", "sections", "header", "table", "sum", "trailer",
             "done", "crashed"}
  /\ \E size \in 0 .. ChecksumOff + extra + 2 : DOMAIN file = 0 .. size - 1
  /\ at \in 0 .. ChecksumOff + extra + 2
  /\ section \in 1 .. NumSections + 1
  /\ part \in 0 .. MaxChunks + 1
  /\ result \in {"none", "nil", "error"}
  /\ pc \notin {"done", "crashed"} => result = "none"
  /\ lost \in BOOLEAN
  /\ lost => pc = "crashed"

(* Where Close is, and what it has written in front of it. *)
Progress ==
  /\ pc = "placeholder" => DOMAIN file = {} /\ at = 0 /\ section = 1 /\ part = 0
  /\ pc = "sections" =>
       /\ section \in Section /\ part \in 0 .. Streamed(section) - 1
       /\ at = Start(section) + part /\ DOMAIN file = 0 .. at - 1
  /\ pc \in {"header", "table", "sum"} => DOMAIN file = 0 .. End - 1
  /\ pc = "header" => at = 0
  /\ pc \in {"sections", "header"} => \A p \in 0 .. NumSections : file[p] = Zero
  /\ pc = "table" =>
       /\ at \in Section
       /\ \A p \in Section : file[p] = IF p < at THEN Desc(p) ELSE Zero
  /\ pc \in {"table", "sum", "trailer"} => file[0] = Header
  /\ pc \in {"sum", "trailer"} => \A p \in Section : file[p] = Desc(p)
  /\ pc = "sum" => at = ChecksumOff
  /\ pc = "trailer" =>
       /\ at = ChecksumOff + 1 /\ DOMAIN file = 0 .. ChecksumOff
       /\ file[ChecksumOff] = Sum(file) /\ Signed

AllWritten == \A i \in Section : Written(file, i)

(* The sections that are written. *)
Wholes ==
  /\ pc = "sections" =>
       /\ \A i \in Section : i < section => Written(file, i)
       /\ \A k \in 0 .. part - 1 : file[Start(section) + k] = Data(section, k)
  /\ pc \in {"header", "table", "sum", "trailer"} => AllWritten
  /\ ~ lost /\ HasHeader(file) => AllWritten

(* What Close leaves when it returns nil. *)
Nil ==
  result = "nil" /\ ~ lost =>
    /\ DOMAIN file = 0 .. ChecksumOff + (IF Signed THEN 1 ELSE 0)
    /\ file[0] = Header /\ \A i \in Section : file[i] = Desc(i)
    /\ AllWritten
    /\ file[ChecksumOff] = Sum(file)
    /\ Signed => file[ChecksumOff + 1] = Signatures(file)

IInv == Params /\ Types /\ Cells /\ Progress /\ Wholes /\ Nil

LEMMA InitOK == Init => IInv
<1> SUFFICES ASSUME Init  PROVE IInv
  OBVIOUS
<1>1. Params /\ DOMAIN file = {} /\ pc = "placeholder" /\ result = "none" /\ lost = FALSE
      /\ at = 0 /\ section = 1 /\ part = 0
  BY DEF Init, Params
<1>2. NumSections \in Nat /\ ChecksumOff \in Nat /\ extra \in {0, 1} /\ MaxChunks \in Nat
  BY <1>1, Layout
<1>3. \E size \in 0 .. ChecksumOff + extra + 2 : DOMAIN file = 0 .. size - 1
  <2>1. 0 \in 0 .. ChecksumOff + extra + 2 /\ {} = 0 .. 0 - 1
    BY <1>2
  <2>2. QED  BY <1>1, <2>1
<1>4. /\ 0 \in 0 .. ChecksumOff + extra + 2 /\ 1 \in 1 .. NumSections + 1
      /\ 0 \in 0 .. MaxChunks + 1
  BY <1>2
<1>5. Types
  BY <1>1, <1>3, <1>4 DEF Types
<1>6. Cells /\ Progress /\ Wholes /\ Nil
  BY <1>1 DEF Cells, Progress, Wholes, Nil, HasHeader
<1>7. QED  BY <1>1, <1>5, <1>6 DEF IInv

-----------------------------------------------------------------------------
(* No step changes the layout. *)
LEMMA Same ==
  ASSUME UNCHANGED <<chunkOff, extra>>
  PROVE  /\ Params => Params'
         /\ Header' = Header /\ ChecksumOff' = ChecksumOff /\ End' = End
         /\ \A i : /\ Off(i)' = Off(i) /\ Size(i)' = Size(i) /\ Start(i)' = Start(i)
                   /\ Streamed(i)' = Streamed(i) /\ Desc(i)' = Desc(i)
                   /\ DescOf(i, <<>>)' = DescOf(i, <<>>)
         /\ \A f : Complete(f) => Complete(f)'
         /\ \A f : Sum(f)' = Sum(f) /\ Signatures(f)' = Signatures(f)
<1>1. ChecksumOff' = ChecksumOff
  BY DEF ChecksumOff
<1>2. Surplus' = Surplus
  BY DEF Surplus
<1>3. \A i : Off(i)' = Off(i) /\ Size(i)' = Size(i)
  BY DEF Off, Size
<1>4. \A i : Streamed(i)' = Streamed(i)
  BY <1>2, <1>3 DEF Streamed
<1>5. \A i : DescOf(i, <<>>)' = DescOf(i, <<>>) /\ Desc(i)' = Desc(i)
  BY <1>3, <1>4 DEF DescOf, Desc, Data
<1>6. \A i : Start(i)' = Start(i)
  BY <1>2 DEF Start
<1>7. Header' = Header /\ End' = End /\ (Params => Params')
  BY <1>1, <1>2 DEF Header, HeaderOf, End, Params
<1>8. \A f : Complete(f) => Complete(f)'
  BY <1>1, <1>4, <1>5, <1>6, <1>7 DEF Complete, Written, Data
<1>9. \A f : Sum(f)' = Sum(f) /\ Signatures(f)' = Signatures(f)
  BY <1>1 DEF Sum, Signatures, Image
<1>10. QED  BY <1>1, <1>3, <1>4, <1>5, <1>6, <1>7, <1>8, <1>9

LEMMA SameCells ==
  ASSUME UNCHANGED <<chunkOff, extra>>, NEW p, NEW cell, CellOK(p, cell)
  PROVE  CellOK(p, cell)'
<1>1. /\ ChecksumOff' = ChecksumOff /\ Desc(p)' = Desc(p)
      /\ DescOf(p, <<>>)' = DescOf(p, <<>>)
      /\ Complete(cell.of) => Complete(cell.of)'
  BY Same
<1>2. QED  BY <1>1 DEF CellOK

-----------------------------------------------------------------------------
(* Writing one cell. *)

LEMMA PutFacts ==
  ASSUME NEW p, NEW cell, PutAt(p, cell)
  PROVE  /\ DOMAIN file' = DOMAIN file \union {p}
         /\ file'[p] = cell
         /\ \A q \in DOMAIN file : q # p => file'[q] = file[q]
BY DEF PutAt

LEMMA PutDomain ==
  ASSUME NEW n \in Nat, DOMAIN file = 0 .. n - 1, NEW p \in 0 .. n, NEW cell, PutAt(p, cell)
  PROVE  DOMAIN file' = IF p = n THEN 0 .. n ELSE 0 .. n - 1
<1>1. DOMAIN file' = DOMAIN file \union {p}
  BY PutFacts
<1>2. QED  BY <1>1

LEMMA PutKeepsCells ==
  ASSUME Cells, UNCHANGED given, NEW p, NEW cell, CellOK(p, cell), PutAt(p, cell)
  PROVE  Cells'
<1>1. ASSUME NEW q \in DOMAIN file'  PROVE CellOK(q, file'[q])
  <2>1. /\ DOMAIN file' = DOMAIN file \union {p} /\ file'[p] = cell
        /\ \A r \in DOMAIN file : r # p => file'[r] = file[r]
    BY PutFacts
  <2>2. CASE q = p
    BY <2>1, <2>2
  <2>3. CASE q # p
    <3>1. q \in DOMAIN file /\ file'[q] = file[q]
      BY <1>1, <2>1, <2>3
    <3>2. CellOK(q, file[q])
      BY <3>1 DEF Cells
    <3>3. QED  BY <3>1, <3>2
  <2>4. QED  BY <2>2, <2>3
<1>2. ASSUME NEW q, NEW c, CellOK(q, c)  PROVE CellOK(q, c)'
  BY <1>2, SameCells DEF given
<1>3. QED  BY <1>1, <1>2 DEF Cells

(* The file grows at its end only, and stays within the layout.             *)
LEMMA PutSize ==
  ASSUME Params, UNCHANGED given, NEW n \in 0 .. ChecksumOff + extra + 2,
         DOMAIN file = 0 .. n - 1, NEW p \in 0 .. n, p <= ChecksumOff + 1,
         NEW cell, PutAt(p, cell)
  PROVE  (\E size \in 0 .. ChecksumOff + extra + 2 : DOMAIN file = 0 .. size - 1)'
<1>1. ChecksumOff' = ChecksumOff /\ extra' = extra
  BY Same DEF given
<1>2. ChecksumOff \in Nat /\ extra \in {0, 1}
  BY Layout
<1>3. n \in Nat /\ p \in Nat
  BY <1>2
<1>4. DOMAIN file' = IF p = n THEN 0 .. n ELSE 0 .. n - 1
  BY <1>3, PutDomain
<1>5. CASE p = n
  <2>1. n + 1 \in 0 .. ChecksumOff + extra + 2 /\ (n + 1) - 1 = n
    BY <1>2, <1>3, <1>5
  <2>2. DOMAIN file' = 0 .. (n + 1) - 1
    BY <1>4, <1>5, <2>1
  <2>3. QED  BY <1>1, <2>1, <2>2
<1>6. CASE p # n
  BY <1>1, <1>4, <1>6
<1>7. QED  BY <1>5, <1>6

(* A section stays written when nothing between table and hash is changed.  *)
LEMMA WrittenStays ==
  ASSUME Params, UNCHANGED given, NEW i \in Section, Written(file, i),
         \A q \in DOMAIN file : NumSections < q /\ q < ChecksumOff =>
           q \in DOMAIN file' /\ file'[q] = file[q]
  PROVE  Written(file, i)'
<1>1. ASSUME NEW k \in 0 .. Streamed(i) - 1, Start(i) + k < ChecksumOff
      PROVE  Start(i) + k \in DOMAIN file' /\ file'[Start(i) + k] = Data(i, k)
  <2>1. Start(i) + k \in DOMAIN file /\ file[Start(i) + k] = Data(i, k)
    BY <1>1 DEF Written
  <2>2. NumSections < Start(i) + k
    <3>1. /\ Start(i) \in Nat /\ Streamed(i) \in Nat
          /\ Start(i) > NumSections /\ NumSections \in Nat
      BY Layout
    <3> HIDE DEF Section
    <3>2. QED  BY <3>1
  <2>3. QED  BY <1>1, <2>1, <2>2
<1>2. Start(i)' = Start(i) /\ Streamed(i)' = Streamed(i) /\ ChecksumOff' = ChecksumOff
  BY Same DEF given
<1>3. QED  BY <1>1, <1>2 DEF Written, Data

(* No write but those of sections reaches a section. *)
LEMMA AllStays ==
  ASSUME Params, UNCHANGED given, AllWritten, NEW p \in Nat,
         p <= NumSections \/ p >= ChecksumOff, NEW cell, PutAt(p, cell)
  PROVE  AllWritten'
<1>1. /\ DOMAIN file' = DOMAIN file \union {p}
      /\ \A q \in DOMAIN file : q # p => file'[q] = file[q]
  BY PutFacts
<1>2. \A q \in DOMAIN file : NumSections < q /\ q < ChecksumOff =>
        q \in DOMAIN file' /\ file'[q] = file[q]
  <2>1. NumSections \in Nat /\ ChecksumOff \in Nat
    BY Layout
  <2>2. \A q : NumSections < q /\ q < ChecksumOff => q # p
    BY <2>1
  <2>3. QED  BY <1>1, <2>2
<1>3. ASSUME NEW i \in Section  PROVE Written(file, i)'
  <2>1. Written(file, i)
    BY DEF AllWritten
  <2>2. QED  BY <1>2, <2>1, WrittenStays
<1>4. QED  BY <1>3 DEF AllWritten, Section

(* Where the next write lands. *)
LEMMA Where ==
  ASSUME IInv, pc \in {"sections", "header", "table", "sum", "trailer"}
  PROVE  \E n \in 0 .. ChecksumOff + extra + 2 :
           /\ DOMAIN file = 0 .. n - 1
           /\ at \in 0 .. n /\ at <= ChecksumOff + 1
           /\ pc = "sections" => at > NumSections
           /\ pc # "sections" => at <= NumSections \/ at >= ChecksumOff
<1>1. /\ ChecksumOff \in Nat /\ ChecksumOff > NumSections /\ NumSections \in Nat
      /\ End \in Nat /\ End >= ChecksumOff /\ End <= ChecksumOff + 1
      /\ extra \in {0, 1} /\ Surplus <= extra /\ Surplus \in {0, 1}
  BY Layout DEF IInv
<1>2. End <= ChecksumOff + extra
  BY <1>1 DEF End
<1>3. CASE pc = "sections"
  <2>1. /\ section \in Section /\ part \in 0 .. Streamed(section) - 1
        /\ at = Start(section) + part /\ DOMAIN file = 0 .. at - 1
    BY <1>3 DEF IInv, Progress
  <2>2. /\ Start(section) \in Nat /\ Start(section) > NumSections /\ Streamed(section) \in Nat
        /\ Start(section) + Streamed(section) <= End
    BY <2>1, Layout DEF IInv
  <2>3. at \in Nat /\ at < End /\ at > NumSections
    BY <1>1, <2>1, <2>2
  <2>4. at \in 0 .. ChecksumOff + extra + 2 /\ at \in 0 .. at /\ at <= ChecksumOff + 1
    BY <1>1, <1>2, <2>3
  <2>5. QED  BY <1>3, <2>1, <2>3, <2>4
<1>4. CASE pc \in {"header", "table", "sum"}
  <2>1. DOMAIN file = 0 .. End - 1 /\ End \in 0 .. ChecksumOff + extra + 2
    BY <1>1, <1>2, <1>4 DEF IInv, Progress
  <2>2. at \in Nat /\ at <= ChecksumOff /\ (at <= NumSections \/ at >= ChecksumOff)
    <3>1. pc = "header" => at = 0
      BY DEF IInv, Progress
    <3>2. pc = "table" => at \in Section
      BY DEF IInv, Progress
    <3>3. pc = "sum" => at = ChecksumOff
      BY DEF IInv, Progress
    <3>4. QED  BY <1>1, <1>4, <3>1, <3>2, <3>3 DEF Section
  <2>3. at \in 0 .. End /\ at <= ChecksumOff + 1
    BY <1>1, <2>2
  <2>4. QED  BY <1>4, <2>1, <2>2, <2>3
<1>5. CASE pc = "trailer"
  <2>1. at = ChecksumOff + 1 /\ DOMAIN file = 0 .. ChecksumOff
    BY <1>5 DEF IInv, Progress
  <2>2. /\ ChecksumOff + 1 \in 0 .. ChecksumOff + extra + 2 /\ at >= ChecksumOff
        /\ (ChecksumOff + 1) - 1 = ChecksumOff /\ at \in 0 .. ChecksumOff + 1
    BY <1>1, <2>1
  <2>3. DOMAIN file = 0 .. (ChecksumOff + 1) - 1 /\ at <= ChecksumOff + 1
    BY <1>1, <2>1, <2>2
  <2>4. QED  BY <1>5, <2>2, <2>3
<1>6. QED  BY <1>3, <1>4, <1>5

-----------------------------------------------------------------------------
(* A write that fails, at the header or behind it, or in a section. *)

LEMMA FailOK ==
  ASSUME IInv, pc \in {"sections", "header", "table", "sum", "trailer"},
         NEW parts, Fails(parts), \A cell \in parts : CellOK(at, cell)
  PROVE  IInv'
<1>1. /\ UNCHANGED given /\ pc' = "done" /\ result' = "error"
      /\ UNCHANGED <<at, section, part, chunkOff, extra, lost>>
  BY DEF Fails, given
<1>2. UNCHANGED file \/ \E cell \in parts : PutAt(at, cell)
  BY DEF Fails
<1>3. PICK n \in 0 .. ChecksumOff + extra + 2 :
        /\ DOMAIN file = 0 .. n - 1
        /\ at \in 0 .. n /\ at <= ChecksumOff + 1
        /\ pc = "sections" => at > NumSections
        /\ pc # "sections" => at <= NumSections \/ at >= ChecksumOff
  BY Where
<1>4. Params /\ Params' /\ ChecksumOff' = ChecksumOff
  BY <1>1, Same DEF IInv
<1>5. NumSections \in Nat /\ at \in Nat
  BY <1>3, <1>4, Layout
<1>6. Cells'
  <2>1. CASE UNCHANGED file
    BY <1>1, <2>1, SameCells DEF Cells, IInv
  <2>2. CASE \E cell \in parts : PutAt(at, cell)
    BY <1>1, <2>2, PutKeepsCells DEF IInv
  <2>3. QED  BY <1>2, <2>1, <2>2
<1>7. Types'
  <2>1. (\E size \in 0 .. ChecksumOff + extra + 2 : DOMAIN file = 0 .. size - 1)'
    <3>1. CASE UNCHANGED file
      BY <1>1, <1>4, <3>1 DEF IInv, Types
    <3>2. CASE \E cell \in parts : PutAt(at, cell)
      BY <1>1, <1>3, <1>4, <3>2, PutSize
    <3>3. QED  BY <1>2, <3>1, <3>2
  <2>2. lost = FALSE
    BY DEF IInv, Types
  <2>3. QED  BY <1>1, <1>4, <2>1, <2>2 DEF IInv, Types
<1>8. Progress' /\ Nil'
  BY <1>1 DEF Progress, Nil
<1>9. Wholes'
  <2>1. ASSUME HasHeader(file')  PROVE AllWritten'
    <3>1. CASE pc = "sections"
      <4>1. file[0] = Zero /\ at > NumSections
        BY <1>3, <1>5, <3>1 DEF IInv, Progress
      <4>2. 0 \in DOMAIN file /\ at # 0
        BY <1>3, <1>5, <4>1
      <4>3. file'[0] = Zero
        BY <1>2, <4>1, <4>2, PutFacts
      <4>4. QED  BY <2>1, <4>3 DEF HasHeader, Zero
    <3>2. CASE pc # "sections"
      <4>1. AllWritten
        BY <2>1, <3>2 DEF IInv, Wholes
      <4>2. CASE UNCHANGED file
        BY <1>1, <4>1, <4>2, Same DEF AllWritten, Written, Section, Data
      <4>3. CASE \E cell \in parts : PutAt(at, cell)
        BY <1>1, <1>3, <1>4, <1>5, <3>2, <4>1, <4>3, AllStays
      <4>4. QED  BY <1>2, <4>2, <4>3
    <3>3. QED  BY <3>1, <3>2
  <2>2. QED  BY <1>1, <2>1 DEF Wholes
<1>10. QED  BY <1>4, <1>6, <1>7, <1>8, <1>9 DEF IInv

(* A stop of the process, and a step that changes nothing. *)
LEMMA StopOK ==
  ASSUME IInv, ProcessCrash \/ UNCHANGED vars
  PROVE  IInv'
<1>1. /\ UNCHANGED <<file, at, section, part, chunkOff, extra, lost, result>>
      /\ pc' = pc \/ (pc' = "crashed" /\ pc \notin {"done", "crashed"})
  BY DEF ProcessCrash, vars, given
<1>2. Params /\ Params' /\ ChecksumOff' = ChecksumOff
  BY <1>1, Same DEF IInv
<1>3. Cells'
  BY <1>1, SameCells DEF Cells, IInv
<1>4. Types'
  BY <1>1, <1>2 DEF IInv, Types
<1>5. AllWritten' = AllWritten /\ \A i : Written(file, i)' = Written(file, i)
  BY <1>1, Same DEF AllWritten, Written, Section, Data
<1>6. CASE pc' = "crashed" /\ pc \notin {"done", "crashed"}
  <2>1. Progress' /\ Nil'
    BY <1>1, <1>6 DEF IInv, Types, Progress, Nil
  <2>2. Wholes'
    BY <1>1, <1>5, <1>6 DEF IInv, Wholes
  <2>3. QED  BY <1>2, <1>3, <1>4, <2>1, <2>2 DEF IInv
<1>7. CASE pc' = pc
  <2>1. Progress'
    BY <1>1, <1>7, Same DEF IInv, Progress, Section
  <2>2. Nil'
    BY <1>1, <1>5, <1>7, Same DEF IInv, Nil, Section
  <2>3. Wholes'
    BY <1>1, <1>5, <1>7, Same DEF IInv, Wholes, Data, Section
  <2>4. QED  BY <1>2, <1>3, <1>4, <2>1, <2>2, <2>3 DEF IInv
<1>8. QED  BY <1>1, <1>6, <1>7

(* A loss of writes leaves a shorter file, and no cell that was not there *)
(* but zeros and old data.                                                *)
LEMMA MachineCrashOK ==
  ASSUME IInv, MachineCrash
  PROVE  IInv'
<1>1. /\ UNCHANGED <<chunkOff, extra, at, section, part, result>>
      /\ pc' = "crashed" /\ lost' = TRUE
  BY DEF MachineCrash
<1>2. Params /\ Params' /\ ChecksumOff' = ChecksumOff /\ ChecksumOff \in Nat /\ extra \in Nat
  BY <1>1, Same, Layout, SMTT(30) DEF IInv
<1>3. PICK S \in SUBSET DOMAIN file, size \in {0} \union {p + 1 : p \in DOMAIN file},
           under \in UnderSum :
        file' = [p \in {q \in DOMAIN file : q < size} |->
                   IF p \notin S THEN file[p] ELSE IF p = ChecksumOff THEN under ELSE Zero]
  BY DEF MachineCrash
<1>4. Cells'
  <2>1. under.kind \in {"zero", "data"}
    BY <1>3 DEF UnderSum, Zero, Data
  <2>2. ASSUME NEW p \in DOMAIN file'  PROVE CellOK(p, file'[p])
    <3>1. p \in DOMAIN file
      BY <1>3
    <3>2. CASE p \notin S
      BY <1>3, <3>1, <3>2 DEF IInv, Cells
    <3>3. CASE p \in S
      <4>1. file'[p].kind \in {"zero", "data"}
        BY <1>3, <2>1, <3>3 DEF Zero
      <4>2. QED  BY <4>1 DEF CellOK, Kind
    <3>4. QED  BY <3>2, <3>3
  <2>3. QED  BY <1>1, <2>2, SameCells DEF Cells
<1>5. Types'
  <2>1. PICK n \in 0 .. ChecksumOff + extra + 2 : DOMAIN file = 0 .. n - 1
    BY DEF IInv, Types
  <2>2. n \in Nat /\ size \in Nat /\ size <= n
    BY <1>2, <1>3, <2>1
  <2>3. DOMAIN file' = {q \in DOMAIN file : q < size}
    BY <1>3
  <2>4. DOMAIN file' = 0 .. size - 1
    BY <2>1, <2>2, <2>3
  <2>5. size \in 0 .. ChecksumOff + extra + 2
    BY <1>2, <2>1, <2>2
  <2>6. (\E s \in 0 .. ChecksumOff + extra + 2 : DOMAIN file = 0 .. s - 1)'
    BY <1>1, <1>2, <2>4, <2>5
  <2>7. QED  BY <1>1, <1>2, <2>6 DEF IInv, Types
<1>6. Progress' /\ Wholes' /\ Nil'
  BY <1>1 DEF Progress, Wholes, Nil
<1>7. QED  BY <1>2, <1>4, <1>5, <1>6 DEF IInv

-----------------------------------------------------------------------------
(* The writes of Close. *)

LEMMA PlaceholderOK ==
  ASSUME IInv, WritePlaceholder
  PROVE  IInv'
<1>1. PICK n \in 0 .. NumSections + 1 :
        /\ file' = [p \in 0 .. n - 1 |-> Zero]
        /\ \/ /\ n = NumSections + 1 /\ at' = NumSections + 1
              /\ pc' = "sections" /\ UNCHANGED <<section, part, given, result>>
           \/ /\ pc' = "done" /\ result' = "error"
              /\ UNCHANGED <<at, section, part, given>>
  <2>1. NumSections \in Nat /\ NumSections + 1 \in 0 .. NumSections + 1
        /\ (NumSections + 1) - 1 = NumSections
    BY Layout DEF IInv
  <2>2. \A n \in 0 .. NumSections : n \in 0 .. NumSections + 1
    BY <2>1
  <2>3. CASE /\ file' = [p \in 0 .. NumSections |-> Zero]
             /\ at' = NumSections + 1 /\ pc' = "sections"
             /\ UNCHANGED <<section, part, given, result>>
    <3>1. file' = [p \in 0 .. (NumSections + 1) - 1 |-> Zero]
      BY <2>1, <2>3
    <3>2. QED  BY <2>1, <2>3, <3>1
  <2>4. CASE \E n \in 0 .. NumSections :
               /\ file' = [p \in 0 .. n - 1 |-> Zero]
               /\ pc' = "done" /\ result' = "error"
               /\ UNCHANGED <<at, section, part, given>>
    BY <2>2, <2>4
  <2>5. QED  BY <2>3, <2>4 DEF WritePlaceholder
<1>2. pc = "placeholder" /\ section = 1 /\ part = 0 /\ result = "none" /\ lost = FALSE /\ at = 0
  BY DEF WritePlaceholder, IInv, Progress, Types
<1>3. UNCHANGED <<chunkOff, extra, lost, section, part>>
  BY <1>1 DEF given
<1>4. Params /\ Params' /\ ChecksumOff' = ChecksumOff /\ End' = End
  BY <1>3, Same DEF IInv
<1>5. /\ NumSections \in Nat /\ ChecksumOff \in Nat /\ ChecksumOff > NumSections
      /\ extra \in {0, 1}
      /\ \A i \in Section : i >= 1 /\ i <= NumSections /\ Streamed(i) \in Nat /\ Streamed(i) >= Size(i)
                            /\ Size(i) >= 1 /\ Size(i) \in Nat
  BY <1>4, Layout
<1>6. 1 \in Section
  BY FileAssumption DEF FileAssumption, Section
<1>7. n \in 0 .. ChecksumOff + extra + 2
  BY <1>1, <1>5
<1>8. DOMAIN file' = 0 .. n - 1 /\ \A p \in DOMAIN file' : file'[p] = Zero
  BY <1>1
<1>9. Cells'
  <2>1. \A p \in DOMAIN file' : CellOK(p, file'[p])
    BY <1>8 DEF CellOK, Kind, Zero
  <2>2. QED  BY <1>3, <2>1, SameCells DEF Cells
<1>10. Types'
  <2>1. (\E size \in 0 .. ChecksumOff + extra + 2 : DOMAIN file = 0 .. size - 1)'
    BY <1>3, <1>4, <1>7, <1>8
  <2>2. at' \in 0 .. ChecksumOff + extra + 2
    BY <1>1, <1>2, <1>5
  <2>3. QED  BY <1>1, <1>2, <1>3, <1>4, <2>1, <2>2 DEF IInv, Types
<1>11. Progress'
  <2>1. CASE pc' = "done"
    BY <2>1 DEF Progress
  <2>2. CASE pc' = "sections"
    <3>1. n = NumSections + 1 /\ at' = NumSections + 1 /\ section' = 1 /\ part' = 0
      BY <1>1, <1>2, <2>2 DEF given
    <3>2. Streamed(1)' = Streamed(1) /\ Start(1)' = Start(1) /\ Section' = Section
      BY <1>3, Same DEF Section
    <3>3. Start(1) = NumSections + 1 /\ Streamed(1) \in Nat /\ Streamed(1) >= 1
      BY <1>4, <1>5, <1>6, NextStart
    <3>4. part' \in 0 .. Streamed(1) - 1 /\ at' = Start(1) + part'
          /\ n - 1 = at' - 1
      BY <1>5, <3>1, <3>3
    <3>5. \A p \in 0 .. NumSections : p \in DOMAIN file'
      BY <1>5, <1>8, <3>1
    <3>6. QED  BY <1>6, <1>8, <2>2, <3>1, <3>2, <3>4, <3>5 DEF Progress
  <2>3. QED  BY <1>1, <2>1, <2>2
<1>12. Wholes'
  <2>1. ~ HasHeader(file')
    BY <1>8 DEF HasHeader, Zero
  <2>2. \A i \in Section : ~ (i < 1)
    BY <1>5 DEF Section
  <2>3. \A k \in 0 .. 0 - 1 : FALSE
    OBVIOUS
  <2>4. section' = 1 /\ part' = 0 /\ pc' \in {"sections", "done"}
    BY <1>1, <1>2, <1>3
  <2>5. QED  BY <2>1, <2>2, <2>3, <2>4 DEF Wholes, Section
<1>13. Nil'
  BY <1>1, <1>2 DEF Nil
<1>14. QED  BY <1>4, <1>9, <1>10, <1>11, <1>12, <1>13 DEF IInv

LEMMA SectionOK ==
  ASSUME IInv, WriteSection
  PROVE  IInv'
<1>1. CASE Fails({Torn})
  <2>1. \A cell \in {Torn} : CellOK(at, cell)
    BY DEF CellOK, Torn, Kind
  <2>2. QED  BY <1>1, <2>1, FailOK DEF WriteSection
<1>2. CASE ~ Fails({Torn})
  <2>1. /\ PutAt(at, Data(section, part))
        /\ IF part + 1 < Streamed(section)
             THEN section' = section /\ part' = part + 1
             ELSE section' = section + 1 /\ part' = 0
        /\ IF section' \in Section
             THEN pc' = pc /\ at' = at + 1
             ELSE pc' = "header" /\ at' = 0
        /\ UNCHANGED <<given, result>> /\ UNCHANGED <<chunkOff, extra, lost>>
    BY <1>2 DEF WriteSection, given
  <2>2. pc = "sections" /\ result = "none" /\ lost = FALSE
    BY DEF WriteSection, IInv, Types
  <2>3. /\ section \in Section /\ part \in 0 .. Streamed(section) - 1
        /\ at = Start(section) + part /\ DOMAIN file = 0 .. at - 1
        /\ \A p \in 0 .. NumSections : file[p] = Zero
    BY <2>2 DEF IInv, Progress
  <2>4. Params /\ Params' /\ ChecksumOff' = ChecksumOff /\ End' = End /\ Section' = Section
    BY <2>1, Same DEF IInv, Section
  <2>5. \A i : Start(i)' = Start(i) /\ Streamed(i)' = Streamed(i)
               /\ Off(i)' = Off(i) /\ Size(i)' = Size(i)
    BY <2>1, Same
  <2>6. /\ NumSections \in Nat /\ ChecksumOff \in Nat /\ End \in Nat /\ End <= ChecksumOff + 1
        /\ extra \in {0, 1} /\ MaxChunks \in Nat /\ ChecksumOff > NumSections
        /\ Start(section) \in Nat /\ Start(section) > NumSections /\ Streamed(section) \in Nat
        /\ Start(section) + Streamed(section) <= End
        /\ Streamed(section) <= MaxChunks + 2 /\ section \in Nat /\ section <= NumSections
        /\ section >= 1
    BY <2>3, <2>4, Layout
  <2>7. at \in Nat /\ at > NumSections /\ at < End /\ part \in Nat /\ part < Streamed(section)
    BY <2>3, <2>6
  <2>8. /\ DOMAIN file' = 0 .. at /\ file'[at] = Data(section, part)
        /\ \A q \in 0 .. at - 1 : file'[q] = file[q]
    <3>1. at \in 0 .. at
      BY <2>7
    <3>2. DOMAIN file' = 0 .. at
      BY <2>1, <2>3, <2>7, <3>1, PutDomain
    <3>3. \A q \in 0 .. at - 1 : q # at
      BY <2>7
    <3>4. QED  BY <2>1, <2>3, <3>2, <3>3, PutFacts
  <2>9. Cells'
    <3>1. CellOK(at, Data(section, part))
      BY DEF CellOK, Data, Kind
    <3>2. QED  BY <2>1, <3>1, PutKeepsCells DEF IInv
  (* Where the next cell goes. *)
  <2>10. \/ /\ section' \in Section /\ pc' = "sections" /\ at' = at + 1
            /\ part' \in 0 .. Streamed(section') - 1 /\ at' = Start(section') + part'
            /\ \/ section' = section /\ part' = part + 1
               \/ section' = section + 1 /\ part' = 0 /\ part + 1 = Streamed(section)
         \/ /\ section' = NumSections + 1 /\ section = NumSections /\ part' = 0
            /\ pc' = "header" /\ at' = 0 /\ at + 1 = End /\ part + 1 = Streamed(section)
    <3>1. CASE part + 1 < Streamed(section)
      <4>1. section' = section /\ part' = part + 1 /\ pc' = "sections" /\ at' = at + 1
        BY <2>1, <2>2, <2>3, <3>1
      <4>2. part' \in 0 .. Streamed(section) - 1
        BY <2>6, <2>7, <3>1, <4>1
      <4>3. at' = Start(section) + part'
        <5>1. at = Start(section) + part
          BY <2>3
        <5> HIDE DEF Section
        <5>2. QED  BY <2>6, <2>7, <4>1, <5>1
      <4>4. QED  BY <2>3, <4>1, <4>2, <4>3
    <3>2. CASE ~ (part + 1 < Streamed(section))
      <4>1. section' = section + 1 /\ part' = 0 /\ part + 1 = Streamed(section)
        BY <2>1, <2>6, <2>7, <3>2
      <4>2. at + 1 = Start(section) + Streamed(section)
        BY <2>3, <2>6, <2>7, <4>1
      <4>3. CASE section + 1 \in Section
        <5>1. Start(section + 1) = at + 1
          BY <2>3, <2>4, <4>2, <4>3, NextStart
        <5>2. Streamed(section + 1) \in Nat /\ Streamed(section + 1) >= 1
          <6>1. Streamed(section + 1) >= Size(section + 1) /\ Size(section + 1) >= 1
                /\ Streamed(section + 1) \in Nat /\ Size(section + 1) \in Nat
            BY <2>4, <4>3, Layout
          <6>2. QED  BY <6>1
        <5>3. part' \in 0 .. Streamed(section + 1) - 1 /\ at + 1 = Start(section + 1) + part'
          BY <2>7, <4>1, <5>1, <5>2
        <5>4. pc' = "sections" /\ at' = at + 1
          BY <2>1, <2>2, <4>1, <4>3
        <5>5. QED  BY <4>1, <4>3, <5>3, <5>4
      <4>4. CASE section + 1 \notin Section
        <5>1. section = NumSections /\ at + 1 = End
          BY <2>3, <2>4, <4>2, <4>4, NextStart
        <5>2. QED  BY <2>1, <4>1, <4>4, <5>1
      <4>5. QED  BY <4>3, <4>4
    <3>3. QED  BY <3>1, <3>2
  <2>11. Types'
    <3>1. (\E size \in 0 .. ChecksumOff + extra + 2 : DOMAIN file = 0 .. size - 1)'
      <4>1. at \in 0 .. ChecksumOff + extra + 2 /\ at \in 0 .. at /\ at <= ChecksumOff + 1
        BY <2>6, <2>7
      <4>2. QED  BY <2>1, <2>3, <2>4, <4>1, PutSize
    <3>2. at' \in 0 .. ChecksumOff + extra + 2
      BY <2>6, <2>7, <2>10
    <3>3. section' \in 1 .. NumSections + 1
      BY <2>6, <2>10
    <3>4. part' \in 0 .. MaxChunks + 1
      BY <2>6, <2>7, <2>10
    <3>5. pc' \in {"sections", "header"}
      BY <2>10
    <3>6. QED  BY <2>1, <2>2, <2>4, <3>1, <3>2, <3>3, <3>4, <3>5 DEF Types
  <2>12. Progress'
    <3>1. \A p \in 0 .. NumSections : file'[p] = Zero
      <4>1. \A p \in 0 .. NumSections : p \in 0 .. at - 1
        BY <2>6, <2>7
      <4>2. QED  BY <2>3, <2>8, <4>1
    <3>2. CASE pc' = "sections"
      <4>1. section' \in Section /\ part' \in 0 .. Streamed(section') - 1
            /\ at' = Start(section') + part' /\ at' = at + 1
        BY <2>10, <3>2
      <4>2. Streamed(section)' = Streamed(section') /\ Start(section)' = Start(section')
        BY <2>1 DEF Streamed, Size, Start, Surplus
      <4>3. at' - 1 = at
        BY <2>7, <4>1
      <4>4. QED  BY <2>4, <2>8, <3>1, <3>2, <4>1, <4>2, <4>3 DEF Progress
    <3>3. CASE pc' = "header"
      <4>1. at + 1 = End /\ at' = 0
        BY <2>10, <3>3
      <4>2. End - 1 = at
        BY <2>6, <2>7, <4>1
      <4>3. QED  BY <2>4, <2>8, <3>1, <3>3, <4>1, <4>2 DEF Progress
    <3>4. QED  BY <2>10, <3>2, <3>3
  <2>13. Wholes'
    <3>1. ASSUME NEW i \in Section, Written(file, i)  PROVE Written(file, i)'
      <4>1. \A q \in DOMAIN file : q \in DOMAIN file' /\ file'[q] = file[q]
        BY <2>1, <2>3, <2>8, PutFacts
      <4>2. QED  BY <2>1, <2>4, <3>1, <4>1, WrittenStays
    <3>2. at = Start(section) + part
      BY <2>3
    <3>3. \A k \in 0 .. part : Start(section) + k \in DOMAIN file'
                               /\ file'[Start(section) + k] = Data(section, k)
      <4>1. ASSUME NEW k \in 0 .. part - 1
            PROVE  Start(section) + k \in DOMAIN file'
                   /\ file'[Start(section) + k] = Data(section, k)
        <5>1. file[Start(section) + k] = Data(section, k)
          BY <2>2 DEF IInv, Wholes
        <5>2. Start(section) + k \in 0 .. at - 1
          BY <2>6, <2>7, <3>2
        <5>3. Start(section) + k \in DOMAIN file'
          BY <2>7, <2>8, <5>2
        <5>4. QED  BY <2>8, <5>1, <5>2, <5>3
      <4>2. Start(section) + part \in DOMAIN file'
            /\ file'[Start(section) + part] = Data(section, part)
        BY <2>7, <2>8, <3>2
      <4>3. \A k \in 0 .. part : k = part \/ k \in 0 .. part - 1
        BY <2>7
      <4>4. QED  BY <4>1, <4>2, <4>3
    <3>4. ASSUME NEW i \in Section, i = section, part + 1 = Streamed(section)
          PROVE  Written(file, i)'
      <4>1. 0 .. Streamed(i) - 1 = 0 .. part
        BY <2>7, <3>4
      <4>2. \A k \in 0 .. Streamed(i) - 1 : Start(i) + k \in DOMAIN file'
                                            /\ file'[Start(i) + k] = Data(i, k)
        BY <3>3, <3>4, <4>1
      <4>3. QED  BY <2>4, <2>5, <4>2 DEF Written, Data
    <3>5. \A i \in Section : i < section => Written(file, i)'
      BY <2>2, <3>1 DEF IInv, Wholes
    <3>6. ~ HasHeader(file')
      <4>1. 0 \in 0 .. NumSections /\ 0 \in 0 .. at - 1
        BY <2>6, <2>7
      <4>2. file'[0] = Zero
        BY <2>3, <2>8, <4>1
      <4>3. QED  BY <4>2 DEF HasHeader, Zero
    <3>7. CASE pc' = "header"
      <4>1. section = NumSections /\ part + 1 = Streamed(section)
        BY <2>10, <3>7
      <4>2. \A i \in Section : i < section \/ i = section
        BY <2>6, <4>1 DEF Section
      <4>3. \A i \in Section : Written(file, i)'
        BY <3>4, <3>5, <4>1, <4>2
      <4>4. AllWritten'
        BY <2>4, <4>3 DEF AllWritten
      <4>5. QED  BY <3>6, <3>7, <4>4 DEF Wholes
    <3>8. CASE pc' = "sections" /\ section' = section /\ part' = part + 1
      <4>1. \A k \in 0 .. part' - 1 : k \in 0 .. part
        BY <2>7, <3>8
      <4>2. \A k \in 0 .. part' - 1 : file'[Start(section)' + k] = Data(section', k)
        <5>1. Start(section)' = Start(section)
          BY <2>1, <3>8 DEF Start, Surplus
        <5>2. QED  BY <3>3, <3>8, <4>1, <5>1
      <4>3. QED  BY <2>4, <3>5, <3>6, <3>8, <4>2 DEF Wholes, Data
    <3>9. CASE pc' = "sections" /\ section' = section + 1 /\ part' = 0
               /\ part + 1 = Streamed(section)
      <4>1. \A i \in Section : i < section' => i < section \/ i = section
        BY <2>6, <3>9 DEF Section
      <4>2. \A i \in Section : i < section' => Written(file, i)'
        BY <3>4, <3>5, <3>9, <4>1
      <4>3. \A k \in 0 .. part' - 1 : FALSE
        BY <3>9
      <4>4. QED  BY <2>4, <3>6, <3>9, <4>2, <4>3 DEF Wholes
    <3>10. QED  BY <2>10, <3>7, <3>8, <3>9
  <2>14. Nil'
    BY <2>1, <2>2 DEF Nil
  <2>15. QED  BY <2>4, <2>9, <2>11, <2>12, <2>13, <2>14 DEF IInv
<1>3. QED  BY <1>1, <1>2

(* What the writes behind the sections have in common. *)
LEMMA Behind ==
  ASSUME IInv, pc \in {"header", "table", "sum", "trailer"}, UNCHANGED given,
         NEW cell, CellOK(at, cell), PutAt(at, cell)
  PROVE  /\ Params' /\ Cells'
         /\ (\E size \in 0 .. ChecksumOff + extra + 2 : DOMAIN file = 0 .. size - 1)'
         /\ AllWritten'
<1>1. PICK n \in 0 .. ChecksumOff + extra + 2 :
        /\ DOMAIN file = 0 .. n - 1
        /\ at \in 0 .. n /\ at <= ChecksumOff + 1
        /\ pc # "sections" => at <= NumSections \/ at >= ChecksumOff
  BY Where
<1>2. Params /\ Params' /\ at \in Nat
  <2>1. Params /\ Params'
    BY Same DEF IInv, given
  <2>2. ChecksumOff \in Nat /\ extra \in Nat
    BY <2>1, Layout
  <2>3. QED  BY <1>1, <2>1, <2>2
<1>3. Cells'
  BY PutKeepsCells DEF IInv
<1>4. (\E size \in 0 .. ChecksumOff + extra + 2 : DOMAIN file = 0 .. size - 1)'
  BY <1>1, <1>2, PutSize
<1>5. AllWritten'
  <2>1. AllWritten
    BY DEF IInv, Wholes
  <2>2. QED  BY <1>1, <1>2, <2>1, AllStays
<1>6. QED  BY <1>2, <1>3, <1>4, <1>5

LEMMA HeaderOK ==
  ASSUME IInv, WriteHeader
  PROVE  IInv'
<1>1. pc = "header" /\ at = 0 /\ result = "none" /\ lost = FALSE /\ Params
      /\ DOMAIN file = 0 .. End - 1 /\ \A p \in 0 .. NumSections : file[p] = Zero
  BY DEF WriteHeader, IInv, Progress, Types
<1>2. /\ NumSections \in Nat /\ ChecksumOff \in Nat /\ ChecksumOff > NumSections
      /\ End \in Nat /\ End >= ChecksumOff /\ extra \in {0, 1}
  BY <1>1, Layout
<1>3. CellOK(at, Header)
  BY <1>1 DEF CellOK, Header, HeaderOf, Kind
<1>4. CASE Fails({Torn, HeaderOf(ChecksumOff, FALSE), HeaderOf(0, FALSE)})
  <2>1. \A cell \in {Torn, HeaderOf(ChecksumOff, FALSE), HeaderOf(0, FALSE)} : CellOK(at, cell)
    BY <1>1 DEF CellOK, Torn, Kind, HeaderOf
  <2>2. QED  BY <1>1, <1>4, <2>1, FailOK
<1>5. CASE /\ PutAt(at, Header) /\ at' = at + 1 /\ pc' = "table"
           /\ UNCHANGED <<section, part, given, result>>
  <2>1. UNCHANGED <<section, part, chunkOff, extra, lost, result>> /\ UNCHANGED given
    BY <1>5 DEF given
  <2>2. /\ Params' /\ Cells' /\ AllWritten'
        /\ (\E size \in 0 .. ChecksumOff + extra + 2 : DOMAIN file = 0 .. size - 1)'
    BY <1>1, <1>3, <1>5, <2>1, Behind
  <2>3. ChecksumOff' = ChecksumOff /\ End' = End /\ Header' = Header
    BY <2>1, Same
  <2>4. Types'
    <3>1. at' \in 0 .. ChecksumOff + extra + 2
      BY <1>1, <1>2, <1>5
    <3>2. QED  BY <1>1, <1>5, <2>1, <2>2, <2>3, <3>1 DEF IInv, Types
  <2>5. Progress'
    <3>1. DOMAIN file' = 0 .. End - 1
      <4>1. at \in 0 .. End /\ at # End
        BY <1>1, <1>2
      <4>2. QED  BY <1>1, <1>2, <1>5, <4>1, PutDomain
    <3>2. file'[0] = Header
      BY <1>1, <1>5, PutFacts
    <3>3. at' = 1 /\ 1 \in Section
      BY <1>1, <1>5, FileAssumption DEF FileAssumption, Section
    <3>4. ASSUME NEW p \in Section
          PROVE  ~ (p < 1) /\ file'[p] = Zero
      <4>1. p \in DOMAIN file /\ p # at /\ p \in 0 .. NumSections /\ ~ (p < 1)
        BY <1>1, <1>2, <3>4 DEF Section
      <4>2. QED  BY <1>1, <1>5, <4>1, PutFacts
    <3>5. Section' = Section
      BY DEF Section
    <3>6. QED  BY <1>5, <2>3, <3>1, <3>2, <3>3, <3>4, <3>5 DEF Progress
  <2>6. Wholes' /\ Nil'
    BY <1>1, <1>5, <2>1, <2>2 DEF Wholes, Nil
  <2>7. QED  BY <2>2, <2>4, <2>5, <2>6 DEF IInv
<1>6. QED  BY <1>4, <1>5 DEF WriteHeader

LEMMA DescOK ==
  ASSUME IInv, WriteDesc
  PROVE  IInv'
<1>1. /\ pc = "table" /\ at \in Section /\ result = "none" /\ lost = FALSE /\ Params
      /\ DOMAIN file = 0 .. End - 1 /\ file[0] = Header
      /\ \A p \in Section : file[p] = IF p < at THEN Desc(p) ELSE Zero
  BY DEF WriteDesc, IInv, Progress, Types
<1>2. /\ NumSections \in Nat /\ ChecksumOff \in Nat /\ ChecksumOff > NumSections
      /\ End \in Nat /\ End >= ChecksumOff /\ extra \in {0, 1}
      /\ at \in Nat /\ at >= 1 /\ at <= NumSections
  BY <1>1, Layout
<1>3. CellOK(at, Desc(at)) /\ CellOK(at, DescOf(at, <<>>)) /\ CellOK(at, Torn)
  BY <1>1 DEF CellOK, Desc, DescOf, Torn, Kind
<1>4. CASE Fails({Torn, DescOf(at, <<>>)})
  BY <1>1, <1>3, <1>4, FailOK
<1>5. CASE /\ PutAt(at, Desc(at))
           /\ IF at < NumSections THEN pc' = pc /\ at' = at + 1
                                  ELSE pc' = "sum" /\ at' = ChecksumOff
           /\ UNCHANGED <<section, part, given, result>>
  <2>1. UNCHANGED <<section, part, chunkOff, extra, lost, result>> /\ UNCHANGED given
    BY <1>5 DEF given
  <2>2. /\ Params' /\ Cells' /\ AllWritten'
        /\ (\E size \in 0 .. ChecksumOff + extra + 2 : DOMAIN file = 0 .. size - 1)'
    BY <1>1, <1>3, <1>5, <2>1, Behind
  <2>3. ChecksumOff' = ChecksumOff /\ End' = End /\ Header' = Header
        /\ \A i : Desc(i)' = Desc(i)
    BY <2>1, Same
  <2>4. Types'
    <3>1. at' \in 0 .. ChecksumOff + extra + 2 /\ pc' \in {"table", "sum"}
      BY <1>1, <1>2, <1>5
    <3>2. QED  BY <1>1, <2>1, <2>2, <2>3, <3>1 DEF IInv, Types
  <2>5. DOMAIN file' = 0 .. End - 1
    <3>1. at \in 0 .. End /\ at # End
      BY <1>2
    <3>2. QED  BY <1>1, <1>2, <1>5, <3>1, PutDomain
  <2>6. file'[0] = Header
    <3>1. 0 \in DOMAIN file /\ 0 # at
      BY <1>1, <1>2
    <3>2. QED  BY <1>1, <1>5, <3>1, PutFacts
  <2>7. ASSUME NEW p \in Section
        PROVE  file'[p] = IF p < at + 1 THEN Desc(p) ELSE Zero
    <3>1. p \in DOMAIN file /\ p \in Nat
      BY <1>1, <1>2, <2>7 DEF Section
    <3>2. CASE p = at
      <4>1. file'[p] = Desc(p)
        BY <1>5, <3>2, PutFacts
      <4>2. p < at + 1
        BY <1>2, <3>2
      <4>3. QED  BY <4>1, <4>2
    <3>3. CASE p # at
      <4>1. file'[p] = file[p]
        BY <1>5, <3>1, <3>3, PutFacts
      <4>2. p < at + 1 <=> p < at
        BY <1>2, <3>1, <3>3
      <4>3. file[p] = IF p < at THEN Desc(p) ELSE Zero
        BY <1>1
      <4>4. QED  BY <4>1, <4>2, <4>3
    <3>4. QED  BY <3>2, <3>3
  <2>8. Progress'
    <3>1. Section' = Section
      BY DEF Section
    <3>2. CASE at < NumSections
      <4>1. pc' = "table" /\ at' = at + 1 /\ at + 1 \in Section
        BY <1>1, <1>2, <1>5, <3>2 DEF Section
      <4>2. QED  BY <2>3, <2>5, <2>6, <2>7, <3>1, <4>1 DEF Progress
    <3>3. CASE ~ (at < NumSections)
      <4>1. pc' = "sum" /\ at' = ChecksumOff /\ \A p \in Section : p < at + 1
        BY <1>2, <1>5, <3>3 DEF Section
      <4>2. \A p \in Section : file'[p] = Desc(p)
        BY <2>7, <4>1
      <4>3. QED  BY <2>3, <2>5, <2>6, <3>1, <4>1, <4>2 DEF Progress
    <3>4. QED  BY <3>2, <3>3
  <2>9. Wholes' /\ Nil'
    <3>1. pc' \in {"table", "sum"}
      BY <1>1, <1>5
    <3>2. QED  BY <1>1, <2>1, <2>2, <3>1 DEF Wholes, Nil
  <2>10. QED  BY <2>2, <2>4, <2>8, <2>9 DEF IInv
<1>6. QED  BY <1>4, <1>5 DEF WriteDesc

(* The hash and the signatures change nothing of what is hashed. *)
LEMMA ImageStays ==
  ASSUME Params, NEW p \in Nat, p >= ChecksumOff, 0 .. ChecksumOff - 1 \subseteq DOMAIN file,
         NEW cell, PutAt(p, cell)
  PROVE  Image(file', ChecksumOff) = Image(file, ChecksumOff)
<1>1. ChecksumOff \in Nat
  BY Layout
<1>2. \A q \in 0 .. ChecksumOff - 1 : q # p
  BY <1>1
<1>3. \A q \in 0 .. ChecksumOff - 1 : file'[q] = file[q]
  BY <1>2, PutFacts
<1>4. QED  BY <1>3 DEF Image

LEMMA SumOK ==
  ASSUME IInv, WriteSum
  PROVE  IInv'
<1>1. /\ pc = "sum" /\ at = ChecksumOff /\ result = "none" /\ lost = FALSE /\ Params
      /\ DOMAIN file = 0 .. End - 1 /\ file[0] = Header
      /\ \A p \in Section : file[p] = Desc(p)
  BY DEF WriteSum, IInv, Progress, Types
<1>2. /\ NumSections \in Nat /\ ChecksumOff \in Nat /\ ChecksumOff > NumSections
      /\ End \in Nat /\ End >= ChecksumOff /\ End <= ChecksumOff + 1 /\ extra \in {0, 1}
  BY <1>1, Layout
<1>3. Complete(Image(file, ChecksumOff))
  <2>1. /\ DOMAIN Image(file, ChecksumOff) = 0 .. ChecksumOff - 1
        /\ \A p \in 0 .. ChecksumOff - 1 : Image(file, ChecksumOff)[p] = file[p]
    BY DEF Image
  <2>2. 0 \in 0 .. ChecksumOff - 1 /\ \A i \in Section : i \in 0 .. ChecksumOff - 1
    BY <1>2 DEF Section
  <2>3. ASSUME NEW i \in Section  PROVE Written(Image(file, ChecksumOff), i)
    <3>1. Written(file, i)
      BY <1>1 DEF IInv, Wholes, AllWritten
    <3>2. Start(i) \in Nat /\ Streamed(i) \in Nat
      BY <1>1, Layout
    <3>3. \A k \in 0 .. Streamed(i) - 1 :
            Start(i) + k < ChecksumOff => Start(i) + k \in 0 .. ChecksumOff - 1
      <4> HIDE DEF Section
      <4>1. QED  BY <1>2, <3>2
    <3>4. QED  BY <2>1, <3>1, <3>3 DEF Written
  <2>4. QED  BY <1>1, <2>1, <2>2, <2>3 DEF Complete
<1>4. CellOK(at, Sum(file)) /\ CellOK(at, Torn)
  BY <1>1, <1>3 DEF CellOK, Sum, Torn, Kind
<1>5. CASE Fails({Torn})
  BY <1>1, <1>4, <1>5, FailOK
<1>6. CASE /\ PutAt(at, Sum(file)) /\ at' = at + 1
           /\ IF Signed THEN pc' = "trailer" /\ UNCHANGED result
                        ELSE pc' = "done" /\ result' = "nil"
           /\ UNCHANGED <<section, part, given>>
  <2>1. UNCHANGED <<section, part, chunkOff, extra, lost>> /\ UNCHANGED given
    BY <1>6 DEF given
  <2>2. /\ Params' /\ Cells' /\ AllWritten'
        /\ (\E size \in 0 .. ChecksumOff + extra + 2 : DOMAIN file = 0 .. size - 1)'
    BY <1>1, <1>4, <1>6, <2>1, Behind
  <2>3. ChecksumOff' = ChecksumOff /\ Header' = Header /\ \A i : Desc(i)' = Desc(i)
    BY <2>1, Same
  <2>4. Types'
    <3>1. at' \in 0 .. ChecksumOff + extra + 2
      BY <1>1, <1>2, <1>6
    <3>2. CASE Signed
      BY <1>1, <1>6, <2>1, <2>2, <2>3, <3>1, <3>2 DEF IInv, Types
    <3>3. CASE ~ Signed
      BY <1>1, <1>6, <2>1, <2>2, <2>3, <3>1, <3>3 DEF IInv, Types
    <3>4. QED  BY <3>2, <3>3
  <2>5. DOMAIN file' = 0 .. ChecksumOff
    <3>1. at \in 0 .. End
      BY <1>1, <1>2
    <3>2. DOMAIN file' = IF at = End THEN 0 .. End ELSE 0 .. End - 1
      BY <1>1, <1>2, <1>6, <3>1, PutDomain
    <3>3. IF at = End THEN End = ChecksumOff ELSE End - 1 = ChecksumOff
      BY <1>1, <1>2
    <3>4. QED  BY <3>2, <3>3
  <2>6. file'[0] = Header /\ \A p \in Section : file'[p] = Desc(p)
    <3>1. 0 \in DOMAIN file /\ 0 # at /\ \A p \in Section : p \in DOMAIN file /\ p # at
      BY <1>1, <1>2 DEF Section
    <3>2. QED  BY <1>1, <1>6, <3>1, PutFacts
  <2>7. file'[ChecksumOff] = Sum(file)'
    <3>1. 0 .. ChecksumOff - 1 \subseteq DOMAIN file /\ at >= ChecksumOff /\ at \in Nat
      BY <1>1, <1>2
    <3>2. Image(file', ChecksumOff) = Image(file, ChecksumOff)
      BY <1>1, <1>6, <3>1, ImageStays
    <3>3. file'[ChecksumOff] = Sum(file)
      BY <1>1, <1>6, PutFacts
    <3>4. QED  BY <2>3, <3>2, <3>3 DEF Sum, Image
  <2>8. Section' = Section
    BY DEF Section
  <2>9. CASE Signed
    <3>1. pc' = "trailer" /\ result' = "none" /\ at' = ChecksumOff + 1
      BY <1>1, <1>6, <2>9
    <3>2. Progress'
      BY <2>3, <2>5, <2>6, <2>7, <2>8, <2>9, <3>1 DEF Progress
    <3>3. Wholes' /\ Nil'
      BY <2>1, <2>2, <3>1 DEF Wholes, Nil
    <3>4. QED  BY <2>2, <2>4, <3>2, <3>3 DEF IInv
  <2>10. CASE ~ Signed
    <3>1. pc' = "done"
      BY <1>6, <2>10
    <3>2. Progress'
      BY <3>1 DEF Progress
    <3>3. Wholes'
      BY <2>1, <2>2, <3>1 DEF Wholes
    <3>4. ChecksumOff + 0 = ChecksumOff
      BY <1>2
    <3>5. Nil'
      BY <2>1, <2>2, <2>3, <2>5, <2>6, <2>7, <2>8, <2>10, <3>4 DEF Nil
    <3>6. QED  BY <2>2, <2>4, <3>2, <3>3, <3>5 DEF IInv
  <2>11. QED  BY <2>9, <2>10
<1>7. QED  BY <1>5, <1>6 DEF WriteSum

LEMMA TrailerOK ==
  ASSUME IInv, WriteTrailer
  PROVE  IInv'
<1>1. /\ pc = "trailer" /\ at = ChecksumOff + 1 /\ result = "none" /\ lost = FALSE /\ Params
      /\ Signed
      /\ DOMAIN file = 0 .. ChecksumOff /\ file[0] = Header
      /\ \A p \in Section : file[p] = Desc(p)
      /\ file[ChecksumOff] = Sum(file)
  BY DEF WriteTrailer, IInv, Progress, Types
<1>2. /\ NumSections \in Nat /\ ChecksumOff \in Nat /\ ChecksumOff > NumSections
      /\ extra \in {0, 1}
  BY <1>1, Layout
<1>3. CellOK(at, Signatures(file)) /\ CellOK(at, Torn)
  BY DEF CellOK, Signatures, Torn, Kind
<1>4. CASE Fails({Torn})
  BY <1>1, <1>3, <1>4, FailOK
<1>5. CASE /\ PutAt(at, Signatures(file)) /\ at' = at + 1
           /\ pc' = "done" /\ result' = "nil"
           /\ UNCHANGED <<section, part, given>>
  <2>1. UNCHANGED <<section, part, chunkOff, extra, lost>> /\ UNCHANGED given
    BY <1>5 DEF given
  <2>2. /\ Params' /\ Cells' /\ AllWritten'
        /\ (\E size \in 0 .. ChecksumOff + extra + 2 : DOMAIN file = 0 .. size - 1)'
    BY <1>1, <1>3, <1>5, <2>1, Behind
  <2>3. ChecksumOff' = ChecksumOff /\ Header' = Header /\ \A i : Desc(i)' = Desc(i)
    BY <2>1, Same
  <2>4. Types'
    <3>1. at' \in 0 .. ChecksumOff + extra + 2
      BY <1>1, <1>2, <1>5
    <3>2. QED  BY <1>1, <1>5, <2>1, <2>2, <2>3, <3>1 DEF IInv, Types
  <2>5. Progress' /\ Wholes'
    BY <1>5, <2>1, <2>2 DEF Progress, Wholes
  <2>6. Nil'
    <3>1. at \in 0 .. ChecksumOff + 1 /\ ChecksumOff + 1 \in Nat /\ (ChecksumOff + 1) - 1 = ChecksumOff
      BY <1>1, <1>2
    <3>2. DOMAIN file' = 0 .. ChecksumOff + 1
      BY <1>1, <1>5, <3>1, PutDomain
    <3>3. /\ 0 .. ChecksumOff - 1 \subseteq DOMAIN file /\ at >= ChecksumOff /\ at \in Nat
          /\ \A p \in Section : p \in DOMAIN file /\ p # at
          /\ 0 \in DOMAIN file /\ 0 # at /\ ChecksumOff \in DOMAIN file /\ ChecksumOff # at
      BY <1>1, <1>2 DEF Section
    <3>4. Image(file', ChecksumOff) = Image(file, ChecksumOff)
      BY <1>1, <1>5, <3>3, ImageStays
    <3>5. file'[0] = Header /\ file'[ChecksumOff] = Sum(file)
          /\ \A p \in Section : file'[p] = Desc(p)
      <4>1. \A q \in DOMAIN file : q # at => file'[q] = file[q]
        BY <1>5, PutFacts
      <4>2. file'[0] = file[0] /\ file'[ChecksumOff] = file[ChecksumOff]
            /\ \A p \in Section : file'[p] = file[p]
        <5>1. file'[0] = file[0]
          BY <3>3, <4>1
        <5>2. file'[ChecksumOff] = file[ChecksumOff]
          BY <3>3, <4>1
        <5>3. \A p \in Section : file'[p] = file[p]
          BY <3>3, <4>1
        <5>4. QED  BY <5>1, <5>2, <5>3
      <4>3. QED  BY <1>1, <4>2
    <3>6. file'[ChecksumOff + 1] = Signatures(file)
      BY <1>1, <1>5, PutFacts
    <3>7. Sum(file)' = Sum(file) /\ Signatures(file)' = Signatures(file)
      BY <2>3, <3>4 DEF Sum, Signatures, Image
    <3>8. Section' = Section
      BY DEF Section
    <3>9. QED  BY <1>1, <2>1, <2>2, <2>3, <3>2, <3>5, <3>6, <3>7, <3>8 DEF Nil
  <2>7. QED  BY <2>2, <2>4, <2>5, <2>6 DEF IInv
<1>6. QED  BY <1>4, <1>5 DEF WriteTrailer

LEMMA Inductive == Spec => []IInv
<1>1. IInv /\ [Next]_vars => IInv'
  BY PlaceholderOK, SectionOK, HeaderOK, DescOK, SumOK, TrailerOK, StopOK, MachineCrashOK
     DEF Next, Terminated
<1>2. QED  BY <1>1, InitOK, PTL DEF Spec

-----------------------------------------------------------------------------
(* A section that is placed is whole when it is written. *)
LEMMA WrittenWhole ==
  ASSUME Params, NEW f, NEW i \in Placed, Written(f, i)
  PROVE  SectionWhole(f, i)
<1>1. i \in Section
  BY DEF Placed
<1>2. /\ Start(i) = Off(i) /\ Off(i) \in Nat /\ Size(i) \in Nat /\ ChecksumOff \in Nat
      /\ Off(i) + Size(i) <= ChecksumOff /\ Streamed(i) \in Nat /\ Streamed(i) >= Size(i)
  BY <1>1, Layout
<1>3. \A k \in 0 .. Size(i) - 1 : k \in 0 .. Streamed(i) - 1 /\ Off(i) + k < ChecksumOff
  BY <1>2
<1>4. QED  BY <1>2, <1>3 DEF Written, SectionWhole

(* A header in the file means that every placed section is whole, whenever *)
(* Close is stopped and whichever write fails: Close writes the header     *)
(* last (writer.go:674-705), and stays within its layout.                  *)
THEOREM HeaderMeansSectionsAlways == Spec => []HeaderMeansSections
<1>1. IInv => HeaderMeansSections
  <2> SUFFICES ASSUME IInv  PROVE HeaderMeansSections
    OBVIOUS
  <2>1. TypeOK
    <3>1. \A p \in DOMAIN file : file[p].kind \in Kind
      BY DEF IInv, Cells, CellOK
    <3>2. QED  BY <3>1 DEF IInv, Params, Types, TypeOK
  <2>2. ~ lost /\ HasHeader(file) => \A i \in Placed : SectionWhole(file, i)
    BY WrittenWhole DEF IInv, Wholes, AllWritten, Placed
  <2>3. QED  BY <2>1, <2>2 DEF HeaderMeansSections
<1>2. QED  BY <1>1, Inductive, PTL

(* The file has no hole. *)
LEMMA NoHole ==
  ASSUME IInv, NEW p \in DOMAIN file, NEW q \in Nat, q <= p
  PROVE  p \in Nat /\ q \in DOMAIN file
<1>1. PICK size \in 0 .. ChecksumOff + extra + 2 : DOMAIN file = 0 .. size - 1
  BY DEF IInv, Types
<1>2. QED  BY <1>1

(* What Verify accepts is whole: only one hash can be at any place of the    *)
(* file, and only of the file that Close meant to write (checksum.go:21-49). *)
LEMMA FileWhole == IInv => FileVerifiedWhole
<1> SUFFICES ASSUME IInv, HasHeader(file), VerifyFile(file)
             PROVE  /\ file[0] = Header
                    /\ \A i \in Section : file[i] = Desc(i)
                    /\ \A i \in Placed : SectionWhole(file, i)
  BY DEF FileVerifiedWhole
<1> DEFINE c == file[0].checksumOff
<1>1. c \in DOMAIN file /\ file[c].kind = "sum" /\ file[c].of = Image(file, c)
  BY DEF VerifyFile
<1>2. c = ChecksumOff /\ Complete(Image(file, c))
  BY <1>1 DEF IInv, Cells, CellOK
<1>3. /\ NumSections \in Nat /\ ChecksumOff \in Nat /\ ChecksumOff > NumSections
  BY Layout DEF IInv
<1>4. \A p \in 0 .. ChecksumOff - 1 : p \in DOMAIN file /\ Image(file, c)[p] = file[p]
  <2>1. ASSUME NEW p \in 0 .. ChecksumOff - 1
        PROVE  p \in DOMAIN file
    <3>1. p \in Nat /\ p <= ChecksumOff
      BY <1>3
    <3>2. QED  BY <1>1, <1>2, <3>1, NoHole
  <2>2. QED  BY <1>2, <2>1 DEF Image
<1>5. 0 \in 0 .. ChecksumOff - 1 /\ \A i \in Section : i \in 0 .. ChecksumOff - 1
  BY <1>3 DEF Section
<1>6. ASSUME NEW i \in Placed  PROVE SectionWhole(file, i)
  <2>1. i \in Section
    BY DEF Placed
  <2>2. SectionWhole(Image(file, c), i)
    BY <1>2, <2>1, WrittenWhole DEF Complete, IInv
  <2>3. Off(i) \in Nat /\ Size(i) \in Nat /\ Off(i) + Size(i) <= ChecksumOff
    BY <2>1, Layout DEF IInv
  <2>4. \A k \in 0 .. Size(i) - 1 : Off(i) + k \in 0 .. ChecksumOff - 1
    <3> HIDE DEF Section, Placed
    <3>1. QED  BY <1>3, <2>3
  <2>5. QED  BY <1>4, <2>2, <2>4 DEF SectionWhole
<1>7. file[0] = Header /\ \A i \in Section : file[i] = Desc(i)
  BY <1>2, <1>4, <1>5 DEF Complete
<1>8. QED  BY <1>6, <1>7

(* What the second tier accepts is whole, also after a lost write or with a *)
(* temp file that is too long: a descriptor has the hash of its section, or *)
(* none, and that of a moved section fits nothing (checksum.go:103-121).    *)
LEMMA SectionsWhole == IInv => SectionsVerifiedWhole
<1> SUFFICES ASSUME IInv, HasHeader(file), VerifySections(file), NEW i \in Section
             PROVE  SectionWhole(file, i)
  BY DEF SectionsVerifiedWhole
<1>1. file[0].sections = NumSections
  BY DEF HasHeader, IInv, Cells, CellOK
<1>2. /\ i \in DOMAIN file /\ file[i].kind = "desc" /\ Place(file[i]) \subseteq DOMAIN file
      /\ file[i].sha = [k \in 0 .. file[i].size - 1 |-> file[file[i].off + k]]
  BY <1>1 DEF VerifySections, Section
<1>3. file[i] = Desc(i) \/ file[i] = DescOf(i, <<>>)
  BY <1>2 DEF IInv, Cells, CellOK
<1>4. file[i].off = Off(i) /\ file[i].size = Size(i)
  BY <1>3 DEF Desc, DescOf
<1>5. Off(i) \in Nat /\ Size(i) \in Nat /\ Size(i) >= 1
      /\ Streamed(i) \in Nat /\ Streamed(i) >= Size(i)
  BY Layout DEF IInv
<1>6. DOMAIN file[i].sha = 0 .. Size(i) - 1 /\ 0 \in 0 .. Size(i) - 1
      /\ \A k \in 0 .. Size(i) - 1 : file[i].sha[k] = file[Off(i) + k]
  <2>1. 0 \in 0 .. Size(i) - 1
    BY <1>5
  <2>2. QED  BY <1>2, <1>4, <2>1
<1>7. file[i] = Desc(i)
  <2>1. DOMAIN <<>> = {}
    OBVIOUS
  <2>2. file[i] # DescOf(i, <<>>)
    <3> SUFFICES ASSUME file[i] = DescOf(i, <<>>)  PROVE FALSE
      OBVIOUS
    <3>1. file[i].sha = <<>>
      BY DEF DescOf
    <3>2. QED  BY <1>6, <2>1, <3>1
  <2>3. QED  BY <1>3, <2>2
<1>8. \A k \in 0 .. Size(i) - 1 : file[i].sha[k] = Data(i, k)
  <2>1. file[i].sha = [k \in 0 .. Streamed(i) - 1 |-> Data(i, k)]
    BY <1>7 DEF Desc, DescOf
  <2>2. \A k \in 0 .. Size(i) - 1 : k \in 0 .. Streamed(i) - 1
    BY <1>5
  <2>3. QED  BY <2>1, <2>2
<1>9. \A k \in 0 .. Size(i) - 1 : Off(i) + k \in DOMAIN file
  <2>1. Place(file[i]) = Off(i) .. Off(i) + Size(i) - 1
    BY <1>2, <1>4 DEF Place
  <2>2. \A k \in 0 .. Size(i) - 1 : Off(i) + k \in Off(i) .. Off(i) + Size(i) - 1
    BY <1>5
  <2>3. QED  BY <1>2, <2>1, <2>2
<1>10. QED  BY <1>6, <1>8, <1>9 DEF SectionWhole

(* For every crash and every loss of writes: a file that the file hash       *)
(* accepts has all that Close meant to write, and one whose section hashes   *)
(* are right has every section where its descriptor says, also with a temp   *)
(* file that is too long (checksum.go:21-49, 103-121).                       *)
THEOREM VerifiedWholeAlways == Spec => []VerifiedWhole
<1>1. IInv => VerifiedWhole
  BY FileWhole, SectionsWhole DEF VerifiedWhole
<1>2. QED  BY <1>1, Inductive, PTL

(* What descriptor i gives of a file that is as Close left it. *)
LEMMA AtDesc ==
  ASSUME IInv, NEW i \in Section, file[i] = Desc(i)
  PROVE  /\ file[i].kind = "desc" /\ file[i].section = i
         /\ file[i].off = Off(i) /\ file[i].size = Size(i)
         /\ file[i].sha = [k \in 0 .. Streamed(i) - 1 |-> Data(i, k)]
<1>1. file[i] = [kind |-> "desc", section |-> i, off |-> Off(i), size |-> Size(i),
                 sha |-> [k \in 0 .. Streamed(i) - 1 |-> Data(i, k)]]
  BY DEF Desc, DescOf
<1>2. QED  BY <1>1

(* A section that is whole where its descriptor says loads, and has the hash *)
(* of its descriptor if that was all that was written for it.                *)
LEMMA WholeLoads ==
  ASSUME IInv, NEW i \in Section, file[i] = Desc(i), SectionWhole(file, i)
  PROVE  /\ Loads(file, file[i]) /\ Place(file[i]) \subseteq DOMAIN file
         /\ Surplus = 0 => file[i].sha = [k \in 0 .. file[i].size - 1 |-> file[file[i].off + k]]
<1>1. /\ file[i].kind = "desc" /\ file[i].section = i /\ file[i].off = Off(i)
      /\ file[i].size = Size(i)
      /\ file[i].sha = [k \in 0 .. Streamed(i) - 1 |-> Data(i, k)]
  BY AtDesc
<1>2. /\ Off(i) \in Nat /\ Size(i) \in Nat /\ Size(i) >= 1
      /\ Surplus = 0 => Streamed(i) = Size(i)
  BY Layout DEF IInv
<1>3. \A k \in 0 .. Size(i) - 1 : Off(i) + k \in DOMAIN file /\ file[Off(i) + k] = Data(i, k)
  BY DEF SectionWhole
<1>4. Surplus = 0 => file[i].sha = [k \in 0 .. Size(i) - 1 |-> file[Off(i) + k]]
  BY <1>1, <1>2, <1>3
<1>5. 0 \in 0 .. Size(i) - 1 /\ Off(i) + 0 = Off(i)
  BY <1>2
<1>6. Off(i) \in DOMAIN file /\ file[Off(i)] = Data(i, 0)
  BY <1>3, <1>5
<1>7. \A p \in Off(i) .. Off(i) + Size(i) - 1 :
        p - Off(i) \in 0 .. Size(i) - 1 /\ Off(i) + (p - Off(i)) = p
  BY <1>2
<1>8. Off(i) .. Off(i) + Size(i) - 1 \subseteq DOMAIN file
  BY <1>3, <1>7
<1>9. Place(file[i]) \subseteq DOMAIN file
  BY <1>1, <1>8 DEF Place
<1>10. Loads(file, file[i])
  BY <1>1, <1>6 DEF Loads
<1>11. QED  BY <1>1, <1>4, <1>9, <1>10

(* Where the section behind CONTENT should be, the surplus is.               *)
LEMMA SurplusShows ==
  ASSUME IInv, AllWritten, Placed # Section
  PROVE  /\ ContentIdx + 1 \in Section /\ Surplus > 0
         /\ file[Off(ContentIdx + 1)] # Data(ContentIdx + 1, 0)
<1>1. NumSections \in Nat /\ ContentIdx \in 1 .. NumSections
  BY FileAssumption DEF FileAssumption
<1>2. PICK i \in Section : i > ContentIdx /\ Surplus # 0
  BY <1>1 DEF Placed, Section
<1>3. chunkOff \in Nat /\ Surplus = 1
  BY <1>2, Layout DEF IInv
<1>4. ContentIdx + 1 \in Section /\ ContentIdx \in Section
  BY <1>1, <1>2 DEF Section
<1>5. /\ Streamed(ContentIdx) = 2 + chunkOff /\ Start(ContentIdx) = NumSections + ContentIdx
      /\ Off(ContentIdx + 1) = NumSections + ContentIdx + 1 + chunkOff
  BY <1>1, <1>3 DEF Streamed, Start, Size, Off
<1>6. /\ 1 + chunkOff \in 0 .. Streamed(ContentIdx) - 1
      /\ Start(ContentIdx) + (1 + chunkOff) = Off(ContentIdx + 1)
      /\ Off(ContentIdx + 1) < ChecksumOff
  BY <1>1, <1>3, <1>4, <1>5 DEF ChecksumOff, Section
<1>7. file[Off(ContentIdx + 1)] = Data(ContentIdx, 1 + chunkOff)
  BY <1>4, <1>6 DEF AllWritten, Written
<1>8. Data(ContentIdx, 1 + chunkOff) # Data(ContentIdx + 1, 0)
  <2>1. Data(ContentIdx, 1 + chunkOff).section = ContentIdx
        /\ Data(ContentIdx + 1, 0).section = ContentIdx + 1
    BY DEF Data
  <2>2. ContentIdx # ContentIdx + 1
    BY <1>1
  <2>3. QED  BY <2>1, <2>2
<1>9. QED  BY <1>3, <1>4, <1>7, <1>8

(* What nil from Close says of the file, when no write is lost: hash and     *)
(* signatures always pass; the archive opens and its sections have their     *)
(* hashes just when the temp file had no surplus, or, to open, when nothing  *)
(* follows CONTENT (writer.go:674-757).                                      *)
THEOREM CloseNilGoodAlways == Spec => []CloseNilGood
<1>1. IInv => CloseNilGood
  <2> SUFFICES ASSUME IInv, result = "nil", ~ lost
               PROVE  /\ VerifyFile(file)
                      /\ Signed => SignatureValid(file)
                      /\ DOMAIN file = 0 .. ChecksumOff + (IF Signed THEN 1 ELSE 0)
                      /\ VerifySections(file) <=> Surplus = 0
                      /\ Opens(file) <=> Placed = Section
    BY DEF CloseNilGood
  <2>1. /\ DOMAIN file = 0 .. ChecksumOff + (IF Signed THEN 1 ELSE 0)
        /\ file[0] = Header /\ \A i \in Section : file[i] = Desc(i)
        /\ AllWritten
        /\ file[ChecksumOff] = Sum(file)
        /\ Signed => file[ChecksumOff + 1] = Signatures(file)
    BY DEF IInv, Nil
  <2>2. /\ NumSections \in Nat /\ ChecksumOff \in Nat /\ ChecksumOff > NumSections
        /\ Params /\ Surplus \in {0, 1}
    BY Layout DEF IInv
  <2>3. 0 \in DOMAIN file /\ ChecksumOff \in DOMAIN file /\ \A i \in Section : i \in DOMAIN file
    BY <2>1, <2>2 DEF Section
  <2>4. /\ file[0].kind = "header" /\ file[0].sections = NumSections
        /\ file[0].checksumOff = ChecksumOff
    BY <2>1 DEF Header, HeaderOf
  <2>5. \A i \in Placed : SectionWhole(file, i)
    BY <2>1, <2>2, WrittenWhole DEF AllWritten, Placed
  <2>6. VerifyFile(file)
    BY <2>1, <2>3, <2>4 DEF VerifyFile, Sum
  <2>7. ASSUME Signed  PROVE SignatureValid(file)
    <3>1. ChecksumOff + 1 \in DOMAIN file
      BY <2>1, <2>2, <2>7
    <3>2. file[ChecksumOff].kind = "sum" /\ file[ChecksumOff + 1].kind = "signatures"
          /\ file[ChecksumOff + 1].of = file[ChecksumOff].of
      BY <2>1, <2>7 DEF Sum, Signatures
    <3>3. QED  BY <2>3, <2>4, <3>1, <3>2 DEF SignatureValid
  <2>8. Opens(file) <=> Placed = Section
    <3>1. CASE Placed = Section
      <4>1. \A i \in Section : Loads(file, file[i])
        BY <2>1, <2>5, <3>1, WholeLoads
      <4>2. Opens(file)
        BY <2>3, <2>4, <4>1 DEF Opens, HasHeader, Section
      <4>3. QED  BY <3>1, <4>2
    <3>2. CASE Placed # Section
      <4>1. ContentIdx + 1 \in Section /\ file[Off(ContentIdx + 1)] # Data(ContentIdx + 1, 0)
        BY <2>1, <3>2, SurplusShows
      <4>2. /\ file[ContentIdx + 1].kind = "desc"
            /\ file[ContentIdx + 1].section = ContentIdx + 1
            /\ file[ContentIdx + 1].off = Off(ContentIdx + 1)
        BY <2>1, <4>1, AtDesc
      <4>3. ~ Loads(file, file[ContentIdx + 1])
        BY <4>1, <4>2 DEF Loads
      <4>4. ~ Opens(file)
        BY <2>4, <4>1, <4>3 DEF Opens, Section
      <4>5. QED  BY <3>2, <4>4
    <3>3. QED  BY <3>1, <3>2
  <2>9. VerifySections(file) <=> Surplus = 0
    <3>1. CASE Surplus = 0
      <4>1. Placed = Section
        BY <3>1 DEF Placed
      <4>2. \A i \in Section :
              /\ file[i].kind = "desc" /\ Place(file[i]) \subseteq DOMAIN file
              /\ file[i].sha = [k \in 0 .. file[i].size - 1 |-> file[file[i].off + k]]
        BY <2>1, <2>5, <3>1, <4>1, WholeLoads, AtDesc
      <4>3. VerifySections(file)
        BY <2>3, <2>4, <4>2 DEF VerifySections, Section
      <4>4. QED  BY <3>1, <4>3
    <3>2. CASE Surplus # 0
      <4>1. ContentIdx \in Section
        BY FileAssumption DEF FileAssumption, Section
      <4>2. /\ file[ContentIdx].size = Size(ContentIdx)
            /\ file[ContentIdx].sha = [k \in 0 .. Streamed(ContentIdx) - 1 |-> Data(ContentIdx, k)]
        BY <2>1, <4>1, AtDesc
      <4>3. Streamed(ContentIdx) = Size(ContentIdx) + 1 /\ Size(ContentIdx) \in Nat
        BY <2>2, <3>2, <4>1, Layout DEF Streamed
      <4>4. Size(ContentIdx) \in 0 .. Streamed(ContentIdx) - 1
            /\ Size(ContentIdx) \notin 0 .. Size(ContentIdx) - 1
        BY <4>3
      <4>5. DOMAIN file[ContentIdx].sha # 0 .. file[ContentIdx].size - 1
        <5>1. DOMAIN file[ContentIdx].sha = 0 .. Streamed(ContentIdx) - 1
          BY <4>2
        <5>2. QED  BY <4>2, <4>4, <5>1
      <4>6. file[ContentIdx].sha
              # [k \in 0 .. file[ContentIdx].size - 1 |-> file[file[ContentIdx].off + k]]
        BY <4>5
      <4>7. ~ VerifySections(file)
        BY <2>4, <4>1, <4>6 DEF VerifySections, Section
      <4>8. QED  BY <3>2, <4>7
    <3>3. QED  BY <3>1, <3>2
  <2>10. QED  BY <2>1, <2>6, <2>7, <2>8, <2>9
<1>2. QED  BY <1>1, Inductive, PTL

(* No write of Close lands on an earlier one but for the placeholder and the *)
(* last cell of a surplus, for any number of sections and chunks             *)
(* (writer.go:655-757).                                                      *)
THEOREM NothingOverwrittenAlways == Spec => NothingOverwritten
<1> DEFINE Step == ~ lost' =>
                     \A p \in DOMAIN file :
                       file[p] # Zero /\ (p = ChecksumOff => Surplus = 0) =>
                         p \in DOMAIN file' /\ file'[p] = file[p]
           Free == at \in DOMAIN file =>
                     file[at] = Zero \/ (at = ChecksumOff /\ Surplus # 0)
(* It is enough that a write lands behind the file, on zeros, or on what is *)
(* excepted.                                                                *)
<1>1. ASSUME NEW cell, PutAt(at, cell), Free
      PROVE  Step
  BY <1>1, PutFacts
<1>2. ASSUME IInv, Next  PROVE Step
  <2>1. CASE UNCHANGED file
    BY <2>1
  <2>2. CASE WritePlaceholder
    BY <1>2, <2>2 DEF WritePlaceholder, IInv, Progress
  <2>3. CASE MachineCrash
    BY <2>3 DEF MachineCrash
  <2>4. ASSUME pc \in {"sections", "header", "table", "sum", "trailer"}
        PROVE  Free
    <3>1. ChecksumOff \in Nat /\ NumSections \in Nat /\ Params
      BY <1>2, Layout DEF IInv
    <3>2. CASE pc = "sections"
      <4>1. at \in Nat /\ DOMAIN file = 0 .. at - 1
        <5>1. /\ section \in Section /\ part \in 0 .. Streamed(section) - 1
              /\ at = Start(section) + part /\ DOMAIN file = 0 .. at - 1
          BY <1>2, <3>2 DEF IInv, Progress
        <5>2. Start(section) \in Nat /\ Streamed(section) \in Nat
          BY <3>1, <5>1, Layout
        <5>3. QED  BY <5>1, <5>2
      <4>2. QED  BY <4>1
    <3>3. CASE pc = "header"
      BY <1>2, <3>1, <3>3 DEF IInv, Progress
    <3>4. CASE pc = "table"
      <4>1. at \in Section /\ file[at] = IF at < at THEN Desc(at) ELSE Zero
        BY <1>2, <3>4 DEF IInv, Progress
      <4>2. ~ (at < at)
        BY <3>1, <4>1 DEF Section
      <4>3. QED  BY <4>1, <4>2
    <3>5. CASE pc = "sum"
      <4>1. at = ChecksumOff /\ DOMAIN file = 0 .. End - 1
        BY <1>2, <3>5 DEF IInv, Progress
      <4>2. CASE Surplus = 0
        <5>1. End = ChecksumOff
          BY <3>1, <4>2 DEF End
        <5>2. QED  BY <3>1, <4>1, <5>1
      <4>3. QED  BY <4>1, <4>2
    <3>6. CASE pc = "trailer"
      <4>1. at = ChecksumOff + 1 /\ DOMAIN file = 0 .. ChecksumOff
        BY <1>2, <3>6 DEF IInv, Progress
      <4>2. QED  BY <3>1, <4>1
    <3>7. QED  BY <2>4, <3>2, <3>3, <3>4, <3>5, <3>6
  <2>5. CASE WriteSection
    BY <1>1, <2>1, <2>4, <2>5 DEF WriteSection, Fails
  <2>6. CASE WriteHeader
    BY <1>1, <2>1, <2>4, <2>6 DEF WriteHeader, Fails
  <2>7. CASE WriteDesc
    BY <1>1, <2>1, <2>4, <2>7 DEF WriteDesc, Fails
  <2>8. CASE WriteSum
    BY <1>1, <2>1, <2>4, <2>8 DEF WriteSum, Fails
  <2>9. CASE WriteTrailer
    BY <1>1, <2>1, <2>4, <2>9 DEF WriteTrailer, Fails
  <2>10. CASE ProcessCrash \/ Terminated
    BY <2>1, <2>10 DEF ProcessCrash, Terminated, vars
  <2>11. QED  BY <1>2, <2>2, <2>3, <2>5, <2>6, <2>7, <2>8, <2>9, <2>10 DEF Next
<1>3. IInv /\ [Next]_vars => [Step]_vars
  BY <1>2
<1> HIDE DEF Step
<1>4. Spec => [][Step]_vars
  BY <1>3, Inductive, PTL DEF Spec
<1>5. QED  BY <1>4 DEF NothingOverwritten, Step
=============================================================================
