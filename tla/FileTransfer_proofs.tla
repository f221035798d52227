------------------------- MODULE FileTransfer_proofs -------------------------
(***************************************************************************)
(* Theorems about FileTransfer, for any files, chunk size, edits and       *)
(* transfers, and any losses, repetitions and reorderings of their chunks. *)
(*                                                                         *)
(* What is saved was hashed because every chunk of a transfer carries the  *)
(* hash its sender took (Sent).  That the hash is right unless the file    *)
(* was touched is the long part: a chunk holds the cells of the file that  *)
(* its index stands for (Whole), so do those a partial file has received   *)
(* (Filled), and all chunks together are all cells (CellInChunk).          *)
(***************************************************************************)
EXTENDS FileTransfer, FiniteSetTheorems, TLAPS

USE TransferAssumption

----------------------------------------------------------------------------
(* Chunks of a file *)

LEMMA Quotient ==
    ASSUME NEW n \in Nat, NEW b \in Nat \ {0}
    PROVE  /\ n \div b \in Nat
           /\ (n \div b) * b <= n
           /\ n < (n \div b) * b + b
<1>1. n \div b \in Int /\ n \div b >= 0
  OBVIOUS
<1>2. (n \div b) * b <= n
  OBVIOUS
<1>3. n < (n \div b) * b + b
  OBVIOUS
<1> QED
  BY <1>1, <1>2, <1>3

LEMMA ChunkCount ==
    ASSUME NEW size \in Nat
    PROVE  /\ DivCeil(size, ChunkCells) \in Nat
           /\ size <= DivCeil(size, ChunkCells) * ChunkCells
<1> DEFINE n == size + ChunkCells - 1
           q == n \div ChunkCells
<1>1. ChunkCells \in Nat \ {0} /\ n \in Nat
  OBVIOUS
<1>2. q \in Nat /\ n < q * ChunkCells + ChunkCells
  BY <1>1, Quotient
<1>3. DivCeil(size, ChunkCells) = q
  BY DEF DivCeil
<1> HIDE DEF q
<1>4. size <= q * ChunkCells
  BY <1>1, <1>2
<1> QED
  BY <1>2, <1>3, <1>4

\* The cells of a file of this size that the chunk of this index stands for.
Span(index, size) == {p \in 1..size : index * ChunkCells < p /\ p <= (index + 1) * ChunkCells}

\* Every cell is in a chunk.
LEMMA CellInChunk ==
    ASSUME NEW size \in Nat, NEW p \in 1..size
    PROVE  \E i \in 0..(DivCeil(size, ChunkCells) - 1) : p \in Span(i, size)
<1> DEFINE n == p - 1
           i == n \div ChunkCells
           total == DivCeil(size, ChunkCells)
<1>1. ChunkCells \in Nat \ {0} /\ n \in Nat /\ p = n + 1 /\ p \in Nat /\ p <= size
  OBVIOUS
<1>2. i \in Nat /\ i * ChunkCells <= n /\ n < i * ChunkCells + ChunkCells
  BY <1>1, Quotient
<1>3. total \in Nat /\ size <= total * ChunkCells
  BY ChunkCount
<1> HIDE DEF n, i, total
<1>4. (i + 1) * ChunkCells = i * ChunkCells + ChunkCells
  BY <1>1, <1>2
<1>5. i * ChunkCells < p /\ p <= i * ChunkCells + ChunkCells
  BY <1>1, <1>2
<1>6. i < total
  <2>1. i * ChunkCells < total * ChunkCells
    BY <1>1, <1>2, <1>3, <1>5
  <2> QED
    BY <1>1, <1>2, <1>3, <2>1
<1>7. i \in 0..(total - 1) /\ p \in Span(i, size)
  BY <1>1, <1>2, <1>3, <1>4, <1>5, <1>6 DEF Span
<1> QED
  BY <1>7 DEF total

----------------------------------------------------------------------------
(* Cells and writes *)

LEMMA IsContent ==
    ASSUME NEW m \in Nat, NEW b, b = [i \in 1..m |-> b[i]],
           \A i \in 1..m : b[i] \in Cells \cup {Zero}
    PROVE  b \in Content /\ Len(b) = m
BY DEF Content

LEMMA SameCells ==
    ASSUME NEW S, NEW a \in Seq(S), NEW b \in Seq(S), Len(a) = Len(b),
           \A i \in 1..Len(b) : a[i] = b[i]
    PROVE  a = b
OBVIOUS

LEMMA WriteAtCells ==
    ASSUME NEW content \in Content, NEW offset \in Nat, NEW bytes \in Content
    PROVE  LET w == WriteAt(content, offset, bytes)
               m == Greatest(Len(content), offset + Len(bytes))
           IN  /\ w \in Content /\ m \in Nat /\ Len(w) = m
               /\ \A i \in 1..m :
                     w[i] = IF i \in (offset + 1)..(offset + Len(bytes)) THEN bytes[i - offset]
                            ELSE IF i <= Len(content) THEN content[i] ELSE Zero
<1> DEFINE m == Greatest(Len(content), offset + Len(bytes))
           cell(i) == IF i \in (offset + 1)..(offset + Len(bytes)) THEN bytes[i - offset]
                      ELSE IF i <= Len(content) THEN content[i] ELSE Zero
           w == [i \in 1..m |-> cell(i)]
<1>1. Len(content) \in Nat /\ Len(bytes) \in Nat /\ m \in Nat
  BY DEF Content, Greatest
<1>2. WriteAt(content, offset, bytes) = w
  BY DEF WriteAt
<1>3. \A i \in 1..m : cell(i) \in Cells \cup {Zero}
  BY <1>1 DEF Content
<1> HIDE DEF m, cell
<1>4. w \in Seq(Cells \cup {Zero})
  BY <1>1, <1>3
<1>5. Len(w) = m
  BY <1>1, <1>4
<1>6. \A i \in 1..m : w[i] = cell(i)
  OBVIOUS
<1> QED
  BY <1>1, <1>2, <1>4, <1>5, <1>6 DEF Content, m, cell

\* Writing cells of a file over a part of it that was filled leaves it filled.
LEMMA WriteAtFills ==
    ASSUME NEW content \in Content, NEW offset \in Nat, NEW bytes \in Content,
           NEW sha \in Content, Len(content) = Len(sha), offset <= Len(sha),
           \A j \in 1..Len(bytes) : offset + j \in 1..Len(sha) /\ bytes[j] = sha[offset + j]
    PROVE  LET w == WriteAt(content, offset, bytes)
           IN  /\ w \in Content /\ Len(w) = Len(sha)
               /\ \A p \in 1..Len(sha) :
                     content[p] = sha[p] \/ p - offset \in 1..Len(bytes) => w[p] = sha[p]
<1> DEFINE w == WriteAt(content, offset, bytes)
           m == Greatest(Len(content), offset + Len(bytes))
           n == Len(bytes)
           size == Len(sha)
<1>1. n \in Nat /\ size \in Nat
  BY DEF Content
<1>2. offset + n <= size
  <2>1. CASE n = 0
    BY <1>1, <2>1
  <2>2. CASE n # 0
    <3>1. n \in 1..n
      BY <1>1, <2>2
    <3> QED
      BY <1>1, <3>1
  <2> QED
    BY <2>1, <2>2
<1>3. m = size
  BY <1>1, <1>2 DEF Greatest
<1>4. /\ w \in Content /\ Len(w) = size
      /\ \A i \in 1..size :
            w[i] = IF i \in (offset + 1)..(offset + n) THEN bytes[i - offset]
                   ELSE IF i <= size THEN content[i] ELSE Zero
  <2>1. /\ w \in Content /\ Len(w) = m
        /\ \A i \in 1..m :
              w[i] = IF i \in (offset + 1)..(offset + n) THEN bytes[i - offset]
                     ELSE IF i <= Len(content) THEN content[i] ELSE Zero
    BY WriteAtCells, ZenonT(20)
  <2> HIDE DEF w, m
  <2> QED
    BY <1>3, <2>1
<1> HIDE DEF w, m
<1>5. ASSUME NEW p \in 1..size, content[p] = sha[p] \/ p - offset \in 1..n
      PROVE  w[p] = sha[p]
  <2>1. CASE p - offset \in 1..n
    <3>1. p \in (offset + 1)..(offset + n) /\ offset + (p - offset) = p
      BY <1>1, <2>1
    <3>2. w[p] = bytes[p - offset]
      BY <1>4, <3>1
    <3>3. bytes[p - offset] = sha[offset + (p - offset)]
      BY <2>1
    <3> QED
      BY <3>1, <3>2, <3>3
  <2>2. CASE p - offset \notin 1..n
    <3>1. p \notin (offset + 1)..(offset + n) /\ p <= size
      BY <1>1, <2>2
    <3> QED
      BY <1>4, <1>5, <2>2, <3>1
  <2> QED
    BY <2>1, <2>2
<1> QED
  BY <1>4, <1>5 DEF w

LEMMA Prefix ==
    ASSUME NEW s \in Content, NEW n \in 0..Len(s)
    PROVE  /\ SubSeq(s, 1, n) \in Content /\ Len(SubSeq(s, 1, n)) = n
           /\ \A j \in 1..n : SubSeq(s, 1, n)[j] = s[j]
BY DEF Content

\* n cells after the first i.
Cut(s, i, n) == SubSeq(s, i + 1, i + n)

LEMMA CutCells ==
    ASSUME NEW s \in Content, NEW i \in Nat, NEW n \in Nat, i + n <= Len(s)
    PROVE  /\ Cut(s, i, n) \in Content /\ Len(Cut(s, i, n)) = n
           /\ \A j \in 1..n : Cut(s, i, n)[j] = s[i + j]
<1>1. s \in Seq(Cells \cup {Zero}) /\ Len(s) \in Nat
  BY DEF Content
<1>2. Cut(s, i, n) \in Seq(Cells \cup {Zero})
  BY <1>1 DEF Cut
<1>3. Len(Cut(s, i, n)) = n
  BY <1>1 DEF Cut
<1>4. ASSUME NEW j \in 1..n PROVE Cut(s, i, n)[j] = s[i + j]
  BY <1>1 DEF Cut
<1> QED
  BY <1>2, <1>3, <1>4 DEF Content

----------------------------------------------------------------------------
(* The invariant *)

\* A chunk holds the cells of the file that its index stands for.
WholeAt(c) ==
    /\ c.size = Len(c.sha) /\ c.total = DivCeil(c.size, ChunkCells)
    /\ c.index * ChunkCells <= Len(c.sha)
    /\ \A j \in 1..Len(c.payload) :
          /\ c.index * ChunkCells + j \in 1..Len(c.sha)
          /\ c.payload[j] = c.sha[c.index * ChunkCells + j]
    /\ \A p \in Span(c.index, c.size) : p - c.index * ChunkCells \in 1..Len(c.payload)

\* So does what was received of it.
FilledAt(e, content) ==
    /\ e.size = Len(e.sha) /\ e.total = DivCeil(e.size, ChunkCells)
    /\ Len(content) = e.size
    /\ \A i \in e.received : \A p \in Span(i, e.size) : content[p] = e.sha[p]

Sent ==
    \A c \in wire : /\ sender[c.file].at \in {"reading", "returned"}
                    /\ c.sha = sender[c.file].sha

Measured ==
    \A t \in Transfers \ torn :
        /\ sender[t].at \in {"idle", "hashing"} => sender[t].position = 0 /\ sender[t].index = 0
        /\ sender[t].at = "hashing" => sender[t].size = Len(source)
        /\ sender[t].at = "reading" =>
              /\ sender[t].sha = source /\ sender[t].size = Len(source)
              /\ sender[t].position = Least(sender[t].index * ChunkCells, Len(source))

Whole == \A c \in wire : c.file \notin torn => WholeAt(c)

Filled ==
    \A t \in Transfers \ torn : transfers[t] # None => FilledAt(transfers[t], partial[t])

\* The names in use are the first ones.
Named == \E k \in 0..MaxSaved : DOMAIN saved = 0..(k - 1)

SenderType ==
    /\ source \in Versions /\ sender \in [Transfers -> Senders] /\ wire \subseteq Chunks
    /\ edits \in 0..MaxEdits /\ torn \subseteq Transfers

ReceiverType ==
    /\ transfers \in [Transfers -> Entries \cup {None}]
    /\ \A t \in Transfers : transfers[t] # None =>
          transfers[t].received \subseteq 0..(transfers[t].total - 1) /\ partial[t] # None
    /\ partial \in [Transfers -> Content \cup {None}]
    /\ \A n \in DOMAIN saved : saved[n] \in Content
    /\ failed \subseteq Transfers /\ refuted \subseteq Transfers

SenderInv == SenderType /\ Sent /\ Measured /\ Whole
ReceiverInv ==
    ReceiverType /\ Named /\ Filled /\ SavedIntact /\ OnlyTornRefuted /\ OpenIsIncomplete

IInv == SenderInv /\ ReceiverInv

LEMMA InitWell == Init => IInv
<1> SUFFICES ASSUME Init PROVE IInv
  OBVIOUS
<1> USE DEF Init
<1>1. SenderType
  <2>1. << >> \in Content
    BY DEF Content
  <2> QED
    BY <2>1 DEF SenderType, Senders
<1>2. Sent /\ Measured /\ Whole
  BY DEF Sent, Measured, Whole
<1>3. ReceiverType /\ Filled /\ SavedIntact /\ OnlyTornRefuted /\ OpenIsIncomplete
  BY DEF ReceiverType, Filled, SavedIntact, OnlyTornRefuted, OpenIsIncomplete
<1>4. Named
  <2>1. DOMAIN saved = 0..(0 - 1) /\ 0 \in 0..MaxSaved
    OBVIOUS
  <2> QED
    BY <2>1 DEF Named
<1> QED
  BY <1>1, <1>2, <1>3, <1>4 DEF IInv, SenderInv, ReceiverInv

LEMMA SourceContent == \A v \in Versions : v \in Content /\ Len(v) \in Nat
BY DEF Content

LEMMA ChunkFields ==
    ASSUME SenderType, NEW c \in wire
    PROVE  /\ c.file \in Transfers /\ c.index \in Nat /\ c.total \in Nat
           /\ c.sha \in Content /\ c.size \in Nat /\ c.payload \in Content
BY DEF SenderType, Chunks

----------------------------------------------------------------------------
(* The sender's steps *)

\* What the receiver relies on: a hash once taken stays, and so does a tear.
SenderKeeps ==
    /\ torn \subseteq torn'
    /\ \A t \in Transfers : sender[t].at \in {"reading", "returned"} =>
          /\ sender'[t].at \in {"reading", "returned"}
          /\ sender'[t].sha = sender[t].sha

LEMMA ReceiverUnmoved ==
    ASSUME IInv, SenderKeeps, UNCHANGED receiverVars
    PROVE  ReceiverInv'
<1>1. /\ transfers' = transfers /\ partial' = partial /\ saved' = saved
      /\ failed' = failed /\ refuted' = refuted
  BY DEF receiverVars
<1>2. ReceiverType' /\ Named' /\ OpenIsIncomplete'
  BY <1>1 DEF IInv, ReceiverInv, ReceiverType, Named, OpenIsIncomplete
<1>3. Filled'
  BY <1>1 DEF IInv, ReceiverInv, Filled, FilledAt, SenderKeeps
<1>4. SavedIntact' /\ OnlyTornRefuted'
  BY <1>1 DEF IInv, ReceiverInv, SavedIntact, OnlyTornRefuted, SenderKeeps
<1> QED
  BY <1>2, <1>3, <1>4 DEF ReceiverInv

LEMMA SentKept ==
    ASSUME IInv, SenderKeeps
    PROVE  \A c \in wire : /\ sender'[c.file].at \in {"reading", "returned"}
                           /\ c.sha = sender'[c.file].sha
                           /\ c.file \notin torn' => WholeAt(c)
<1> SUFFICES ASSUME NEW c \in wire
             PROVE  /\ sender'[c.file].at \in {"reading", "returned"}
                    /\ c.sha = sender'[c.file].sha
                    /\ c.file \notin torn' => WholeAt(c)
  OBVIOUS
<1>1. c.file \in Transfers
  BY ChunkFields DEF IInv, SenderInv
<1> QED
  BY <1>1 DEF IInv, SenderInv, Sent, Whole, SenderKeeps

LEMMA EditWell ==
    ASSUME IInv, NEW version \in Versions, Edit(version)
    PROVE  SenderInv' /\ SenderKeeps /\ UNCHANGED receiverVars
<1>1. /\ edits < MaxEdits /\ edits' = edits + 1 /\ source' = version
      /\ torn' = torn \cup {t \in Transfers : sender[t].at \in {"hashing", "reading"}}
      /\ UNCHANGED <<sender, wire, receiverVars>>
  BY DEF Edit
<1>2. SenderKeeps
  BY <1>1 DEF SenderKeeps
<1>3. SenderType'
  BY <1>1 DEF IInv, SenderInv, SenderType
<1>4. Measured'
  BY <1>1 DEF IInv, SenderInv, Measured
<1>5. Sent' /\ Whole'
  BY <1>1, <1>2, SentKept DEF Sent, Whole
<1> QED
  BY <1>1, <1>2, <1>3, <1>4, <1>5 DEF SenderInv

LEMMA MeasureWell ==
    ASSUME IInv, NEW t \in Transfers, Measure(t)
    PROVE  SenderInv' /\ SenderKeeps /\ UNCHANGED receiverVars
<1> DEFINE new == [sender[t] EXCEPT !.at = IF source = << >> THEN "returned" ELSE "hashing",
                                    !.size = Len(source)]
<1>1. sender \in [Transfers -> Senders] /\ sender[t] \in Senders /\ Len(source) \in Nat
  BY SourceContent DEF IInv, SenderInv, SenderType
<1>2. /\ sender[t].at = "idle" /\ UNCHANGED <<source, edits, torn, wire, receiverVars>>
      /\ sender' = [sender EXCEPT ![t] = new]
  <2>1. sender' = [sender EXCEPT ![t].at = IF source = << >> THEN "returned" ELSE "hashing",
                                 ![t].size = Len(source)]
    BY DEF Measure
  <2>2. sender' = [sender EXCEPT ![t] = new]
    BY <1>1, <2>1
  <2> QED
    BY <2>2 DEF Measure
<1>3. /\ new \in Senders /\ new.at \in {"hashing", "returned"} /\ new.size = Len(source)
      /\ new.position = sender[t].position /\ new.index = sender[t].index
  BY <1>1 DEF Senders
<1> HIDE DEF new
<1>4. /\ sender' \in [Transfers -> Senders] /\ sender'[t] = new
      /\ \A u \in Transfers \ {t} : sender'[u] = sender[u]
  BY <1>1, <1>2, <1>3
<1>5. SenderKeeps
  BY <1>2, <1>4 DEF SenderKeeps
<1>6. SenderType'
  BY <1>2, <1>4 DEF IInv, SenderInv, SenderType
<1>7. Measured'
  BY <1>2, <1>3, <1>4 DEF IInv, SenderInv, Measured
<1>8. Sent' /\ Whole'
  BY <1>2, <1>5, SentKept DEF Sent, Whole
<1> QED
  BY <1>2, <1>5, <1>6, <1>7, <1>8 DEF SenderInv

LEMMA HashWell ==
    ASSUME IInv, NEW t \in Transfers, Hash(t)
    PROVE  SenderInv' /\ SenderKeeps /\ UNCHANGED receiverVars
<1> DEFINE new == [sender[t] EXCEPT !.at = "reading", !.sha = source]
<1>1. /\ sender \in [Transfers -> Senders] /\ sender[t] \in Senders
      /\ source \in Content /\ Len(source) \in Nat
  BY SourceContent DEF IInv, SenderInv, SenderType
<1>2. /\ sender[t].at = "hashing" /\ UNCHANGED <<source, edits, torn, wire, receiverVars>>
      /\ sender' = [sender EXCEPT ![t] = new]
  <2>1. sender' = [sender EXCEPT ![t].at = "reading", ![t].sha = source]
    BY DEF Hash
  <2>2. sender' = [sender EXCEPT ![t] = new]
    BY <1>1, <2>1
  <2> QED
    BY <2>2 DEF Hash
<1>3. /\ new \in Senders /\ new.at = "reading" /\ new.sha = source
      /\ new.size = sender[t].size /\ new.position = sender[t].position
      /\ new.index = sender[t].index
  BY <1>1 DEF Senders
<1> HIDE DEF new
<1>4. /\ sender' \in [Transfers -> Senders] /\ sender'[t] = new
      /\ \A u \in Transfers \ {t} : sender'[u] = sender[u]
  BY <1>1, <1>2, <1>3
<1>5. SenderKeeps
  BY <1>2, <1>4 DEF SenderKeeps
<1>6. SenderType'
  BY <1>2, <1>4 DEF IInv, SenderInv, SenderType
<1>7. Measured'
  <2>1. ASSUME t \notin torn
        PROVE  new.size = Len(source) /\ new.position = Least(new.index * ChunkCells, Len(source))
    <3>1. new.size = Len(source) /\ new.position = 0 /\ new.index = 0
      BY <1>2, <1>3, <2>1 DEF IInv, SenderInv, Measured
    <3>2. 0 * ChunkCells = 0
      OBVIOUS
    <3> QED
      BY <1>1, <3>1, <3>2 DEF Least
  <2> QED
    BY <1>2, <1>3, <1>4, <2>1 DEF IInv, SenderInv, Measured
<1>8. Sent' /\ Whole'
  BY <1>2, <1>5, SentKept DEF Sent, Whole
<1> QED
  BY <1>2, <1>5, <1>6, <1>7, <1>8 DEF SenderInv

\* EndOfFile and SendFails: the call returns.
LEMMA ReturnWell ==
    ASSUME IInv, NEW t \in Transfers, EndOfFile(t) \/ SendFails(t)
    PROVE  SenderInv' /\ SenderKeeps /\ UNCHANGED receiverVars
<1> DEFINE new == [sender[t] EXCEPT !.at = "returned"]
<1>1. sender \in [Transfers -> Senders] /\ sender[t] \in Senders
  BY DEF IInv, SenderInv, SenderType
<1>2. /\ UNCHANGED <<source, edits, torn, wire, receiverVars>>
      /\ sender' = [sender EXCEPT ![t] = new]
  BY <1>1 DEF EndOfFile, SendFails
<1>3. new \in Senders /\ new.at = "returned" /\ new.sha = sender[t].sha
  BY <1>1 DEF Senders
<1> HIDE DEF new
<1>4. /\ sender' \in [Transfers -> Senders] /\ sender'[t] = new
      /\ \A u \in Transfers \ {t} : sender'[u] = sender[u]
  BY <1>1, <1>2, <1>3
<1>5. SenderKeeps
  BY <1>2, <1>3, <1>4 DEF SenderKeeps
<1>6. SenderType'
  BY <1>2, <1>4 DEF IInv, SenderInv, SenderType
<1>7. Measured'
  BY <1>2, <1>3, <1>4 DEF IInv, SenderInv, Measured
<1>8. Sent' /\ Whole'
  BY <1>2, <1>5, SentKept DEF Sent, Whole
<1> QED
  BY <1>2, <1>5, <1>6, <1>7, <1>8 DEF SenderInv

\* A chunk that was read in full from a file that is not torn is whole.
LEMMA ReadWell ==
    ASSUME IInv, NEW t \in Transfers, ReadChunk(t)
    PROVE  SenderInv' /\ SenderKeeps /\ UNCHANGED receiverVars
<1> DEFINE s == sender[t]
           size == Len(source)
           offset == s.index * ChunkCells
           full == Least(ChunkCells, size - s.position)
<1>1. /\ sender \in [Transfers -> Senders] /\ s \in Senders
      /\ source \in Content /\ size \in Nat /\ ChunkCells \in Nat \ {0}
      /\ s.position \in Nat /\ s.index \in Nat /\ s.size \in Nat /\ s.sha \in Content
      /\ wire \subseteq Chunks
  BY SourceContent DEF IInv, SenderInv, SenderType, Senders
<1>2. s.at = "reading" /\ s.position < size /\ UNCHANGED <<source, edits, receiverVars>>
  BY DEF ReadChunk
<1>3. full \in Nat \ {0} /\ full <= size - s.position /\ full <= ChunkCells
  BY <1>1, <1>2 DEF Least
<1>4. PICK n \in 1..full :
          /\ sender' = [sender EXCEPT ![t].position = @ + n, ![t].index = @ + 1]
          /\ wire' = wire \cup
                {[file |-> t, index |-> s.index, total |-> DivCeil(s.size, ChunkCells),
                  sha |-> s.sha, size |-> s.size,
                  payload |-> SubSeq(source, s.position + 1, s.position + n)]}
          /\ torn' = IF n < full THEN torn \cup {t} ELSE torn
  <2>1. full \in 1..full /\ (IF ShortReads THEN 1..full ELSE {full}) \subseteq 1..full
    BY <1>3
  <2> HIDE DEF full
  <2>2. \E n \in (IF ShortReads THEN 1..full ELSE {full}) :
          /\ sender' = [sender EXCEPT ![t].position = @ + n, ![t].index = @ + 1]
          /\ wire' = wire \cup
                {[file |-> t, index |-> s.index, total |-> DivCeil(s.size, ChunkCells),
                  sha |-> s.sha, size |-> s.size,
                  payload |-> SubSeq(source, s.position + 1, s.position + n)]}
          /\ torn' = IF n < full THEN torn \cup {t} ELSE torn
    BY DEF ReadChunk, full
  <2> QED
    BY <2>1, <2>2
<1> DEFINE payload == SubSeq(source, s.position + 1, s.position + n)
           c == [file |-> t, index |-> s.index, total |-> DivCeil(s.size, ChunkCells),
                 sha |-> s.sha, size |-> s.size, payload |-> payload]
           new == [[s EXCEPT !.position = @ + n] EXCEPT !.index = @ + 1]
<1>5. sender' = [sender EXCEPT ![t] = new] /\ wire' = wire \cup {c}
  BY <1>1, <1>4
<1>6. /\ new \in Senders /\ new.at = "reading" /\ new.sha = s.sha /\ new.size = s.size
      /\ new.position = s.position + n /\ new.index = s.index + 1
  <2>1. s.position + n \in Nat /\ s.index + 1 \in Nat
    BY <1>1, <1>3
  <2> HIDE DEF s
  <2> QED
    BY <1>1, <1>2, <2>1 DEF Senders, s
<1>7. /\ payload \in Content /\ Len(payload) = n
      /\ \A j \in 1..n : payload[j] = source[s.position + j]
  <2>1. s.position + n <= Len(source) /\ n \in Nat
    BY <1>1, <1>2, <1>3
  <2>2. payload = Cut(source, s.position, n)
    BY DEF Cut
  <2>3. source \in Content /\ s.position \in Nat
    BY <1>1
  <2> HIDE DEF s, payload, size, offset, full, c, new
  <2> QED
    BY <2>1, <2>2, <2>3, CutCells
<1>8. /\ c.file = t /\ c.index = s.index /\ c.total = DivCeil(s.size, ChunkCells)
      /\ c.sha = s.sha /\ c.size = s.size /\ c.payload = payload
  OBVIOUS
<1>9. c \in Chunks
  BY <1>1, <1>7, ChunkCount DEF Chunks
<1> HIDE DEF c, new, payload, s
<1>10. /\ sender' \in [Transfers -> Senders] /\ sender'[t] = new
       /\ \A u \in Transfers \ {t} : sender'[u] = sender[u]
  BY <1>1, <1>5, <1>6
<1>11. SenderKeeps
  BY <1>4, <1>6, <1>10 DEF SenderKeeps, s
<1>12. SenderType'
  <2>1. torn' \subseteq Transfers
    BY <1>4 DEF IInv, SenderInv, SenderType
  <2> QED
    BY <1>1, <1>2, <1>5, <1>9, <1>10, <2>1 DEF IInv, SenderInv, SenderType
<1>13. ASSUME t \notin torn'
       PROVE  /\ n = full /\ s.sha = source /\ s.size = size /\ s.position = offset
  <2>1. n = full /\ t \notin torn
    BY <1>3, <1>4, <1>13
  <2>2. s.sha = source /\ s.size = size /\ s.position = Least(offset, size)
    BY <1>2, <2>1 DEF IInv, SenderInv, Measured, s
  <2>3. offset \in Nat
    BY <1>1
  <2> HIDE DEF offset, size
  <2>4. s.position = offset
    BY <1>1, <1>2, <2>2, <2>3 DEF Least
  <2> QED
    BY <2>1, <2>2, <2>4
<1>14. Measured'
  <2>1. ASSUME t \notin torn'
        PROVE  new.position = Least(new.index * ChunkCells, size)
    <3>1. new.index * ChunkCells = offset + ChunkCells /\ offset \in Nat
      BY <1>1, <1>6
    <3>2. new.position = offset + full /\ full = Least(ChunkCells, size - offset) /\ offset < size
      BY <1>2, <1>6, <1>13, <2>1
    <3> HIDE DEF offset, size, full
    <3>3. offset + full = Least(offset + ChunkCells, size)
      BY <1>1, <3>1, <3>2 DEF Least
    <3> QED
      BY <3>1, <3>2, <3>3
  <2>2. ASSUME t \notin torn' PROVE new.sha = source /\ new.size = size
    BY <1>6, <1>13, <2>2
  <2>3. \A u \in Transfers \ torn' : u \notin torn
    BY <1>4
  <2> HIDE DEF size
  <2>4. source' = source /\ Len(source) = size
    BY <1>2 DEF size
  <2> QED
    BY <1>6, <1>10, <2>1, <2>2, <2>3, <2>4 DEF IInv, SenderInv, Measured
<1>15. t \notin torn' => WholeAt(c)
  <2> SUFFICES ASSUME t \notin torn' PROVE WholeAt(c)
    OBVIOUS
  <2>1. /\ n = full /\ c.sha = source /\ c.size = size /\ s.position = offset
        /\ c.total = DivCeil(c.size, ChunkCells) /\ c.index = s.index
    BY <1>8, <1>13
  <2>2. offset \in Nat /\ offset < size /\ (s.index + 1) * ChunkCells = offset + ChunkCells
    BY <1>1, <1>2, <2>1
  <2>3. full = Least(ChunkCells, size - offset)
    BY <2>1
  <2> HIDE DEF offset, size, full
  <2>4. \A j \in 1..n : offset + j \in 1..size /\ payload[j] = source[offset + j]
    BY <1>1, <1>3, <1>7, <2>1, <2>2
  <2>5. \A p \in 1..size : offset < p /\ p <= offset + ChunkCells => p - offset \in 1..n
    BY <1>1, <1>3, <2>1, <2>2, <2>3 DEF Least
  <2>6. c.index * ChunkCells = offset /\ (c.index + 1) * ChunkCells = offset + ChunkCells
    BY <2>1, <2>2 DEF offset
  <2>7. Len(c.sha) = size /\ Len(c.payload) = n
    BY <1>7, <1>8, <2>1 DEF size
  <2>8. \A j \in 1..Len(c.payload) : /\ c.index * ChunkCells + j \in 1..Len(c.sha)
                                     /\ c.payload[j] = c.sha[c.index * ChunkCells + j]
    BY <1>8, <2>1, <2>4, <2>6, <2>7
  <2>9. \A p \in Span(c.index, c.size) : p - c.index * ChunkCells \in 1..Len(c.payload)
    BY <2>1, <2>5, <2>6, <2>7 DEF Span
  <2>10. c.index * ChunkCells <= Len(c.sha)
    BY <1>1, <2>2, <2>6, <2>7
  <2> QED
    BY <2>1, <2>7, <2>8, <2>9, <2>10 DEF WholeAt
<1>16. Sent' /\ Whole'
  <2>1. \A d \in wire' : d \in wire \/ d = c
    BY <1>5
  <2>2. Sent'
    BY <1>6, <1>8, <1>10, <1>11, <2>1, SentKept DEF Sent
  <2>3. Whole'
    BY <1>8, <1>11, <1>15, <2>1, SentKept DEF Whole
  <2> QED
    BY <2>2, <2>3
<1> QED
  BY <1>2, <1>11, <1>12, <1>14, <1>16 DEF SenderInv

----------------------------------------------------------------------------
(* What the receiver makes of a chunk *)

LEMMA EntryWell ==
    ASSUME IInv, NEW c \in wire, Valid(c)
    PROVE  /\ Entry(c) \in Entries /\ Entry(c).received \subseteq 0..(Entry(c).total - 1)
           /\ Opened(c) \in Content
           /\ c.file \notin torn => FilledAt(Entry(c), Opened(c))
           /\ Entry(c).received = 0..(Entry(c).total - 1) => c.file \in failed
<1> DEFINE t == c.file
<1>1. /\ t \in Transfers /\ c.index \in Nat /\ c.total \in Nat
      /\ c.sha \in Content /\ c.size \in Nat /\ c.index < c.total
  BY ChunkFields DEF IInv, SenderInv, Valid
<1>2. CASE Known(c)
  <2>1. Entry(c) = transfers[t] /\ Opened(c) = partial[t] /\ transfers[t] # None
    BY <1>2 DEF Known, Entry, Opened
  <2>2. /\ transfers[t] \in Entries /\ partial[t] \in Content
        /\ transfers[t].received \subseteq 0..(transfers[t].total - 1)
    BY <1>1, <2>1 DEF IInv, ReceiverInv, ReceiverType
  <2>3. t \notin torn => FilledAt(transfers[t], partial[t])
    BY <1>1, <2>1 DEF IInv, ReceiverInv, Filled
  <2>4. transfers[t].received = 0..(transfers[t].total - 1) => t \in failed
    BY <1>1, <2>1 DEF IInv, ReceiverInv, OpenIsIncomplete
  <2> QED
    BY <2>1, <2>2, <2>3, <2>4
<1>3. CASE ~Known(c)
  <2> DEFINE e == [total |-> c.total, size |-> c.size, sha |-> c.sha, received |-> {}]
             zeros == [i \in 1..c.size |-> Zero]
  <2>1. Entry(c) = e /\ Opened(c) = zeros
    BY <1>3 DEF Entry, Opened
  <2>2. e \in Entries /\ e.received = {}
    BY <1>1 DEF Entries
  <2>3. zeros \in Content /\ Len(zeros) = c.size
    <3>1. zeros = [i \in 1..c.size |-> zeros[i]] /\ \A i \in 1..c.size : zeros[i] \in Cells \cup {Zero}
      OBVIOUS
    <3> HIDE DEF zeros
    <3> QED
      BY <1>1, <3>1, IsContent
  <2>4. t \notin torn => FilledAt(e, zeros)
    <3> SUFFICES ASSUME t \notin torn PROVE FilledAt(e, zeros)
      OBVIOUS
    <3>1. WholeAt(c)
      BY DEF IInv, SenderInv, Whole
    <3>2. /\ e.size = Len(e.sha) /\ e.total = DivCeil(e.size, ChunkCells)
          /\ Len(zeros) = e.size
      BY <2>3, <3>1 DEF WholeAt
    <3> HIDE DEF zeros
    <3> QED
      BY <2>2, <3>2 DEF FilledAt
  <2>5. e.received # 0..(e.total - 1)
    <3>1. 0 \in 0..(e.total - 1)
      BY <1>1
    <3> QED
      BY <2>2, <3>1
  <2> QED
    BY <2>1, <2>2, <2>3, <2>4, <2>5
<1> QED
  BY <1>2, <1>3

\* After a write of all or the first cells of a chunk, what was received is
\* still there; after all of it, the chunk is too.
LEMMA WrittenWell ==
    ASSUME IInv, NEW c \in wire, Wanted(c), NEW bytes \in Content,
           Len(bytes) <= Len(c.payload), \A j \in 1..Len(bytes) : bytes[j] = c.payload[j]
    PROVE  LET w == WriteAt(Opened(c), c.index * ChunkCells, bytes)
           IN  /\ w \in Content
               /\ c.file \notin torn => FilledAt(Entry(c), w)
               /\ c.file \notin torn /\ bytes = c.payload => FilledAt(Received(c), w)
<1> DEFINE offset == c.index * ChunkCells
           content == Opened(c)
           w == WriteAt(content, offset, bytes)
           e == Entry(c)
<1>1. /\ c.file \in Transfers /\ c.index \in Nat /\ c.sha \in Content /\ c.payload \in Content
      /\ ChunkCells \in Nat /\ Len(bytes) \in Nat /\ Len(c.payload) \in Nat /\ Len(c.sha) \in Nat
  BY ChunkFields DEF IInv, SenderInv, Content
<1>2. /\ content \in Content /\ offset \in Nat
      /\ e \in Entries /\ e.received \subseteq 0..(e.total - 1)
      /\ c.file \notin torn => FilledAt(e, content)
  BY <1>1, EntryWell DEF Wanted
<1>3. w \in Content
  BY <1>2, WriteAtCells
<1>4. ASSUME c.file \notin torn
      PROVE  /\ FilledAt(e, w)
             /\ bytes = c.payload => FilledAt(Received(c), w)
  <2>1. WholeAt(c) /\ FilledAt(e, content)
    BY <1>2, <1>4 DEF IInv, SenderInv, Whole
  <2>2. c.sha = e.sha /\ c.size = e.size /\ c.size = Len(c.sha)
    BY <2>1 DEF Wanted, Consistent, WholeAt
  <2>3. Len(content) = Len(c.sha)
    BY <2>1, <2>2 DEF FilledAt
  <2>4. /\ offset <= Len(c.sha)
        /\ \A j \in 1..Len(c.payload) : offset + j \in 1..Len(c.sha)
                                        /\ c.payload[j] = c.sha[offset + j]
        /\ \A p \in Span(c.index, c.size) : p - offset \in 1..Len(c.payload)
    BY <2>1 DEF WholeAt
  <2> HIDE DEF offset, content, w, e
  <2>5. \A j \in 1..Len(bytes) : offset + j \in 1..Len(c.sha) /\ bytes[j] = c.sha[offset + j]
    <3>1. \A j \in 1..Len(bytes) : j \in 1..Len(c.payload)
      BY <1>1
    <3> QED
      BY <2>4, <3>1
  <2>6. /\ Len(w) = Len(c.sha)
        /\ \A p \in 1..Len(c.sha) :
              content[p] = c.sha[p] \/ p - offset \in 1..Len(bytes) => w[p] = c.sha[p]
    BY <1>1, <1>2, <2>3, <2>4, <2>5, WriteAtFills DEF w
  <2>7. ASSUME NEW i, NEW p \in Span(i, e.size), i \in e.received
        PROVE  w[p] = e.sha[p]
    <3>1. content[p] = e.sha[p]
      BY <2>1, <2>7 DEF FilledAt
    <3>2. p \in 1..Len(c.sha)
      BY <2>2 DEF Span
    <3> QED
      BY <2>2, <2>6, <3>1, <3>2
  <2>8. FilledAt(e, w)
    BY <2>1, <2>2, <2>6, <2>7 DEF FilledAt
  <2>9. ASSUME bytes = c.payload PROVE FilledAt(Received(c), w)
    <3>1. /\ Received(c).size = e.size /\ Received(c).sha = e.sha /\ Received(c).total = e.total
          /\ Received(c).received = e.received \cup {c.index}
      BY <1>2 DEF Received, e, Entries
    <3>2. ASSUME NEW p \in Span(c.index, e.size) PROVE w[p] = e.sha[p]
      <4>1. p - offset \in 1..Len(bytes) /\ p \in 1..Len(c.sha)
        BY <2>2, <2>4, <2>9 DEF Span
      <4> QED
        BY <2>2, <2>6, <4>1
    <3> QED
      BY <2>7, <2>8, <3>1, <3>2 DEF FilledAt
  <2> QED
    BY <2>8, <2>9
<1> QED
  BY <1>3, <1>4

LEMMA ReceivedWell ==
    ASSUME IInv, NEW c \in wire, Wanted(c)
    PROVE  /\ Received(c) \in Entries
           /\ Received(c).received \subseteq 0..(Received(c).total - 1)
           /\ Received(c).total = Entry(c).total /\ Received(c).sha = c.sha
           /\ Written(c) \in Content
           /\ c.file \notin torn => FilledAt(Received(c), Written(c))
<1>1. c.index \in Nat /\ c.total \in Nat /\ c.payload \in Content
  BY ChunkFields DEF IInv, SenderInv
<1>2. /\ Entry(c) \in Entries /\ Entry(c).received \subseteq 0..(Entry(c).total - 1)
      /\ c.index < c.total /\ Entry(c).total = c.total /\ Entry(c).sha = c.sha
  BY EntryWell DEF Wanted, Consistent, Valid
<1>3. /\ Received(c) \in Entries /\ Received(c).received = Entry(c).received \cup {c.index}
      /\ Received(c).total = c.total /\ Received(c).sha = c.sha
  BY <1>1, <1>2 DEF Received, Entries
<1>4. c.index \in 0..(c.total - 1)
  BY <1>1, <1>2
<1>5. /\ Written(c) \in Content
      /\ c.file \notin torn => FilledAt(Received(c), Written(c))
  <2>1. Len(c.payload) <= Len(c.payload)
    BY <1>1 DEF Content
  <2>2. Written(c) = WriteAt(Opened(c), c.index * ChunkCells, c.payload)
    BY DEF Written
  <2>3. c.payload \in Content /\ \A j \in 1..Len(c.payload) : c.payload[j] = c.payload[j]
    BY <1>1
  <2> QED
    BY <2>1, <2>2, <2>3, WrittenWell
<1> QED
  BY <1>2, <1>3, <1>4, <1>5

\* With every chunk received the file is the one that was hashed.
LEMMA CompleteIsRight ==
    ASSUME IInv, NEW c \in wire, Wanted(c), Completes(c), c.file \notin torn
    PROVE  Written(c) = c.sha
<1> DEFINE e == Received(c)
           w == Written(c)
<1>1. /\ w \in Content /\ FilledAt(e, w) /\ e.sha = c.sha /\ e.total = Entry(c).total
      /\ c.sha \in Content
  BY ReceivedWell, ChunkFields DEF IInv, SenderInv
<1>2. /\ Len(w) = Len(c.sha) /\ e.size = Len(c.sha) /\ Len(c.sha) \in Nat
      /\ e.received = 0..(DivCeil(e.size, ChunkCells) - 1)
  BY <1>1 DEF FilledAt, Completes, Content
<1> HIDE DEF e, w
<1>3. ASSUME NEW p \in 1..Len(c.sha) PROVE w[p] = c.sha[p]
  <2>1. PICK i \in e.received : p \in Span(i, e.size)
    BY <1>2, CellInChunk
  <2> QED
    BY <1>1, <2>1 DEF FilledAt
<1>4. w = c.sha
  <2>1. w \in Seq(Cells \cup {Zero}) /\ c.sha \in Seq(Cells \cup {Zero})
    BY <1>1 DEF Content
  <2> QED
    BY <1>2, <1>3, <2>1, SameCells
<1> QED
  BY <1>4 DEF w

----------------------------------------------------------------------------
(* The receiver's steps *)

LEMMA SenderUnmoved ==
    ASSUME IInv, UNCHANGED <<senderVars, wire>>
    PROVE  SenderInv' /\ torn' = torn /\ sender' = sender
<1>1. source' = source /\ sender' = sender /\ edits' = edits /\ torn' = torn /\ wire' = wire
  BY DEF senderVars
<1>2. SenderType' /\ Sent' /\ Measured'
  BY <1>1 DEF IInv, SenderInv, SenderType, Sent, Measured
<1>3. Whole'
  BY <1>1 DEF IInv, SenderInv, Whole, WholeAt
<1> QED
  BY <1>1, <1>2, <1>3 DEF SenderInv

\* A step that changes one entry and its partial file.
LEMMA EntryStep ==
    ASSUME IInv, UNCHANGED <<senderVars, wire>>, Named', SavedIntact',
           \A n \in DOMAIN saved' : saved'[n] \in Content,
           NEW t \in Transfers, NEW e \in Entries \cup {None}, NEW w \in Content \cup {None},
           transfers' = [transfers EXCEPT ![t] = e], partial' = [partial EXCEPT ![t] = w],
           e # None => e.received \subseteq 0..(e.total - 1) /\ w # None,
           e # None /\ t \notin torn => FilledAt(e, w),
           e # None /\ e.received = 0..(e.total - 1) => t \in failed',
           failed \subseteq failed', failed' \subseteq Transfers,
           refuted' \subseteq Transfers, refuted' \subseteq torn
    PROVE  IInv'
<1>1. SenderInv' /\ torn' = torn /\ sender' = sender
  BY SenderUnmoved
<1>2. /\ transfers \in [Transfers -> Entries \cup {None}]
      /\ partial \in [Transfers -> Content \cup {None}]
  BY DEF IInv, ReceiverInv, ReceiverType
<1>3. /\ transfers' \in [Transfers -> Entries \cup {None}] /\ transfers'[t] = e
      /\ partial' \in [Transfers -> Content \cup {None}] /\ partial'[t] = w
      /\ \A u \in Transfers \ {t} : transfers'[u] = transfers[u] /\ partial'[u] = partial[u]
  BY <1>2
<1>4. ReceiverType'
  BY <1>3 DEF IInv, ReceiverInv, ReceiverType
<1>5. Filled'
  <2>1. \A u \in Transfers \ torn : transfers'[u] # None => FilledAt(transfers'[u], partial'[u])
    BY <1>3 DEF IInv, ReceiverInv, Filled
  <2> QED
    BY <1>1, <2>1 DEF Filled, FilledAt
<1>6. OpenIsIncomplete' /\ OnlyTornRefuted'
  BY <1>1, <1>3 DEF IInv, ReceiverInv, OpenIsIncomplete, OnlyTornRefuted
<1> QED
  BY <1>1, <1>4, <1>5, <1>6 DEF IInv, ReceiverInv

LEMMA SavedSame ==
    ASSUME IInv, UNCHANGED <<senderVars, wire, saved>>
    PROVE  /\ Named' /\ SavedIntact' /\ \A n \in DOMAIN saved' : saved'[n] \in Content
           /\ UNCHANGED <<senderVars, wire>>
<1>1. saved' = saved /\ sender' = sender
  BY DEF senderVars
<1> QED
  BY <1>1 DEF IInv, ReceiverInv, ReceiverType, Named, SavedIntact

LEMMA Bounds ==
    ASSUME IInv, NEW c \in wire
    PROVE  /\ c.file \in Transfers /\ failed \subseteq Transfers
           /\ refuted \subseteq Transfers /\ refuted \subseteq torn
BY ChunkFields DEF IInv, SenderInv, ReceiverInv, ReceiverType, OnlyTornRefuted

LEMMA CreateFailsWell == ASSUME IInv, NEW c \in wire, CreateFails(c) PROVE IInv'
<1>1. /\ transfers[c.file] = None /\ partial' \in {partial, [partial EXCEPT ![c.file] = << >>]}
      /\ UNCHANGED <<senderVars, wire, saved, transfers, failed, refuted>>
  BY DEF CreateFails, Known
<1>2. /\ transfers \in [Transfers -> Entries \cup {None}]
      /\ partial \in [Transfers -> Content \cup {None}] /\ c.file \in Transfers
  BY Bounds DEF IInv, ReceiverInv, ReceiverType
<1>3. transfers' = [transfers EXCEPT ![c.file] = None]
  BY <1>1, <1>2
<1>4. PICK w \in Content \cup {None} : partial' = [partial EXCEPT ![c.file] = w]
  <2>1. << >> \in Content /\ partial[c.file] \in Content \cup {None}
    BY <1>2 DEF Content
  <2>2. partial = [partial EXCEPT ![c.file] = partial[c.file]]
    BY <1>2
  <2> QED
    BY <1>1, <2>1, <2>2
<1>5. None \in Entries \cup {None}
  OBVIOUS
<1> QED
  BY <1>1, <1>2, <1>3, <1>4, <1>5, SavedSame, Bounds, EntryStep

LEMMA WriteFailsWell == ASSUME IInv, NEW c \in wire, WriteFails(c) PROVE IInv'
<1>1. /\ Wanted(c) /\ UNCHANGED <<senderVars, wire, saved, failed, refuted>>
      /\ transfers' = [transfers EXCEPT ![c.file] = Entry(c)]
  BY DEF WriteFails
<1>2. PICK n \in 0..(Len(c.payload) - 1) :
          partial' = [partial EXCEPT ![c.file] =
                         WriteAt(Opened(c), c.index * ChunkCells, SubSeq(c.payload, 1, n))]
  BY DEF WriteFails
<1> DEFINE bytes == SubSeq(c.payload, 1, n)
           w == WriteAt(Opened(c), c.index * ChunkCells, bytes)
<1>3. /\ bytes \in Content /\ Len(bytes) = n /\ n <= Len(c.payload)
      /\ \A j \in 1..n : bytes[j] = c.payload[j]
  <2>1. c.payload \in Content /\ Len(c.payload) \in Nat
    BY ChunkFields DEF IInv, SenderInv, Content
  <2>2. n \in 0..Len(c.payload) /\ n <= Len(c.payload)
    BY <2>1
  <2> QED
    BY <2>1, <2>2, Prefix
<1> HIDE DEF bytes
<1>4. w \in Content /\ (c.file \notin torn => FilledAt(Entry(c), w))
  BY <1>1, <1>3, WrittenWell
<1>5. /\ Entry(c) \in Entries /\ Entry(c).received \subseteq 0..(Entry(c).total - 1)
      /\ Entry(c).received = 0..(Entry(c).total - 1) => c.file \in failed
  BY <1>1, EntryWell DEF Wanted
<1>6. partial' = [partial EXCEPT ![c.file] = w]
  BY <1>2 DEF bytes
<1> HIDE DEF w
<1>7. w # None
  BY <1>4
<1> QED
  BY <1>1, <1>4, <1>5, <1>6, <1>7, SavedSame, Bounds, EntryStep

\* StoreChunk and CompletionFails.
LEMMA StoreWell ==
    ASSUME IInv, NEW c \in wire, StoreChunk(c) \/ CompletionFails(c)
    PROVE  IInv'
<1>1. /\ Wanted(c) /\ UNCHANGED <<senderVars, wire, saved, refuted>>
      /\ transfers' = [transfers EXCEPT ![c.file] = Received(c)]
      /\ partial' = [partial EXCEPT ![c.file] = Written(c)]
      /\ failed' \in {failed, failed \cup {c.file}}
      /\ Completes(c) => c.file \in failed'
  BY DEF StoreChunk, CompletionFails
<1>2. /\ Received(c) \in Entries
      /\ Received(c).received \subseteq 0..(Received(c).total - 1)
      /\ Received(c).total = Entry(c).total
      /\ Written(c) \in Content
      /\ c.file \notin torn => FilledAt(Received(c), Written(c))
  BY <1>1, ReceivedWell
<1>3. Received(c).received = 0..(Received(c).total - 1) => c.file \in failed'
  BY <1>1, <1>2 DEF Completes
<1>4. Written(c) # None
  BY <1>2
<1>5. failed \subseteq failed' /\ failed' \subseteq Transfers
  BY <1>1, Bounds
<1>6. UNCHANGED <<senderVars, wire, saved>> /\ refuted' = refuted
  BY <1>1
<1> QED
  BY <1>1, <1>2, <1>3, <1>4, <1>5, <1>6, SavedSame, Bounds, EntryStep

LEMMA RefuteWell == ASSUME IInv, NEW c \in wire, Refute(c) PROVE IInv'
<1>1. /\ Wanted(c) /\ Completes(c) /\ Written(c) # c.sha
      /\ transfers' = [transfers EXCEPT ![c.file] = None]
      /\ refuted' = refuted \cup {c.file}
      /\ UNCHANGED <<senderVars, wire, saved, failed>>
  BY DEF Refute
<1>2. PICK w \in {None, Written(c)} : partial' = [partial EXCEPT ![c.file] = w]
  BY DEF Refute
<1>3. w \in Content \cup {None}
  BY <1>1, ReceivedWell
<1>4. refuted' \subseteq torn /\ refuted' \subseteq Transfers
  <2>1. c.file \in torn
    BY <1>1, CompleteIsRight
  <2> QED
    BY <1>1, <2>1, Bounds
<1>5. UNCHANGED <<senderVars, wire, saved>> /\ failed' = failed
  BY <1>1
<1> QED
  BY <1>1, <1>2, <1>3, <1>4, <1>5, SavedSame, Bounds, EntryStep

\* The name taken is the first that is free.
LEMMA NextName ==
    ASSUME Named, Cardinality(DOMAIN saved) < MaxSaved
    PROVE  \E k \in 0..(MaxSaved - 1) : DOMAIN saved = 0..(k - 1) /\ FreeName = k
<1>1. PICK k \in 0..MaxSaved : DOMAIN saved = 0..(k - 1)
  BY DEF Named
<1>2. Cardinality(0..(k - 1)) = k
  <2>1. /\ 0 \in Int /\ k - 1 \in Int
        /\ (IF 0 > k - 1 THEN 0 ELSE (k - 1) - 0 + 1) = k
    OBVIOUS
  <2> QED
    BY <2>1, FS_Interval
<1>3. k \in 0..(MaxSaved - 1)
  BY <1>1, <1>2
<1>4. FreeName = k
  <2> DEFINE Free(n) == n \notin DOMAIN saved /\ \A m \in 0..(n - 1) : m \in DOMAIN saved
  <2>1. k \in 0..MaxSaved /\ Free(k)
    BY <1>1
  <2>2. ASSUME NEW n \in 0..MaxSaved, Free(n) PROVE n = k
    <3>1. n >= k
      BY <1>1, <2>2
    <3>2. ~(n > k)
      <4>1. n > k => k \in 0..(n - 1)
        BY <1>1
      <4> QED
        BY <2>1, <2>2, <4>1
    <3> QED
      BY <1>1, <3>1, <3>2
  <2>3. FreeName = CHOOSE n \in 0..MaxSaved : Free(n)
    BY DEF FreeName
  <2> HIDE DEF Free
  <2> QED
    BY <2>1, <2>2, <2>3
<1> QED
  BY <1>1, <1>3, <1>4

LEMMA SaveWell == ASSUME IInv, NEW c \in wire, Save(c) PROVE IInv'
<1>1. /\ Wanted(c) /\ Completes(c) /\ Written(c) = c.sha
      /\ Cardinality(DOMAIN saved) < MaxSaved
      /\ saved' = [n \in DOMAIN saved \cup {FreeName} |->
                      IF n = FreeName THEN Written(c) ELSE saved[n]]
      /\ transfers' = [transfers EXCEPT ![c.file] = None]
      /\ partial' = [partial EXCEPT ![c.file] = None]
      /\ UNCHANGED <<senderVars, wire, failed, refuted>>
  BY DEF Save
<1>2. PICK k \in 0..(MaxSaved - 1) : DOMAIN saved = 0..(k - 1) /\ FreeName = k
  BY <1>1, NextName DEF IInv, ReceiverInv
<1>3. saved' = [n \in DOMAIN saved \cup {k} |-> IF n = k THEN c.sha ELSE saved[n]]
  BY <1>1, <1>2
<1>4. /\ DOMAIN saved' = DOMAIN saved \cup {k} /\ saved'[k] = c.sha
      /\ \A n \in DOMAIN saved : n # k /\ saved'[n] = saved[n]
  BY <1>2, <1>3
<1>5. Named'
  <2>1. DOMAIN saved' = 0..((k + 1) - 1) /\ k + 1 \in 0..MaxSaved
    BY <1>2, <1>4
  <2> QED
    BY <2>1 DEF Named
<1>6. SavedIntact'
  <2>1. /\ sender' = sender /\ c.file \in Transfers
        /\ sender[c.file].at \in {"reading", "returned"} /\ c.sha = sender[c.file].sha
    BY <1>1, Bounds DEF senderVars, IInv, SenderInv, Sent
  <2> QED
    BY <1>4, <2>1 DEF IInv, ReceiverInv, SavedIntact
<1>7. \A n \in DOMAIN saved' : saved'[n] \in Content
  BY <1>4, ChunkFields DEF IInv, SenderInv, ReceiverInv, ReceiverType
<1> QED
  BY <1>1, <1>5, <1>6, <1>7, Bounds, EntryStep

LEMMA RestartWell == ASSUME IInv, RestartReceiver PROVE IInv'
<1>1. /\ transfers' = [t \in Transfers |-> None] /\ failed' = {}
      /\ UNCHANGED <<senderVars, wire, partial, saved, refuted>>
  BY DEF RestartReceiver
<1>2. SenderInv' /\ torn' = torn /\ sender' = sender
  BY <1>1, SenderUnmoved
<1>3. Named' /\ SavedIntact' /\ \A n \in DOMAIN saved' : saved'[n] \in Content
  BY <1>1, SavedSame
<1>4. ReceiverType'
  BY <1>1, <1>3 DEF IInv, ReceiverInv, ReceiverType
<1>5. Filled' /\ OpenIsIncomplete' /\ OnlyTornRefuted'
  BY <1>1, <1>2 DEF IInv, ReceiverInv, Filled, OpenIsIncomplete, OnlyTornRefuted
<1> QED
  BY <1>2, <1>3, <1>4, <1>5 DEF IInv, ReceiverInv

----------------------------------------------------------------------------
LEMMA NextWell == IInv /\ [Next]_vars => IInv'
<1> SUFFICES ASSUME IInv, [Next]_vars PROVE IInv'
  OBVIOUS
<1>1. ASSUME UNCHANGED vars PROVE IInv'
  <2>1. UNCHANGED <<senderVars, wire>> /\ UNCHANGED receiverVars
    BY <1>1 DEF vars
  <2>2. SenderInv' /\ torn' = torn /\ sender' = sender
    BY <2>1, SenderUnmoved
  <2>3. SenderKeeps
    BY <2>2 DEF SenderKeeps
  <2> QED
    BY <2>1, <2>2, <2>3, ReceiverUnmoved DEF IInv
<1>2. ASSUME NEW version \in Versions, Edit(version) PROVE IInv'
  BY <1>2, EditWell, ReceiverUnmoved DEF IInv
<1>3. ASSUME NEW t \in Transfers,
             Measure(t) \/ Hash(t) \/ ReadChunk(t) \/ EndOfFile(t) \/ SendFails(t)
      PROVE  IInv'
  <2>1. SenderInv' /\ SenderKeeps /\ UNCHANGED receiverVars
    BY <1>3, MeasureWell, HashWell, ReadWell, ReturnWell
  <2> QED
    BY <2>1, ReceiverUnmoved DEF IInv
<1>4. ASSUME NEW c \in wire,
             \/ IgnoreChunk(c) \/ CreateFails(c) \/ WriteFails(c) \/ StoreChunk(c)
             \/ CompletionFails(c) \/ Refute(c) \/ Save(c)
      PROVE  IInv'
  BY <1>1, <1>4, CreateFailsWell, WriteFailsWell, StoreWell, RefuteWell, SaveWell DEF IgnoreChunk
<1> QED
  BY <1>1, <1>2, <1>3, <1>4, RestartWell DEF Next

LEMMA Invariance == Spec => []IInv
BY InitWell, NextWell, PTL DEF Spec

\* Every variable of a transfer holds what its type says: no chunk is counted
\* that its transfer does not have, and no open transfer lacks its partial file.
THEOREM TypeCorrect == Spec => []TypeOK
<1>1. IInv => TypeOK
  <2> SUFFICES ASSUME IInv PROVE TypeOK
    OBVIOUS
  <2>1. DOMAIN saved \subseteq 0..(MaxSaved - 1)
    BY DEF IInv, ReceiverInv, Named
  <2> QED
    BY <2>1 DEF IInv, SenderInv, SenderType, ReceiverInv, ReceiverType, TypeOK
<1> QED
  BY <1>1, Invariance, PTL

\* FileReceiver saves what a sender hashed, whatever is edited, lost or repeated.
THEOREM SavedStayIntact == Spec => []SavedIntact
<1>1. IInv => SavedIntact
  BY DEF IInv, ReceiverInv
<1> QED
  BY <1>1, Invariance, PTL

\* The verification of a file that nobody touched succeeds: its chunks, in any
\* order and however often, make up the file.
THEOREM UntouchedVerified == Spec => []OnlyTornRefuted
<1>1. IInv => OnlyTornRefuted
  BY DEF IInv, ReceiverInv
<1> QED
  BY <1>1, Invariance, PTL

\* A transfer that has all its chunks is still open only after a failed completion.
THEOREM OpenStaysIncomplete == Spec => []OpenIsIncomplete
<1>1. IInv => OpenIsIncomplete
  BY DEF IInv, ReceiverInv
<1> QED
  BY <1>1, Invariance, PTL

\* unique_path: no step replaces or removes a file that was saved.
THEOREM SavedStay == Spec => SavedFilesKept
<1> DEFINE Kept == \A n \in DOMAIN saved : n \in DOMAIN saved' /\ saved'[n] = saved[n]
<1>1. IInv /\ [Next]_vars => [Kept]_vars
  <2> SUFFICES ASSUME IInv, Next PROVE Kept
    OBVIOUS
  <2>1. ASSUME NEW c \in wire, Save(c) PROVE Kept
    <3>1. /\ Cardinality(DOMAIN saved) < MaxSaved
          /\ saved' = [n \in DOMAIN saved \cup {FreeName} |->
                          IF n = FreeName THEN Written(c) ELSE saved[n]]
      BY <2>1 DEF Save
    <3>2. FreeName \notin DOMAIN saved
      BY <3>1, NextName DEF IInv, ReceiverInv
    <3> QED
      BY <3>1, <3>2
  <2>2. CASE saved' = saved
    BY <2>2
  <2>3. saved' = saved \/ \E c \in wire : Save(c)
    BY DEF Next, Edit, Measure, Hash, ReadChunk, EndOfFile, SendFails, IgnoreChunk, CreateFails,
           WriteFails, StoreChunk, CompletionFails, Refute, RestartReceiver, receiverVars, vars
  <2> QED
    BY <2>1, <2>2, <2>3
<1> QED
  BY <1>1, Invariance, PTL DEF Spec, SavedFilesKept

=============================================================================
