---------------------------- MODULE FileTransfer ----------------------------
(***************************************************************************)
(* Files between machines (core/src/client/file.rs): send_file_through on  *)
(* one side, FileReceiver on the other.  The sender measures and hashes a  *)
(* file and then reads it chunk by chunk, while its user may go on editing *)
(* it.  The receiver writes what arrives into a partial file, and saves it *)
(* once every chunk is there and the hash is right.                        *)
(*                                                                         *)
(* The receiver expects chunks that are missing, repeated or out of order, *)
(* so the network between is a set of chunks any of which may arrive at    *)
(* any time, any number of times, or never.  The same file is sent several *)
(* times at once, which is also the case of files with the same name.      *)
(***************************************************************************)
EXTENDS Naturals, Sequences, FiniteSets

CONSTANTS
    Transfers,     \* the calls of send_file_through, which are also file ids
    Cells,         \* what files are made of
    Zero,          \* a cell of a file that was extended and not written
    ChunkCells,    \* FILE_CHUNK_BYTES, in cells
    Versions,      \* bound: what the file being sent may contain
    MaxEdits,      \* bound: edits of that file
    MaxSaved,      \* bound: files saved
    ShortReads,    \* whether a read may return less than there is
    Flaky,         \* whether the receiver's file operations may fail
    None

Content == Seq(Cells \cup {Zero})

ASSUME TransferAssumption ==
    /\ ChunkCells \in Nat \ {0}
    /\ Versions # {} /\ Versions \subseteq Seq(Cells)
    /\ MaxEdits \in Nat /\ MaxSaved \in Nat
    /\ ShortReads \in BOOLEAN /\ Flaky \in BOOLEAN
    /\ None \notin Content
    /\ None \notin [total: Nat, size: Nat, sha: Content, received: SUBSET Nat]

VARIABLES
    source,      \* the file being sent, as it is now
    sender,      \* sender[t]: the locals of the call t
    wire,        \* every chunk sent
    transfers,   \* transfers[t]: the receiver's entry for file id t, or None
    partial,     \* partial[t]: the file <t>.partial, or None
    saved,       \* saved[n]: the file "name (n)", "name" for 0
    \* History:
    edits,       \* edits so far
    torn,        \* transfers that were edited while being read, or read short
    failed,      \* transfers whose completion met an error
    refuted      \* transfers that failed verification

senderVars == <<source, sender, edits, torn>>
receiverVars == <<transfers, partial, saved, failed, refuted>>
vars == <<senderVars, wire, receiverVars>>

\* A hash stands for what was hashed.
Chunks == [file: Transfers, index: Nat, total: Nat, sha: Content, size: Nat,
           payload: Content]

Entries == [total: Nat, size: Nat, sha: Content, received: SUBSET Nat]

Senders == [at: {"idle", "hashing", "reading", "returned"},
            size: Nat, sha: Content, position: Nat, index: Nat]

TypeOK ==
    /\ source \in Versions
    /\ sender \in [Transfers -> Senders]
    /\ wire \subseteq Chunks
    /\ transfers \in [Transfers -> Entries \cup {None}]
    /\ \A t \in Transfers : transfers[t] # None =>
          /\ transfers[t].received \subseteq 0..(transfers[t].total - 1)
          /\ partial[t] # None
    /\ partial \in [Transfers -> Content \cup {None}]
    /\ DOMAIN saved \subseteq 0..(MaxSaved - 1)
    /\ \A n \in DOMAIN saved : saved[n] \in Content
    /\ edits \in 0..MaxEdits
    /\ torn \subseteq Transfers /\ failed \subseteq Transfers /\ refuted \subseteq Transfers

Init ==
    /\ source \in {v \in Versions : v # << >>}
    /\ sender = [t \in Transfers |->
                    [at |-> "idle", size |-> 0, sha |-> << >>, position |-> 0, index |-> 0]]
    /\ wire = {}
    /\ transfers = [t \in Transfers |-> None]
    /\ partial = [t \in Transfers |-> None]
    /\ saved = << >>
    /\ edits = 0
    /\ torn = {} /\ failed = {} /\ refuted = {}

----------------------------------------------------------------------------
(* The sender *)

DivCeil(a, b) == (a + b - 1) \div b

Least(a, b) == IF a <= b THEN a ELSE b
Greatest(a, b) == IF a >= b THEN a ELSE b

\* Another program writes the file in place.
Edit(version) ==
    /\ edits < MaxEdits
    /\ version # source
    /\ edits' = edits + 1
    /\ source' = version
    /\ torn' = torn \cup {t \in Transfers : sender[t].at \in {"hashing", "reading"}}
    /\ UNCHANGED <<sender, wire, receiverVars>>

\* fs::metadata: an empty file is refused.
Measure(t) ==
    /\ sender[t].at = "idle"
    /\ sender' = [sender EXCEPT ![t].at = IF source = << >> THEN "returned" ELSE "hashing",
                                ![t].size = Len(source)]
    /\ UNCHANGED <<source, edits, torn, wire, receiverVars>>

\* sha256_of_path, and a new file id.
Hash(t) ==
    /\ sender[t].at = "hashing"
    /\ sender' = [sender EXCEPT ![t].at = "reading", ![t].sha = source]
    /\ UNCHANGED <<source, edits, torn, wire, receiverVars>>

\* The next read of at most a chunk, and the chunk sent.
ReadChunk(t) ==
    LET s == sender[t]
        left == Len(source) - s.position
        full == Least(ChunkCells, left)
    IN  /\ s.at = "reading"
        /\ s.position < Len(source)
        /\ \E n \in (IF ShortReads THEN 1..full ELSE {full}) :
              /\ sender' = [sender EXCEPT ![t].position = @ + n, ![t].index = @ + 1]
              /\ wire' = wire \cup
                    {[file |-> t, index |-> s.index, total |-> DivCeil(s.size, ChunkCells),
                      sha |-> s.sha, size |-> s.size,
                      payload |-> SubSeq(source, s.position + 1, s.position + n)]}
              /\ torn' = IF n < full THEN torn \cup {t} ELSE torn
        /\ UNCHANGED <<source, edits, receiverVars>>

\* A read at the end of the file.
EndOfFile(t) ==
    /\ sender[t].at = "reading"
    /\ sender[t].position >= Len(source)
    /\ sender' = [sender EXCEPT ![t].at = "returned"]
    /\ UNCHANGED <<source, edits, torn, wire, receiverVars>>

\* The file cannot be hashed, opened or read, or the channel is closed.
SendFails(t) ==
    /\ sender[t].at \in {"hashing", "reading"}
    /\ sender' = [sender EXCEPT ![t].at = "returned"]
    /\ UNCHANGED <<source, edits, torn, wire, receiverVars>>

----------------------------------------------------------------------------
(* The receiver *)

\* Bug variant: an index of any size.
ValidWhateverIndex(c) == c.total > 0

\* FileChunkFrame::validate, in the hub and in the receiver.
Valid(c) == c.index < c.total

Known(c) == transfers[c.file] # None

\* A new entry, and its partial file truncated and extended to its full size.
Entry(c) ==
    IF Known(c) THEN transfers[c.file]
    ELSE [total |-> c.total, size |-> c.size, sha |-> c.sha, received |-> {}]

Opened(c) == IF Known(c) THEN partial[c.file] ELSE [i \in 1..c.size |-> Zero]

Consistent(c) ==
    /\ c.total = Entry(c).total
    /\ c.sha = Entry(c).sha
    /\ c.size = Entry(c).size

Wanted(c) == Valid(c) /\ Consistent(c) /\ c.index \notin Entry(c).received

\* Seek and write: whatever is between the end of the file and the offset reads
\* as zeros.
WriteAt(content, offset, bytes) ==
    [i \in 1..Greatest(Len(content), offset + Len(bytes)) |->
        IF i \in (offset + 1)..(offset + Len(bytes)) THEN bytes[i - offset]
        ELSE IF i <= Len(content) THEN content[i] ELSE Zero]

\* Bug variant: chunks are appended to what was received.
WrittenInOrder(c) ==
    WriteAt(Opened(c), Cardinality(Entry(c).received) * ChunkCells, c.payload)

Written(c) == WriteAt(Opened(c), c.index * ChunkCells, c.payload)

Received(c) == [Entry(c) EXCEPT !.received = @ \cup {c.index}]

\* Bug variant: the chunk with the last index is taken for the last to come.
CompletesByIndex(c) == c.index = c.total - 1 /\ Cardinality(Received(c).received) = c.total

Completes(c) == Received(c).received = 0..(Entry(c).total - 1)

\* A chunk that was received before, or does not fit its transfer.
IgnoreChunk(c) ==
    /\ Known(c) /\ ~Wanted(c)
    /\ UNCHANGED vars

\* The partial file cannot be opened, or not be extended.
CreateFails(c) ==
    /\ Flaky
    /\ Valid(c) /\ ~Known(c)
    /\ \/ UNCHANGED partial
       \/ partial' = [partial EXCEPT ![c.file] = << >>]
    /\ UNCHANGED <<senderVars, wire, transfers, saved, failed, refuted>>

\* The chunk cannot be written, or not all of it.
WriteFails(c) ==
    /\ Flaky
    /\ Wanted(c)
    /\ transfers' = [transfers EXCEPT ![c.file] = Entry(c)]
    /\ \E n \in 0..(Len(c.payload) - 1) :
          partial' = [partial EXCEPT ![c.file] =
                         WriteAt(Opened(c), c.index * ChunkCells, SubSeq(c.payload, 1, n))]
    /\ UNCHANGED <<senderVars, wire, saved, failed, refuted>>

StoreChunk(c) ==
    /\ Wanted(c) /\ ~Completes(c)
    /\ transfers' = [transfers EXCEPT ![c.file] = Received(c)]
    /\ partial' = [partial EXCEPT ![c.file] = Written(c)]
    /\ UNCHANGED <<senderVars, wire, saved, failed, refuted>>

\* sync_all, the hash or the rename returns an error: everything stays as it is.
CompletionFails(c) ==
    /\ Flaky
    /\ Wanted(c) /\ Completes(c)
    /\ transfers' = [transfers EXCEPT ![c.file] = Received(c)]
    /\ partial' = [partial EXCEPT ![c.file] = Written(c)]
    /\ failed' = failed \cup {c.file}
    /\ UNCHANGED <<senderVars, wire, saved, refuted>>

\* The hash is wrong: the partial file is removed, if that succeeds.
Refute(c) ==
    /\ Wanted(c) /\ Completes(c)
    /\ Written(c) # c.sha
    /\ transfers' = [transfers EXCEPT ![c.file] = None]
    /\ \/ partial' = [partial EXCEPT ![c.file] = None]
       \/ Flaky /\ partial' = [partial EXCEPT ![c.file] = Written(c)]
    /\ refuted' = refuted \cup {c.file}
    /\ UNCHANGED <<senderVars, wire, saved, failed>>

\* Bug variant: the name as it came.
SameName == 0

\* unique_path: the first name that is free.
FreeName == CHOOSE n \in 0..MaxSaved :
                /\ n \notin DOMAIN saved
                /\ \A m \in 0..(n - 1) : m \in DOMAIN saved

\* Bug variant: size instead of hash.
SaveUnverified(c) ==
    /\ Wanted(c) /\ Completes(c)
    /\ Len(Written(c)) = c.size
    /\ Cardinality(DOMAIN saved) < MaxSaved
    /\ saved' = [n \in DOMAIN saved \cup {FreeName} |->
                    IF n = FreeName THEN Written(c) ELSE saved[n]]
    /\ transfers' = [transfers EXCEPT ![c.file] = None]
    /\ partial' = [partial EXCEPT ![c.file] = None]
    /\ UNCHANGED <<senderVars, wire, failed, refuted>>

\* The hash is right: the partial file is renamed to a free name.
Save(c) ==
    /\ Wanted(c) /\ Completes(c)
    /\ Written(c) = c.sha
    /\ Cardinality(DOMAIN saved) < MaxSaved
    /\ saved' = [n \in DOMAIN saved \cup {FreeName} |->
                    IF n = FreeName THEN Written(c) ELSE saved[n]]
    /\ transfers' = [transfers EXCEPT ![c.file] = None]
    /\ partial' = [partial EXCEPT ![c.file] = None]
    /\ UNCHANGED <<senderVars, wire, failed, refuted>>

\* The client restarts, or crashes in the middle of the above: the map is lost,
\* the files stay.
RestartReceiver ==
    /\ transfers' = [t \in Transfers |-> None]
    /\ failed' = {}
    /\ UNCHANGED <<senderVars, wire, partial, saved, refuted>>

----------------------------------------------------------------------------
Next ==
    \/ \E version \in Versions : Edit(version)
    \/ \E t \in Transfers :
          Measure(t) \/ Hash(t) \/ ReadChunk(t) \/ EndOfFile(t) \/ SendFails(t)
    \/ \E c \in wire :
          \/ IgnoreChunk(c) \/ CreateFails(c) \/ WriteFails(c) \/ StoreChunk(c)
          \/ CompletionFails(c) \/ Refute(c) \/ Save(c)
    \/ RestartReceiver

Spec == Init /\ [][Next]_vars
----------------------------------------------------------------------------
(* Safety *)

\* What is saved is a file as it was when its sender hashed it: not a mixture of
\* versions, not one with a hole, whatever was edited, lost or repeated.
SavedIntact ==
    \A n \in DOMAIN saved : \E t \in Transfers :
        sender[t].at \in {"reading", "returned"} /\ saved[n] = sender[t].sha

\* Receiving a file never takes an earlier one away, also if both have one name.
SavedFilesKept ==
    [][\A n \in DOMAIN saved : n \in DOMAIN saved' /\ saved'[n] = saved[n]]_vars

\* Verification only fails for files that changed under the sender, or were read
\* short: losses, repetitions, reordering, failed writes and restarts delay a
\* transfer but do not damage it.
OnlyTornRefuted == refuted \subseteq torn

\* A transfer has every chunk and is still open only if its completion failed.
\* (No chunk will ever complete it then.)
OpenIsIncomplete ==
    \A t \in Transfers :
        /\ transfers[t] # None
        /\ transfers[t].received = 0..(transfers[t].total - 1)
        => t \in failed
=============================================================================
