----------------------------- MODULE RecordFile -----------------------------
(***************************************************************************)
(* The WAL file byte by byte: the record header of src/src/lib.rs, what    *)
(* crashes and failed writes leave of a record, and the loop of recovery   *)
(* (and of checkpoint()) that reads the file again.                       *)
(* Database sees a file of records and Torn; this module checks that it    *)
(* may.                                                                    *)
(*                                                                         *)
(* A byte is a number below Base, a length has LengthBytes of them, and    *)
(* the four bytes of a CRC32 are one cell, taken to be free of collisions. *)
(***************************************************************************)
EXTENDS Replay

CONSTANTS
    Base, LengthBytes,
    MaxAlloc,   \* environment: the largest buffer the reader can have
    TxNumbers,  \* bound: transaction ids
    MaxRecords, \* bound: records appended
    MaxFaults   \* bound: crashes and failed writes

ASSUME RecordFileAssumption ==
    /\ Base \in Nat /\ LengthBytes \in Nat /\ MaxAlloc \in Nat
    /\ TxNumbers \subseteq 1..(Base - 1)
    /\ Base > 3 /\ LengthBytes > 1      \* bodies have up to three bytes
    /\ MaxRecords \in Nat /\ MaxFaults \in Nat

VARIABLES
    bytes,      \* the file
    synced,     \* how many of them are on disk for good
    written,    \* history: the records, whole or cut, and the offsets they end at
    up,         \* the process has recovered and may append
    appended, faults

fileVars == <<bytes, synced, written, up, appended, faults>>

-----------------------------------------------------------------------------
(* Records as bytes *)

Entries == [tx : TxNumbers, kind : {"insert", "commit", "abort"}]

Tag == [insert |-> 0, commit |-> 1, abort |-> 2]

\* bincode: an operation is longer than an end record.
Serialize(e) == IF IsOp(e) THEN <<Tag[e.kind], e.tx, e.tx>> ELSE <<Tag[e.kind], e.tx>>

Parses(data) == \E e \in Entries : Serialize(e) = data
Deserialize(data) == CHOOSE e \in Entries : Serialize(e) = data

\* CRC32 of no bytes is 0; that of more than any body has equals no checksum.
Crc(data) ==
    IF data = <<>> THEN 0
    ELSE IF Len(data) > 3 THEN -1
    ELSE FoldLeft(LAMBDA a, b : a * Base + b + 1, Base, data)

Version == 1
Size == LengthBytes + 2

Header(data) == [length |-> Len(data), checksum |-> Crc(data), version |-> Version]

ToBytes(h) ==
    [i \in 1..LengthBytes |-> (h.length \div Base^(i - 1)) % Base] \o <<h.checksum, h.version>>

\* Mutant: the length is read with its bytes the other way round.
FromBytes_BigEndian(b) ==
    [length |-> FoldLeft(LAMBDA acc, x : x + Base * acc, 0, SubSeq(b, 1, LengthBytes)),
     checksum |-> b[LengthBytes + 1], version |-> b[LengthBytes + 2]]

FromBytes(b) ==
    [length |-> FoldRight(LAMBDA x, acc : x + Base * acc, SubSeq(b, 1, LengthBytes), 0),
     checksum |-> b[LengthBytes + 1], version |-> b[LengthBytes + 2]]

\* Mutant: the checksum is not looked at.
Validates_Never(h, data) == TRUE

Validates(h, data) == Crc(data) = h.checksum

Bytes(e) == ToBytes(Header(Serialize(e))) \o Serialize(e)

-----------------------------------------------------------------------------
(* The loop that reads them *)

\* Where an iteration breaks out, in the order of the code.  resize() to a
\* length that no memory can hold ends the process.
StopAt(off, h, data) ==
    IF off + Size > Len(bytes)               THEN "eof"
    ELSE IF h.length > MaxAlloc              THEN "abort"
    ELSE IF off + Size + h.length > Len(bytes) THEN "torn"
    ELSE IF ~Validates(h, data)              THEN "checksum"
    ELSE IF ~Parses(data)                    THEN "garbage"
    ELSE "no"

\* recover_with_validation(): the records it reads, and why it stopped.
Scan ==
    LET from[off \in 0..Len(bytes)] ==
          LET h    == FromBytes(SubSeq(bytes, off + 1, off + Size))
              data == SubSeq(bytes, off + Size + 1, off + Size + h.length)
              why  == StopAt(off, h, data)
              rest == from[off + Size + h.length]
          IN  IF why = "no" THEN [rest EXCEPT !.recs = <<Deserialize(data)>> \o @]
              ELSE [recs |-> <<>>, why |-> why]
    IN  from[0]

\* Mutant: a body cut short is an end, too.
CheckpointScanOk_AnyEnd == Scan.why \in {"eof", "torn"}

\* The same loop in checkpoint() takes only the end of the file for an end.
CheckpointScanOk == Scan.why = "eof"

-----------------------------------------------------------------------------
(* The file *)

FileInit ==
    /\ bytes = <<>>
    /\ synced = 0
    /\ written = <<>>
    /\ up = TRUE
    /\ appended = 0
    /\ faults = 0

AppendRecord(e) ==
    /\ up
    /\ appended < MaxRecords
    /\ appended' = appended + 1
    /\ bytes' = bytes \o Bytes(e)
    /\ written' = Append(written, [of |-> e, whole |-> TRUE, to |-> Len(bytes')])
    /\ UNCHANGED <<synced, up, faults>>

\* A write that fails leaves part of a record, and the process goes on.
WriteFails(e) ==
    /\ up
    /\ faults < MaxFaults
    /\ faults' = faults + 1
    /\ \E n \in 1..(Len(Bytes(e)) - 1) : bytes' = bytes \o SubSeq(Bytes(e), 1, n)
    /\ written' = Append(written, [of |-> e, whole |-> FALSE, to |-> Len(bytes')])
    /\ UNCHANGED <<synced, up, appended>>

Fsync ==
    /\ up
    /\ synced' = Len(bytes)
    /\ UNCHANGED <<bytes, written, up, appended, faults>>

\* Beyond the last fsync any number of bytes survives; of the others, the
\* length of the file alone may have been recorded, which makes them zero.
CrashFile ==
    /\ up
    /\ faults < MaxFaults
    /\ faults' = faults + 1
    /\ \E n \in synced..Len(bytes), zeros \in BOOLEAN :
          LET kept == SelectSeq(written, LAMBDA w : w.to <= n)
          IN  /\ bytes' = SubSeq(bytes, 1, n) \o
                          (IF zeros THEN [i \in 1..(Len(bytes) - n) |-> 0] ELSE <<>>)
              /\ written' = IF Len(bytes') = (IF kept = <<>> THEN 0 ELSE Last(kept).to) THEN kept
                            ELSE Append(kept, [of |-> written[Len(kept) + 1].of, whole |-> FALSE,
                                               to |-> Len(bytes')])
    /\ synced' = Len(bytes')
    /\ up' = FALSE
    /\ UNCHANGED appended

\* with_config() opens the file for append, recover() reads it.
Restart ==
    /\ ~up
    /\ Scan.why # "abort"
    /\ up' = TRUE
    /\ UNCHANGED <<bytes, synced, written, appended, faults>>

FileNext ==
    \/ \E e \in Entries : AppendRecord(e) \/ WriteFails(e)
    \/ Fsync \/ CrashFile \/ Restart

FileSpec == FileInit /\ [][FileNext]_fileVars
-----------------------------------------------------------------------------
(* Properties *)

Records == [i \in DOMAIN written |-> IF written[i].whole THEN written[i].of ELSE Torn]
TornTailOnly == \A i \in 1..(Len(Records) - 1) : Records[i] # Torn

\* What Database takes for granted: the reader gets the records in front of the
\* first torn one, complete and in order, and never makes one up out of torn
\* bytes and the records appended behind them.  (A torn record can come back as
\* it was, when the bytes behind it happen to be those it lacks.)
ScanIsReadable ==
    LET n    == Len(Readable(Records))
        recs == Scan.recs
    IN  /\ IsPrefix(Readable(Records), recs)
        /\ \A i \in (n + 1)..Len(recs) :
              \E j \in (n + 1)..Len(written) : written[j].of = recs[i]

\* A torn tail alone, of whatever length or content, never ends the process and
\* costs no record in front of it.
TornTailIsHarmless ==
    TornTailOnly =>
        LET read == Scan
        IN  /\ read.why # "abort"
            /\ \A i \in DOMAIN written : written[i].to <= synced =>
                  Records[i] = Torn \/ i \in DOMAIN read.recs

\* The scan of checkpoint() never fails on a whole file, and when it succeeds it
\* has passed over no record that is whole.
CheckpointScanFails ==
    /\ Torn \notin ToSet(Records) => CheckpointScanOk
    /\ CheckpointScanOk =>
          { written[i].of : i \in { j \in DOMAIN written : written[j].whole } } \subseteq ToSet(Scan.recs)

-----------------------------------------------------------------------------
(* What the documentation says and the code does not do *)

\* IMPLEMENTATION_CRASH_RECOVERY.md:211: "Truncate corrupted tail, recover good
\* data".  The tail is not cut off: with the next record behind it, the bytes of
\* a torn length and of that record's length form one number.
RecoveryNeverAborts == Scan.why # "abort"
=============================================================================
