------------------------------- MODULE WalLog -------------------------------
(***************************************************************************)
(* What WalStorage promises to the database above it, without              *)
(* pending_count, notifications, retries or program counters: entries go   *)
(* through a queue, are popped into the batch of whichever drain runs, and *)
(* reach the file one whole batch at a time.  A flush() that returns Ok    *)
(* promises only that none of the caller's entries is still in the queue   *)
(* or in a batch of its own.  WalStorage is checked to implement this      *)
(* specification, and Database is composed with it.                        *)
(***************************************************************************)
EXTENDS Naturals, Sequences, SequencesExt

CONSTANTS
    Clients,    \* tasks that append and flush
    Flusher,    \* the background flusher
    Entry,      \* what can be appended
    Torn,       \* an incomplete record in the file
    Nobody      \* not a drainer

VARIABLES
    queue,      \* entries accepted by append(), in order
    batch,      \* entries each drain holds
    writing,    \* the drain between its write and its fsync, or Nobody
    file,       \* records of the WAL file
    synced,     \* how many of them are on disk for good
    mine,       \* entries each client appended
    acked       \* of those, the entries its last flush() => Ok covers

log == <<queue, batch, writing, file, synced>>
logVars == <<log, mine, acked>>

Drainers == Clients \cup {Flusher}

LogInit ==
    /\ queue = <<>>
    /\ batch = [d \in Drainers |-> <<>>]
    /\ writing = Nobody
    /\ file = <<>>
    /\ synced = 0
    /\ mine = [c \in Clients |-> {}]
    /\ acked = [c \in Clients |-> {}]

Push(c, e) ==
    /\ queue' = Append(queue, e)
    /\ mine' = [mine EXCEPT ![c] = @ \cup {e}]
    /\ UNCHANGED <<batch, writing, file, synced, acked>>

Pop(d) ==
    /\ queue # <<>>
    /\ writing # d
    /\ batch' = [batch EXCEPT ![d] = Append(@, Head(queue))]
    /\ queue' = Tail(queue)
    /\ UNCHANGED <<writing, file, synced, mine, acked>>

Write(d) ==
    /\ writing = Nobody
    /\ batch[d] # <<>>
    /\ file' = file \o batch[d]
    /\ writing' = d
    /\ UNCHANGED <<queue, batch, synced, mine, acked>>

\* Mutant: the batch is counted on top of the file that holds it.
Sync_CountsTwice(d) ==
    /\ writing = d
    /\ synced' = Len(file) + Len(batch[d])
    /\ batch' = [batch EXCEPT ![d] = <<>>]
    /\ writing' = Nobody
    /\ UNCHANGED <<queue, file, mine, acked>>

Sync(d) ==
    /\ writing = d
    /\ synced' = Len(file)
    /\ batch' = [batch EXCEPT ![d] = <<>>]
    /\ writing' = Nobody
    /\ UNCHANGED <<queue, file, mine, acked>>

\* What a write that fails, or that a crash interrupts, leaves of a batch.
PartOf(b) ==
    LET whole == { SubSeq(b, 1, k) : k \in 0..(Len(b) - 1) }
    IN  {b} \cup whole \cup { p \o <<Torn>> : p \in whole }

\* An I/O error: the drain forgets its batch.
Fail(d) ==
    /\ batch[d] # <<>>
    /\ \/ writing = Nobody /\ \E part \in PartOf(batch[d]) : file' = file \o part
       \/ writing = d /\ UNCHANGED file
    /\ batch' = [batch EXCEPT ![d] = <<>>]
    /\ writing' = Nobody
    /\ UNCHANGED <<queue, synced, mine, acked>>

\* flush() may return Ok: own entries have left the queue and the own drain
\* is over.  They may still be in the batch of another drain.
MayAck(c) == ToSet(queue) \cap mine[c] = {} /\ batch[c] = <<>>

Ack(c) ==
    /\ MayAck(c)
    /\ acked' = [acked EXCEPT ![c] = mine[c]]
    /\ UNCHANGED <<log, mine>>

LogNext ==
    \/ \E c \in Clients : Ack(c) \/ \E e \in Entry \ UNION { mine[o] : o \in Clients } : Push(c, e)
    \/ \E d \in Drainers : Pop(d) \/ Write(d) \/ Sync(d) \/ Fail(d)

LogSpec == LogInit /\ [][LogNext]_logVars
=============================================================================
