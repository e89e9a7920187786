----------------------------- MODULE TraceStore -----------------------------
(***************************************************************************)
(* The trace store: internal/tracestore/store.go.                          *)
(*                                                                         *)
(* Every request that is answered records its trace: into a map by         *)
(* identifier, then into a ring of keys under the mutex, which evicts the  *)
(* oldest trace from the map, then into a channel a writer empties to      *)
(* disk.  The three are separate steps, and requests interleave.           *)
(*                                                                         *)
(* A trace is its identifier and the time its request began.  The          *)
(* identifier is the client's X-Request-ID where it sends one, so it may   *)
(* come twice.  The file rotation is lumberjack's: files hold FileSize     *)
(* records, and MaxBackups old ones are kept.                              *)
(***************************************************************************)
EXTENDS Integers, Sequences, FiniteSets

CONSTANTS
  Recorder,    \* request goroutines
  Id,          \* request identifiers
  NoId,        \* the empty string of an unused slot
  NoRecord,
  Size,        \* RingBufferSize, 1000
  Buffer,      \* ChannelBuffer, 500
  FileSize,    \* records in a file, by DiskMaxSizeMB
  MaxBackups,  \* DiskMaxBackups, 10
  MaxRecords,  \* bound on the requests
  MaxTroubles  \* bound on the failing writes and restarts, together

ASSUME IdAssumption == NoId \notin Id
ASSUME SizeAssumption == Size \in Nat \ {0} /\ Buffer \in Nat \ {0}
ASSUME DiskAssumption == FileSize \in Nat \ {0} /\ MaxBackups \in Nat
ASSUME TraceBoundAssumption == MaxRecords \in Nat /\ MaxTroubles \in Nat

Slot == 0 .. Size - 1
Record == [id : Id, at : 1 .. MaxRecords]
ASSUME NoRecordAssumption == NoRecord \notin Record

VARIABLES
  ring,      \* the map; NoRecord where it has no entry
  keys,      \* identifiers in the ring, NoId where it is empty
  head,      \* the slot written next
  queue,     \* the channel
  hand,      \* the record the writer is busy with
  files,     \* the current file, then the backups, newest first
  pc, rec,   \* where each request stands, and its record
  clock,     \* requests begun so far
  troubles   \* what remains of MaxTroubles

memory == <<ring, keys, head>>
disk == <<hand, files>>
vars == <<memory, queue, disk, pc, rec, clock, troubles>>

TypeOK ==
  /\ ring \in [Id -> Record \cup {NoRecord}]
  /\ keys \in [Slot -> Id \cup {NoId}]
  /\ head \in Slot
  /\ queue \in Seq(Record) /\ Len(queue) <= Buffer
  /\ hand \in Record \cup {NoRecord}
  /\ files \in Seq(Seq(Record)) /\ Len(files) \in 1 .. MaxBackups + 1
  /\ pc \in [Recorder -> {"idle", "store", "insert", "send"}]
  /\ rec \in [Recorder -> Record \cup {NoRecord}]
  /\ \A p \in Recorder : pc[p] # "idle" => rec[p] \in Record
  /\ clock \in 0 .. MaxRecords
  /\ troubles \in 0 .. MaxTroubles

NothingStored == [id \in Id |-> NoRecord]
NothingListed == [s \in Slot |-> NoId]

Init ==
  /\ ring = NothingStored /\ keys = NothingListed /\ head = 0
  /\ queue = <<>> /\ hand = NoRecord /\ files = << <<>> >>
  /\ pc = [p \in Recorder |-> "idle"]
  /\ rec = [p \in Recorder |-> NoRecord]
  /\ clock = 0
  /\ troubles = MaxTroubles

Goto(p, from, to) == pc[p] = from /\ pc' = [pc EXCEPT ![p] = to]

Trouble == troubles > 0 /\ troubles' = troubles - 1
----------------------------------------------------------------------------
(* Record, called at the end of a request. *)

\* A request that will be answered begins: its trace carries the time of the
\* start, not of the end.
Begin(p) ==
  /\ clock < MaxRecords
  /\ Goto(p, "idle", "store")
  /\ clock' = clock + 1
  /\ \E id \in Id : rec' = [rec EXCEPT ![p] = [id |-> id, at |-> clock']]
  /\ UNCHANGED <<memory, queue, disk, troubles>>

Store(p) ==
  /\ Goto(p, "store", "insert")
  /\ ring' = [ring EXCEPT ![rec[p].id] = rec[p]]
  /\ UNCHANGED <<keys, head, queue, disk, rec, clock, troubles>>

\* Mutant: the slot is taken without evicting the trace that had it.
InsertOver(p) ==
  /\ Goto(p, "insert", "send")
  /\ keys' = [keys EXCEPT ![head] = rec[p].id]
  /\ head' = (head + 1) % Size
  /\ UNCHANGED <<ring, queue, disk, rec, clock, troubles>>

\* Mutant: the ring stays at its last slot instead of wrapping around.
InsertWithoutWrap(p) ==
  /\ Goto(p, "insert", "send")
  /\ ring' = [id \in Id |-> IF id = keys[head] THEN NoRecord ELSE ring[id]]
  /\ keys' = [keys EXCEPT ![head] = rec[p].id]
  /\ head' = IF head + 1 < Size THEN head + 1 ELSE head
  /\ UNCHANGED <<queue, disk, rec, clock, troubles>>

\* The oldest trace leaves the map, under whichever record its identifier has
\* by now; the new one takes its slot.
Insert(p) ==
  /\ Goto(p, "insert", "send")
  /\ ring' = [id \in Id |-> IF id = keys[head] THEN NoRecord ELSE ring[id]]
  /\ keys' = [keys EXCEPT ![head] = rec[p].id]
  /\ head' = (head + 1) % Size
  /\ UNCHANGED <<queue, disk, rec, clock, troubles>>

\* Mutant: the channel is sent to although it is full.
SendAlways(p) ==
  /\ Goto(p, "send", "idle")
  /\ queue' = Append(queue, rec[p])
  /\ UNCHANGED <<memory, disk, rec, clock, troubles>>

\* A full channel drops the record instead of holding up the request.
Send(p) ==
  /\ Goto(p, "send", "idle")
  /\ queue' = IF Len(queue) < Buffer THEN Append(queue, rec[p]) ELSE queue
  /\ UNCHANGED <<memory, disk, rec, clock, troubles>>
----------------------------------------------------------------------------
(* diskWriterLoop *)

Take ==
  /\ hand = NoRecord /\ queue # <<>>
  /\ hand' = Head(queue) /\ queue' = Tail(queue)
  /\ UNCHANGED <<memory, files, pc, rec, clock, troubles>>

\* lumberjack's Write: a full file becomes the newest backup, and the oldest
\* goes when there are too many.
Written(record) ==
  IF Len(files[1]) < FileSize
    THEN [files EXCEPT ![1] = Append(@, record)]
    ELSE LET kept == IF Len(files) <= MaxBackups THEN files
                                                 ELSE SubSeq(files, 1, MaxBackups)
         IN << <<record>> >> \o kept

\* A failing write loses the record, and the writer goes on.
Write ==
  /\ hand # NoRecord
  /\ hand' = NoRecord
  /\ \/ files' = Written(hand) /\ UNCHANGED troubles
     \/ UNCHANGED files /\ Trouble
  /\ UNCHANGED <<memory, queue, pc, rec, clock>>

\* Nothing calls Close: what is queued when the process ends is lost.
Restart ==
  /\ Trouble
  /\ ring' = NothingStored /\ keys' = NothingListed /\ head' = 0
  /\ queue' = <<>> /\ hand' = NoRecord
  /\ pc' = [p \in Recorder |-> "idle"]
  /\ rec' = [p \in Recorder |-> NoRecord]
  /\ UNCHANGED <<files, clock>>
----------------------------------------------------------------------------
RecordSteps(p) == Store(p) \/ Insert(p) \/ Send(p)
Writer == Take \/ Write

Next ==
  \/ \E p \in Recorder : Begin(p) \/ RecordSteps(p)
  \/ Writer
  \/ Restart

Spec == Init /\ [][Next]_vars
----------------------------------------------------------------------------
(* Properties. *)

\* Between Store and Insert a trace is in the map and not yet in the ring.
Storing == {rec[p].id : p \in {q \in Recorder : pc[q] = "insert"}}
Remembered == {id \in Id : ring[id] # NoRecord}

\* The map does not leak: whatever is in it has a key in the ring, which will
\* evict it, or is about to get one.  With RingBufferSize keys this bounds the
\* memory, although map and ring are updated apart and identifiers repeat.
MemoryBounded == \A id \in Remembered : id \in Storing \/ \E s \in Slot : keys[s] = id
=============================================================================
