-------------------------- MODULE TraceStoreProofs --------------------------
(***************************************************************************)
(* Type correctness of the trace store, the bound on its memory and its    *)
(* refinement of RecentTraces, for every size of the ring and any number   *)
(* of requests and identifiers.                                            *)
(***************************************************************************)
EXTENDS TraceList, FiniteSetTheorems, TLAPS

\* TypeOK in two parts: what MemoryBounded needs, and the channel and files.
MemoryTypeOK ==
  /\ ring \in [Id -> Record \cup {NoRecord}]
  /\ keys \in [Slot -> Id \cup {NoId}]
  /\ head \in Slot
  /\ pc \in [Recorder -> {"idle", "store", "insert", "send"}]
  /\ rec \in [Recorder -> Record \cup {NoRecord}]
  /\ \A p \in Recorder : pc[p] # "idle" => rec[p] \in Record
  /\ clock \in 0 .. MaxRecords

MemoryInv == MemoryTypeOK /\ MemoryBounded

LEMMA NextSlot == ASSUME NEW h \in Slot PROVE (h + 1) % Size \in Slot
  BY SizeAssumption DEF Slot

LEMMA InitMemory == Init => MemoryInv
  <1> SUFFICES ASSUME Init PROVE MemoryInv
    OBVIOUS
  <1>1. MemoryTypeOK
    BY SizeAssumption, TraceBoundAssumption
    DEF Init, MemoryTypeOK, NothingStored, NothingListed, Slot
  <1>2. MemoryBounded
    BY DEF Init, MemoryBounded, Remembered, NothingStored
  <1> QED BY <1>1, <1>2 DEF MemoryInv

\* Each action keeps the types, and what the map remembers stays listed.
LEMMA MemoryStep == MemoryInv /\ [Next]_vars => MemoryInv'
  <1> SUFFICES ASSUME MemoryInv, [Next]_vars PROVE MemoryInv'
    OBVIOUS
  <1> USE DEF MemoryInv
  <1>1. ASSUME NEW p \in Recorder, Begin(p) PROVE MemoryInv'
    <2>1. clock + 1 \in 1 .. MaxRecords
      BY <1>1, TraceBoundAssumption DEF Begin, MemoryTypeOK
    <2>2. PICK id \in Id : rec' = [rec EXCEPT ![p] = [id |-> id, at |-> clock']]
      BY <1>1 DEF Begin
    <2>3. [id |-> id, at |-> clock'] \in Record
      BY <1>1, <2>1 DEF Begin, Record
    <2>4. MemoryTypeOK'
      BY <1>1, <2>1, <2>2, <2>3 DEF Begin, Goto, MemoryTypeOK, memory
    <2>5. Storing' = Storing
      BY <1>1, <2>2 DEF Begin, Goto, Storing, MemoryTypeOK
    <2>6. MemoryBounded'
      BY <1>1, <2>5 DEF Begin, MemoryBounded, Remembered, memory
    <2> QED BY <2>4, <2>6
  <1>2. ASSUME NEW p \in Recorder, Store(p) PROVE MemoryInv'
    <2>1. rec[p] \in Record /\ rec[p].id \in Id
      BY <1>2 DEF Store, Goto, MemoryTypeOK, Record
    <2>2. MemoryTypeOK'
      BY <1>2, <2>1 DEF Store, Goto, MemoryTypeOK
    <2>3. Storing' = Storing \cup {rec[p].id}
      BY <1>2 DEF Store, Goto, Storing, MemoryTypeOK
    <2>4. Remembered' \subseteq Remembered \cup {rec[p].id}
      BY <1>2, <2>1 DEF Store, Remembered, MemoryTypeOK
    <2>5. MemoryBounded'
      BY <1>2, <2>3, <2>4 DEF Store, MemoryBounded
    <2> QED BY <2>2, <2>5
  <1>3. ASSUME NEW p \in Recorder, Insert(p) PROVE MemoryInv'
    <2>1. rec[p] \in Record /\ rec[p].id \in Id
      BY <1>3 DEF Insert, Goto, MemoryTypeOK, Record
    <2>2. head' \in Slot
      BY <1>3, NextSlot DEF Insert, MemoryTypeOK
    <2>3. MemoryTypeOK'
      BY <1>3, <2>1, <2>2 DEF Insert, Goto, MemoryTypeOK
    <2>4. ASSUME NEW id \in Remembered'
          PROVE id \in Storing' \/ \E s \in Slot : keys'[s] = id
      <3>1. id \in Remembered /\ id # keys[head]
        BY <1>3, <2>4 DEF Insert, Remembered
      <3>2. keys'[head] = rec[p].id
        BY <1>3 DEF Insert, MemoryTypeOK
      <3>3. CASE id \in Storing
        <4>1. PICK q \in Recorder : pc[q] = "insert" /\ rec[q].id = id
          BY <3>3 DEF Storing
        <4>2. CASE q = p
          BY <3>2, <4>1, <4>2 DEF MemoryTypeOK
        <4>3. CASE q # p
          BY <1>3, <4>1, <4>3 DEF Insert, Goto, Storing, MemoryTypeOK
        <4> QED BY <4>2, <4>3
      <3>4. CASE \E s \in Slot : keys[s] = id
        BY <1>3, <3>1, <3>4 DEF Insert, MemoryTypeOK
      <3> QED BY <3>1, <3>3, <3>4 DEF MemoryBounded
    <2> QED BY <2>3, <2>4 DEF MemoryBounded
  <1>4. ASSUME NEW p \in Recorder, Send(p) PROVE MemoryInv'
    <2>1. MemoryTypeOK'
      BY <1>4 DEF Send, Goto, MemoryTypeOK, memory
    <2>2. Storing' = Storing
      BY <1>4 DEF Send, Goto, Storing, MemoryTypeOK
    <2>3. MemoryBounded'
      BY <1>4, <2>2 DEF Send, MemoryBounded, Remembered, memory
    <2> QED BY <2>1, <2>3
  <1>5. ASSUME UNCHANGED <<memory, pc, rec, clock>> PROVE MemoryInv'
    BY <1>5 DEF memory, MemoryTypeOK, MemoryBounded, Remembered, Storing
  <1>6. CASE Restart
    <2>1. MemoryTypeOK'
      BY <1>6, SizeAssumption
      DEF Restart, NothingStored, NothingListed, MemoryTypeOK, Slot
    <2>2. MemoryBounded'
      BY <1>6 DEF Restart, NothingStored, MemoryBounded, Remembered
    <2> QED BY <2>1, <2>2
  <1>7. CASE Writer
    BY <1>5, <1>7 DEF Writer, Take, Write
  <1>8. CASE UNCHANGED vars
    BY <1>5, <1>8 DEF vars
  <1> QED BY <1>1, <1>2, <1>3, <1>4, <1>6, <1>7, <1>8 DEF Next, RecordSteps

\* Whatever the map remembers has a key in the ring, or is about to get one:
\* the updates of the map and of the ring, apart as they are in Record, never
\* leave a trace behind that nothing evicts.
THEOREM MemoryIsBounded == Spec => []MemoryBounded
  <1>1. MemoryInv => MemoryBounded
    BY DEF MemoryInv
  <1> QED BY <1>1, InitMemory, MemoryStep, PTL DEF Spec
----------------------------------------------------------------------------
(* The channel and the files. *)

DiskTypeOK ==
  /\ queue \in Seq(Record) /\ Len(queue) <= Buffer
  /\ hand \in Record \cup {NoRecord}
  /\ files \in Seq(Seq(Record)) /\ Len(files) \in 1 .. MaxBackups + 1
  /\ troubles \in 0 .. MaxTroubles

LEMMA InitDisk == Init => DiskTypeOK
  BY SizeAssumption, DiskAssumption, TraceBoundAssumption DEF Init, DiskTypeOK

\* Writing keeps the files within their number.
LEMMA WrittenType ==
  ASSUME DiskTypeOK, NEW r \in Record
  PROVE  Written(r) \in Seq(Seq(Record)) /\ Len(Written(r)) \in 1 .. MaxBackups + 1
  <1>1. CASE Len(files[1]) < FileSize
    <2>1. files[1] \in Seq(Record)
      BY DEF DiskTypeOK
    <2>2. Append(files[1], r) \in Seq(Record)
      BY <2>1
    <2>3. Written(r) = [files EXCEPT ![1] = Append(files[1], r)]
      BY <1>1 DEF Written
    <2> QED BY <2>2, <2>3 DEF DiskTypeOK
  <1>2. CASE ~(Len(files[1]) < FileSize)
    <2> DEFINE kept == IF Len(files) <= MaxBackups THEN files
                                                   ELSE SubSeq(files, 1, MaxBackups)
    <2>1. kept \in Seq(Seq(Record)) /\ Len(kept) \in 0 .. MaxBackups
      BY DiskAssumption DEF DiskTypeOK
    <2>2. << <<r>> >> \in Seq(Seq(Record))
      OBVIOUS
    <2>3. Written(r) = << <<r>> >> \o kept
      BY <1>2 DEF Written
    <2> HIDE DEF kept
    <2> QED BY <2>1, <2>2, <2>3, DiskAssumption
  <1> QED BY <1>1, <1>2

LEMMA DiskStep == MemoryInv /\ DiskTypeOK /\ [Next]_vars => DiskTypeOK'
  <1> SUFFICES ASSUME MemoryInv, DiskTypeOK, [Next]_vars PROVE DiskTypeOK'
    OBVIOUS
  <1>1. ASSUME NEW p \in Recorder, Begin(p) \/ Store(p) \/ Insert(p)
        PROVE DiskTypeOK'
    BY <1>1 DEF Begin, Store, Insert, DiskTypeOK, disk
  <1>2. ASSUME NEW p \in Recorder, Send(p) PROVE DiskTypeOK'
    <2>1. rec[p] \in Record
      BY <1>2 DEF Send, Goto, MemoryInv, MemoryTypeOK
    <2>2. queue' \in Seq(Record) /\ Len(queue') <= Buffer
      BY <1>2, <2>1, SizeAssumption DEF Send, DiskTypeOK
    <2> QED BY <1>2, <2>2 DEF Send, DiskTypeOK, disk
  <1>3. CASE Take
    BY <1>3, SizeAssumption DEF Take, DiskTypeOK
  <1>4. CASE Write
    <2>1. hand \in Record
      BY <1>4 DEF Write, DiskTypeOK
    <2>2. files' = Written(hand) \/ files' = files
      BY <1>4 DEF Write
    <2>3. files' \in Seq(Seq(Record)) /\ Len(files') \in 1 .. MaxBackups + 1
      BY <2>1, <2>2, WrittenType DEF DiskTypeOK
    <2>4. troubles' \in 0 .. MaxTroubles
      BY <1>4, TraceBoundAssumption DEF Write, Trouble, DiskTypeOK
    <2> QED BY <1>4, <2>3, <2>4 DEF Write, DiskTypeOK
  <1>5. CASE Restart
    BY <1>5, SizeAssumption, TraceBoundAssumption DEF Restart, Trouble, DiskTypeOK
  <1>6. CASE UNCHANGED vars
    BY <1>6 DEF vars, disk, DiskTypeOK
  <1> QED BY <1>1, <1>2, <1>3, <1>4, <1>5, <1>6 DEF Next, RecordSteps, Writer

\* The types of the trace store: the ring and the map stay within the
\* identifiers and slots, the channel and the files within their bounds.
THEOREM TraceTypeCorrect == Spec => []TypeOK
  <1>1. Init => MemoryInv /\ DiskTypeOK
    BY InitMemory, InitDisk
  <1>2. MemoryInv /\ DiskTypeOK /\ [Next]_vars => (MemoryInv /\ DiskTypeOK)'
    BY MemoryStep, DiskStep
  <1>3. MemoryInv /\ DiskTypeOK => TypeOK
    BY DEF MemoryInv, MemoryTypeOK, DiskTypeOK, TypeOK
  <1> QED BY <1>1, <1>2, <1>3, PTL DEF Spec
----------------------------------------------------------------------------
(* The ring as a queue. *)

\* The keys of the ring behind its first n slots, which are empty.
EmptyFirst(n) == n \in 0 .. Size /\ \A i \in 1 .. Size : Oldest[i] = NoId <=> i <= n
RingInv == \E n : EmptyFirst(n)

\* Positions of the ring wrap around once.
LEMMA Wrapped ==
  ASSUME NEW n \in 0 .. 2 * Size - 1
  PROVE  n % Size = IF n < Size THEN n ELSE n - Size
BY SizeAssumption

LEMMA OldestType ==
  ASSUME MemoryTypeOK
  PROVE  /\ Oldest \in Seq(Id \cup {NoId}) /\ Len(Oldest) = Size
         /\ \A i \in 1 .. Size : Oldest[i] = keys[IF head + i - 1 < Size THEN head + i - 1
                                                                         ELSE head + i - 1 - Size]
<1>1. head \in 0 .. Size - 1 /\ Size \in Nat \ {0}
  BY SizeAssumption DEF MemoryTypeOK, Slot
<1>2. ASSUME NEW i \in 1 .. Size
      PROVE  /\ (head + i - 1) % Size = IF head + i - 1 < Size THEN head + i - 1 ELSE head + i - 1 - Size
             /\ (head + i - 1) % Size \in Slot
  <2> DEFINE n == head + i - 1
  <2>1. n \in 0 .. 2 * Size - 1
    BY <1>1
  <2> HIDE DEF n
  <2>2. n % Size = IF n < Size THEN n ELSE n - Size
    BY <2>1, Wrapped
  <2>3. n % Size \in Slot
    BY <1>1, <2>1, <2>2 DEF Slot
  <2>. QED  BY <1>1, <2>2, <2>3 DEF n
<1>3. \A i \in 1 .. Size : keys[(head + i - 1) % Size] \in Id \cup {NoId}
  BY <1>2 DEF MemoryTypeOK
<1>. QED  BY <1>1, <1>2, <1>3 DEF Oldest

\* What is behind the empty slots.
LatestFrom(n) ==
  /\ RecentKeys = [i \in 1 .. Size - n |-> Oldest[i + n]]
  /\ RecentKeys \in Seq(Id) /\ Len(RecentKeys) = Size - n

LEMMA LatestIs == MemoryTypeOK => \A k : EmptyFirst(k) => LatestFrom(k)
<1> SUFFICES ASSUME MemoryTypeOK, NEW n, EmptyFirst(n) PROVE LatestFrom(n)
  OBVIOUS
<1>1. n \in 0 .. Size /\ Size \in Nat
  BY SizeAssumption DEF EmptyFirst
<1>2. Unused = 1 .. n
  BY <1>1 DEF EmptyFirst, Unused
<1>3. Cardinality(Unused) = n
  BY <1>1, <1>2, FS_Interval
<1>4. RecentKeys = [i \in 1 .. Size - n |-> Oldest[i + n]]
  BY <1>1, <1>3, OldestType DEF RecentKeys
<1>5. \A i \in 1 .. Size - n : Oldest[i + n] \in Id
  <2>1. \A i \in 1 .. Size - n : i + n \in 1 .. Size /\ ~(i + n <= n)
    BY <1>1
  <2>. QED  BY <2>1, OldestType DEF EmptyFirst
<1>. QED  BY <1>1, <1>4, <1>5 DEF LatestFrom

\* Where neither keys nor head change, nothing does.
LEMMA RingQuiet ==
  ASSUME RingInv, UNCHANGED <<keys, head>>
  PROVE  RingInv' /\ UNCHANGED RecentKeys
BY DEF RingInv, EmptyFirst, Oldest, RecentKeys, Unused

\* Inserting a key shifts the ring by one.
LEMMA InsertShifts ==
  ASSUME MemoryTypeOK, MemoryTypeOK', NEW p \in Recorder, Insert(p)
  PROVE  /\ rec[p].id \in Id
         /\ \A i \in 1 .. Size : Oldest'[i] = IF i < Size THEN Oldest[i + 1] ELSE rec[p].id
<1>1. rec[p].id \in Id
  BY DEF Insert, Goto, MemoryTypeOK, Record
<1>2. head \in 0 .. Size - 1 /\ Size \in Nat \ {0}
  BY SizeAssumption DEF MemoryTypeOK, Slot
<1>3. head' = IF head + 1 < Size THEN head + 1 ELSE 0
  <2>1. head + 1 \in 0 .. 2 * Size - 1
    BY <1>2
  <2>. QED  BY <1>2, <2>1, Wrapped DEF Insert
<1>4. \A s \in Slot : keys'[s] = IF s = head THEN rec[p].id ELSE keys[s]
  BY DEF Insert, MemoryTypeOK
<1> DEFINE At(h, i) == IF h + i - 1 < Size THEN h + i - 1 ELSE h + i - 1 - Size
<1>5. /\ \A i \in 1 .. Size : Oldest[i] = keys[At(head, i)]
      /\ \A i \in 1 .. Size : Oldest'[i] = keys'[At(head', i)]
  <2>1. (\A i \in 1 .. Size : Oldest[i] = keys[IF head + i - 1 < Size THEN head + i - 1
                                                                      ELSE head + i - 1 - Size])'
    BY OldestType, PTL
  <2>. QED  BY <2>1, OldestType
<1>6. ASSUME NEW i \in 1 .. Size
      PROVE  Oldest'[i] = IF i < Size THEN Oldest[i + 1] ELSE rec[p].id
  <2>1. CASE i < Size
    <3>1. At(head', i) = At(head, i + 1) /\ At(head, i + 1) \in 0 .. Size - 1 /\ At(head, i + 1) # head
          /\ i + 1 \in 1 .. Size
      BY <1>2, <1>3, <2>1
    <3> HIDE DEF At
    <3>. QED  BY <1>4, <1>5, <2>1, <3>1 DEF Slot
  <2>2. CASE ~(i < Size)
    <3>1. At(head', i) = head /\ head \in 0 .. Size - 1
      BY <1>2, <1>3, <2>2
    <3> HIDE DEF At
    <3>. QED  BY <1>4, <1>5, <2>2, <3>1 DEF Slot
  <2>. QED  BY <2>1, <2>2
<1>. QED  BY <1>1, <1>6

\* ... and appends it to the queue, of which the first leaves if it was full.
LEMMA InsertAdds ==
  ASSUME MemoryTypeOK, MemoryTypeOK', RingInv, NEW p \in Recorder, Insert(p)
  PROVE  RingInv' /\ Recent!Add(rec[p].id)
<1>1. PICK n : EmptyFirst(n)
  BY DEF RingInv
<1> DEFINE m == IF n = 0 THEN 0 ELSE n - 1
<1>2. n \in 0 .. Size /\ Size \in Nat \ {0} /\ m \in 0 .. Size
  BY <1>1, SizeAssumption DEF EmptyFirst
<1>3. rec[p].id \in Id /\ rec[p].id # NoId
  BY InsertShifts, IdAssumption
<1>4. \A i \in 1 .. Size : Oldest'[i] = IF i < Size THEN Oldest[i + 1] ELSE rec[p].id
  BY InsertShifts
<1>5. EmptyFirst(m)'
  <2>1. ASSUME NEW i \in 1 .. Size PROVE Oldest'[i] = NoId <=> i <= m
    <3>1. CASE i < Size
      <4>1. i + 1 \in 1 .. Size /\ (i + 1 <= n <=> i <= m)
        BY <1>2, <3>1
      <4>. QED  BY <1>1, <1>4, <3>1, <4>1 DEF EmptyFirst
    <3>2. CASE ~(i < Size)
      <4>1. ~(i <= m)
        BY <1>2, <3>2
      <4>. QED  BY <1>3, <1>4, <3>2, <4>1
    <3>. QED  BY <3>1, <3>2
  <2>. QED  BY <1>2, <2>1 DEF EmptyFirst
<1>6. /\ RecentKeys = [i \in 1 .. Size - n |-> Oldest[i + n]]
      /\ RecentKeys \in Seq(Id) /\ Len(RecentKeys) = Size - n
  BY <1>1, LatestIs DEF LatestFrom
<1>7. RecentKeys' = [i \in 1 .. Size - m |-> Oldest'[i + m]]
  <2>0. MemoryTypeOK'
    OBVIOUS
  <2>1. (\A k : EmptyFirst(k) => LatestFrom(k))'
    BY <2>0, LatestIs, PTL
  <2>. QED  BY <1>5, <2>1 DEF LatestFrom
<1>8. RecentKeys' = Append(IF Len(RecentKeys) < Size THEN RecentKeys ELSE Tail(RecentKeys), rec[p].id)
  <2>1. ASSUME NEW i \in 1 .. Size - m
        PROVE  Oldest'[i + m] = IF i < Size - m THEN Oldest[i + m + 1] ELSE rec[p].id
    BY <1>2, <1>4
  <2>2. CASE n = 0
    <3>1. Tail(RecentKeys) = [i \in 1 .. Size - 1 |-> Oldest[i + 1]]
      BY <1>2, <1>6, <2>2
    <3>2. Append(Tail(RecentKeys), rec[p].id)
            = [i \in 1 .. Size |-> IF i < Size THEN Oldest[i + 1] ELSE rec[p].id]
      <4> DEFINE q == Tail(RecentKeys)
      <4>1. q = [i \in 1 .. Size - 1 |-> Oldest[i + 1]] /\ Size - 1 \in Nat
        BY <1>2, <3>1
      <4> HIDE DEF q
      <4>2. Len(q) = Size - 1 /\ \A i \in 1 .. Size - 1 : q[i] = Oldest[i + 1]
        BY <4>1
      <4>. QED  BY <1>2, <4>1, <4>2 DEF q
    <3>3. RecentKeys' = [i \in 1 .. Size |-> IF i < Size THEN Oldest[i + 1] ELSE rec[p].id]
      BY <1>2, <1>7, <2>1, <2>2
    <3>4. ~(Len(RecentKeys) < Size)
      BY <1>2, <1>6, <2>2
    <3>. QED  BY <3>2, <3>3, <3>4
  <2>3. CASE n # 0
    <3>1. Append(RecentKeys, rec[p].id)
            = [i \in 1 .. Size - m |-> IF i < Size - m THEN Oldest[i + m + 1] ELSE rec[p].id]
      BY <1>2, <1>6, <2>3
    <3>2. RecentKeys' = [i \in 1 .. Size - m |-> IF i < Size - m THEN Oldest[i + m + 1] ELSE rec[p].id]
      BY <1>7, <2>1
    <3>. QED  BY <1>2, <1>6, <2>3, <3>1, <3>2
  <2>. QED  BY <2>2, <2>3
<1>. QED  BY <1>5, <1>8 DEF RingInv, Recent!Add

\* An empty ring is an empty queue.
LEMMA EmptyRing ==
  ASSUME MemoryTypeOK, keys = NothingListed
  PROVE  RingInv /\ RecentKeys = <<>>
<1>1. Size \in Nat \ {0} /\ head \in Slot
  BY SizeAssumption DEF MemoryTypeOK
<1>2. ASSUME NEW i \in 1 .. Size PROVE Oldest[i] = NoId
  <2>1. (IF head + i - 1 < Size THEN head + i - 1 ELSE head + i - 1 - Size) \in Slot
    BY <1>1 DEF Slot
  <2>. QED  BY <2>1, OldestType DEF NothingListed
<1>3. EmptyFirst(Size)
  BY <1>1, <1>2 DEF EmptyFirst
<1>4. RecentKeys = [i \in 1 .. Size - Size |-> Oldest[i + Size]] /\ Len(RecentKeys) = Size - Size /\ RecentKeys \in Seq(Id)
  BY <1>3, LatestIs DEF LatestFrom
<1>. QED  BY <1>1, <1>3, <1>4 DEF RingInv

LEMMA RecentStep ==
  ASSUME MemoryInv, MemoryInv', RingInv, [Next]_vars
  PROVE  RingInv' /\ [Recent!Next]_RecentKeys
<1>1. MemoryTypeOK /\ MemoryTypeOK'
  BY DEF MemoryInv
<1>2. ASSUME NEW p \in Recorder, Insert(p) PROVE RingInv' /\ [Recent!Next]_RecentKeys
  BY <1>1, <1>2, InsertAdds, InsertShifts DEF Recent!Next
<1>3. CASE Restart
  <2>1. (keys = NothingListed)'
    BY <1>3 DEF Restart, NothingListed
  <2>2. (RingInv /\ RecentKeys = <<>>)'
    BY <1>1, <2>1, EmptyRing, PTL
  <2>. QED  BY <2>2 DEF Recent!Next, Recent!Lose
<1>4. CASE UNCHANGED <<keys, head>>
  BY <1>4, RingQuiet
<1>5. [Next]_vars => Restart \/ (\E p \in Recorder : Insert(p)) \/ UNCHANGED <<keys, head>>
  BY DEF Next, RecordSteps, Writer, Begin, Store, Send, Take, Write, memory, vars
<1>. QED  BY <1>2, <1>3, <1>4, <1>5

\* The ring is the queue of the last records: what concurrent requests, the
\* wrap-around and restarts do to it is what RecentTraces allows.
THEOREM RingImplementsRecent == Spec => ImplementsRecent
<1>1. Init => MemoryInv /\ RingInv /\ Recent!Init
  <2> SUFFICES ASSUME Init PROVE MemoryInv /\ RingInv /\ Recent!Init
    OBVIOUS
  <2>1. MemoryInv
    BY InitMemory
  <2>2. keys = NothingListed
    BY DEF Init
  <2>. QED  BY <2>1, <2>2, EmptyRing DEF MemoryInv, Recent!Init
<1>2. MemoryInv /\ RingInv /\ [Next]_vars => (MemoryInv /\ RingInv)'
  BY MemoryStep, RecentStep
<1>3. MemoryInv /\ RingInv /\ [Next]_vars => [Recent!Next]_RecentKeys
  BY MemoryStep, RecentStep
<1>. QED  BY <1>1, <1>2, <1>3, PTL DEF Spec, ImplementsRecent, Recent!Spec
=============================================================================
