------------------------------ MODULE TraceList ------------------------------
(***************************************************************************)
(* Listing the recorded traces page by page: List and listFromDisk in      *)
(* internal/tracestore/store.go.  Newest first, from the memory and then   *)
(* from the files.  A page is computed here from one state of the store.   *)
(* The order of the ring, from its oldest key, is also what RecentTraces   *)
(* remembers.                                                              *)
(***************************************************************************)
EXTENDS TraceStore, SequencesExt

\* The keys of the ring from the slot that is written next, and which of them
\* no trace has been put in.
Oldest == [i \in 1 .. Size |-> keys[(head + i - 1) % Size]]
Unused == {i \in 1 .. Size : Oldest[i] = NoId}

\* The first n of s, or all of it.
FirstOf(s, n) == SubSeq(s, 1, IF n < Len(s) THEN n ELSE Len(s))
AfterFirst(s, n) == SubSeq(s, n + 1, Len(s))

\* The keys walked back from the newest one to the first empty slot, at most
\* `needed` of them, and the records the map still has for them.
FromMemory(needed) ==
  LET newest == FirstOf(Reverse(Oldest), needed)
      empty == {i \in DOMAIN newest : newest[i] = NoId}
      walked == IF empty = {} THEN newest
                ELSE FirstOf(newest, (CHOOSE i \in empty : \A j \in empty : i <= j) - 1)
      found == SelectSeq(walked, LAMBDA id : ring[id] # NoRecord)
  IN [i \in DOMAIN found |-> ring[found[i]]]

\* readLastNFromFile
LastOf(file, n) == {file[i] : i \in {j \in DOMAIN file : j > Len(file) - n}}

ListFromDisk(offset, limit) ==
  LET records == UNION {LastOf(files[f], offset + limit) : f \in DOMAIN files}
      newest == SetToSortSeq(records, LAMBDA a, b : a.at > b.at)
  IN FirstOf(AfterFirst(newest, offset), limit)

List(offset, limit) ==
  LET mem == FromMemory(offset + limit)
      page == FirstOf(AfterFirst(mem, offset), limit)
      rest == ListFromDisk(offset + Len(mem), limit - Len(page))
      New(r) == \A i \in DOMAIN page : page[i].id # r.id
  IN IF offset >= Len(mem) THEN ListFromDisk(offset, limit)
     ELSE IF Len(page) < limit THEN page \o SelectSeq(rest, New)
     ELSE page
----------------------------------------------------------------------------
\* Nothing is being recorded, the disk has all that was, and no two requests
\* came with the same identifier.
Settled ==
  LET records == UNION {LastOf(files[f], FileSize) : f \in DOMAIN files}
  IN /\ queue = <<>> /\ hand = NoRecord /\ \A p \in Recorder : pc[p] = "idle"
     /\ Cardinality(records) = clock
     /\ Cardinality({r.id : r \in records}) = clock

\* The ring remembers the last records in their order: behind its empty slots
\* it implements RecentTraces, however the steps of concurrent requests
\* interleave.
RecentKeys == SubSeq(Oldest, Cardinality(Unused) + 1, Size)
Recent == INSTANCE RecentTraces WITH recent <- RecentKeys
ImplementsRecent == Recent!Spec

\* store.go:398-399: offset 0 and limit 50 are the newest 50 records, offset 50
\* the 51st to the 100th.  Pages follow each other without a gap.
PagesAreComplete ==
  Settled =>
    \A offset \in 0 .. clock - 1, limit \in 1 .. clock :
      List(offset, limit) = FirstOf(AfterFirst(ListFromDisk(0, clock), offset), limit)
=============================================================================
