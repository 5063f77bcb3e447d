----------------------------- MODULE CommitLog -----------------------------
(***************************************************************************)
(* from-scratch/15-commit-log: one partition of the broker.  Connections   *)
(* look the partition up or open it, and append a record with three        *)
(* writes (header, data, index entry) under the segment's mutex, whose     *)
(* errors nobody looks at; a reader goes through the index.  The process   *)
(* may crash between any two writes: what was written stays in the files,  *)
(* nothing is synced and a loss of power is not modelled.                  *)
(*                                                                         *)
(* A file is a sequence of cells: a header and its data are a cell each,   *)
(* and an index entry is the position of a header.  A write that fails has *)
(* written nothing or some bytes.  Some bytes of an index entry shift all  *)
(* later entries, which point nowhere then (position 0); such bytes of two *)
(* failed writes are taken not to add up to an entry.                      *)
(*                                                                         *)
(* A definition named X_Y is X with the fault Y, to test the properties.   *)
(***************************************************************************)
EXTENDS Naturals, Sequences, FiniteSets

CONSTANTS Record,       \* messages, each produced once
          Conn,         \* connections
          NoRecord, NoSegment,
          MaxCrashes,   \* bound
          MaxBadWrites  \* bound on the writes that fail

ASSUME CommitLogAssumption == /\ NoRecord \notin Record
                              /\ MaxCrashes \in Nat /\ MaxBadWrites \in Nat
                              /\ NoSegment \notin Nat

VARIABLES
  logFile, indexFile,
  nextOffset,    \* nextOffset[s]: of the Segment objects opened so far
  partition,     \* the broker's entry for the partition: a segment
  conn,          \* what each connection does
  shifted,       \* the index ends in some bytes of an entry
  promised,      \* every OK sent: offset and record, and (ghosts) how many
                 \* index entries the Segment object had failed to write
                 \* before, and whether all that the record needs was written
  missed,        \* those counts, for each Segment object (ghost)
  crashes, badWrites
commitLogVars == <<logFile, indexFile, nextOffset, partition, conn, shifted, promised,
                   missed, crashes, badWrites>>

\* What a connection does; whole says that none of its writes has failed (ghost).
Waiting == [at |-> "waiting", record |-> NoRecord, segment |-> NoSegment, pos |-> 0,
            whole |-> TRUE]

CommitLogInit ==
  /\ logFile = <<>> /\ indexFile = <<>>
  /\ nextOffset = <<>> /\ partition = NoSegment
  /\ conn = [c \in Conn |-> Waiting]
  /\ shifted = FALSE /\ promised = {} /\ missed = <<>>
  /\ crashes = 0 /\ badWrites = 0

Written == {logFile[i].record : i \in DOMAIN logFile} \cup {p.record : p \in promised}
Unsent == Record \ (Written \cup {conn[c].record : c \in Conn})

Proceed(c, there) == conn' = [conn EXCEPT ![c].at = there]

\* PRODUCE arrives; getPartition looks under the read lock.
Produce(c, r) ==
  /\ conn[c].at = "waiting" /\ r \in Unsent
  /\ conn' = [conn EXCEPT ![c] = [Waiting EXCEPT !.record = r, !.segment = partition,
                                  !.at = IF partition = NoSegment THEN "open" ELSE "append"]]
  /\ UNCHANGED <<logFile, indexFile, nextOffset, partition, shifted, promised, missed, crashes, badWrites>>

\* NewSegment counts the records in the index.
NewSegment ==
  /\ nextOffset' = Append(nextOffset, Len(indexFile))
  /\ missed' = Append(missed, 0)
  /\ partition' = Len(nextOffset')

Joins(c) ==
  /\ conn' = [conn EXCEPT ![c].at = "append", ![c].segment = partition']
  /\ UNCHANGED <<logFile, indexFile, shifted, promised, crashes, badWrites>>

OpenPartition_Unchecked(c) ==
  /\ conn[c].at = "open"
  /\ NewSegment
  /\ Joins(c)

\* getPartition under the write lock: double-checked.
OpenPartition(c) ==
  /\ conn[c].at = "open"
  /\ IF partition # NoSegment THEN UNCHANGED <<nextOffset, missed, partition>> ELSE NewSegment
  /\ Joins(c)

Locked(s) == \E c \in Conn : conn[c].segment = s
                             /\ conn[c].at \in {"header", "data", "index", "count"}

\* Segment.Append: the lock and the end of the log.
Seek(c) ==
  /\ conn[c].at = "append" /\ ~Locked(conn[c].segment)
  /\ conn' = [conn EXCEPT ![c].at = "header", ![c].pos = Len(logFile) + 1]
  /\ UNCHANGED <<logFile, indexFile, nextOffset, partition, shifted, promised, missed, crashes, badWrites>>

\* The write of connection c that leads to `there` succeeds, or fails and
\* counts as one that does not: Append goes on as if nothing had happened.
Writes(c, there) ==
  /\ Proceed(c, there) /\ UNCHANGED badWrites
Fails(c, there) ==
  /\ badWrites < MaxBadWrites /\ badWrites' = badWrites + 1
  /\ conn' = [conn EXCEPT ![c].at = there, ![c].whole = FALSE]

WriteCell(c, kind, there) ==
  /\ \/ Writes(c, there) /\ logFile' = Append(logFile, [kind |-> kind, record |-> conn[c].record])
     \/ Fails(c, there) /\ logFile' = Append(logFile, [kind |-> "torn", record |-> conn[c].record])
     \/ Fails(c, there) /\ UNCHANGED logFile
  /\ UNCHANGED <<indexFile, nextOffset, partition, shifted, promised, missed, crashes>>

WriteHeader(c) == conn[c].at = "header" /\ WriteCell(c, "header", "data")
WriteData(c)   == conn[c].at = "data" /\ WriteCell(c, "data", "index")

\* An entry behind some bytes of another points nowhere.
WriteIndex(c) ==
  /\ conn[c].at = "index"
  /\ \/ /\ ~shifted /\ Writes(c, "count")
        /\ indexFile' = Append(indexFile, conn[c].pos)
        /\ UNCHANGED <<shifted, missed>>
     \/ /\ shifted /\ conn' = [conn EXCEPT ![c].at = "count", ![c].whole = FALSE]
        /\ indexFile' = Append(indexFile, 0)
        /\ UNCHANGED <<shifted, missed, badWrites>>
     \/ /\ Fails(c, "count")
        /\ shifted' \in {shifted, TRUE}
        /\ missed' = [missed EXCEPT ![conn[c].segment] = @ + 1]
        /\ UNCHANGED indexFile
  /\ UNCHANGED <<logFile, nextOffset, partition, promised, crashes>>

\* nextOffset++, the lock is released and OK sent.
Acknowledge(c) ==
  /\ conn[c].at = "count"
  /\ LET s == conn[c].segment
     IN /\ promised' = promised \cup {[offset |-> nextOffset[s], record |-> conn[c].record,
                                       missed |-> missed[s], whole |-> conn[c].whole]}
        /\ nextOffset' = [nextOffset EXCEPT ![s] = @ + 1]
  /\ conn' = [conn EXCEPT ![c] = Waiting]
  /\ UNCHANGED <<logFile, indexFile, partition, shifted, missed, crashes, badWrites>>

\* The process stops and another opens the files when they are asked for.
CrashBroker ==
  /\ crashes < MaxCrashes
  /\ crashes' = crashes + 1
  /\ conn' = [c \in Conn |-> Waiting]
  /\ partition' = NoSegment
  /\ UNCHANGED <<logFile, indexFile, nextOffset, shifted, promised, missed, badWrites>>

CommitLogNext ==
  \/ \E c \in Conn : \/ \E r \in Record : Produce(c, r)
                     \/ OpenPartition(c) \/ Seek(c)
                     \/ WriteHeader(c) \/ WriteData(c) \/ WriteIndex(c)
                     \/ Acknowledge(c)
  \/ CrashBroker
CommitLogSpec == CommitLogInit /\ [][CommitLogNext]_commitLogVars

-----------------------------------------------------------------------------
\* Segment.Read: the record at an offset, or NoRecord for every error.  The
\* checksum tells a header without its data apart.
Read(offset) ==
  LET pos == indexFile[offset + 1]
      cell(p) == IF p \in DOMAIN logFile THEN logFile[p] ELSE [kind |-> "end", record |-> NoRecord]
  IN IF offset + 1 \notin DOMAIN indexFile THEN NoRecord
     ELSE IF cell(pos).kind = "header"
             /\ cell(pos + 1) = [kind |-> "data", record |-> cell(pos).record]
     THEN cell(pos).record ELSE NoRecord

\* Every acknowledged record whose three writes succeeded reads back for ever,
\* as far before the offset it was given as its Segment object had failed to
\* write index entries before it: at its offset, while no index write fails.
\* A failed write costs its own record and moves later ones, and only the rest
\* of an index entry costs more; however connections opened the partition
\* together and wherever the process stopped between two writes (main.go 41-50:
\* offsets are recounted from the index; 53-76; 149-172: one Segment object at
\* a time).
PromisedReadsBack ==
  \A p \in promised : p.whole => /\ p.missed <= p.offset
                                 /\ Read(p.offset - p.missed) = p.record

\* What README.md 11 promises of the log, persistent to disk and replayed from any
\* offset: what was acknowledged is read at the offset that was answered.
OffsetsReadBack == \A p \in promised : Read(p.offset) = p.record
=============================================================================
