--------------------------- MODULE EventsConsumer ---------------------------
(***************************************************************************)
(* EventsConsumerWorker: the process that reads the Docker events from     *)
(* Kafka and stores them in Cassandra.  One stream:                        *)
(*                                                                         *)
(*   committableSource (restarted)  ->  parse, skip what is malformed  ->  *)
(*   mapAsync: save with endless retries, emit in order  ->  batch  ->     *)
(*   commit the offsets to Kafka, without waiting for the answer           *)
(*                                                                         *)
(* An element of the stream is "live" while the Kafka source it came from  *)
(* is the current one.  When that source fails, what is downstream of it   *)
(* goes on, but its offsets can no longer be committed.                    *)
(***************************************************************************)
EXTENDS EventsTable, Sequences

CONSTANTS
    Partition,    \* partitions of the topic
    Malformed,    \* a record whose text does not parse to an Event
    Parallelism,  \* mapAsync(10)
    BatchMax,     \* batch(max = 10)
    MaxLog,       \* bound: records of a partition
    MaxFaults     \* bound: failures of the source or of the whole stream

ASSUME MalformedAssumption == Malformed \notin Event
ASSUME ParallelismAssumption == Parallelism \in Nat \ {0}
ASSUME BatchAssumption == BatchMax \in Nat \ {0}
ASSUME BoundsAssumption == MaxLog \in Nat /\ MaxFaults \in Nat

VARIABLES
    log,        \* Kafka: the records of every partition
    committed,  \* Kafka: the offset the group resumes from
    requests,   \* commits sent to Kafka and not yet handled
    source,     \* the Kafka source: "up", or "down" (back-off, process restart)
    position,   \* the offset the source reads next
    inFlight,   \* elements in mapAsync, in the order they entered it
    batch,      \* offsets being gathered for the next commit
    ready,      \* Cassandra: the keyspace and the table exist
    rows,       \* Cassandra: the rows of the table
    faults      \* failures so far

vars == <<log, committed, requests, source, position, inFlight, batch,
          ready, rows, faults>>

-----------------------------------------------------------------------------
(* A map of offsets, for a commit; 0 stands for "no offset of p" (an offset *)
(* to commit is at least 1: it is that of the record AFTER the one stored). *)
Offsets == [Partition -> Nat]
NoOffsets == [p \in Partition |-> 0]

Record == Event \cup {Malformed}
Element == [part : Partition, off : Nat, live : BOOLEAN, saved : BOOLEAN]
EmptyBatch == [next |-> NoOffsets, size |-> 0, live |-> TRUE]

TypeOK ==
    /\ log \in [Partition -> Seq(Record)]
    /\ committed \in Offsets
    /\ requests \in Seq(Offsets)
    /\ source \in {"up", "down"}
    /\ position \in Offsets
    /\ inFlight \in Seq(Element)
    /\ batch \in [next : Offsets, size : Nat, live : BOOLEAN]
    /\ ready \in BOOLEAN
    /\ rows \subseteq Event
    /\ faults \in Nat

(* The record an element of the stream carries.                            *)
EventOf(x) == log[x.part][x.off]

Init ==
    /\ log = [p \in Partition |-> <<>>]
    /\ committed = NoOffsets
    /\ requests = <<>>
    /\ source = "down"
    /\ position = NoOffsets
    /\ inFlight = <<>>
    /\ batch = EmptyBatch
    /\ ready = FALSE
    /\ rows = {}
    /\ faults = 0

-----------------------------------------------------------------------------
(* A producer (one runs on every manager of the swarm) appends a record.   *)
Publish(p, r) ==
    /\ Len(log[p]) < MaxLog
    /\ log' = [log EXCEPT ![p] = Append(@, r)]
    /\ UNCHANGED <<committed, requests, source, position, inFlight, batch,
                   ready, rows, faults>>

(* repository.initialize() finally succeeds; the stream does not wait for  *)
(* it.                                                                     *)
Initialize ==
    /\ ~ready
    /\ ready' = TRUE
    /\ UNCHANGED <<log, committed, requests, source, position, inFlight,
                   batch, rows, faults>>

(* A mistake to catch: the consumer starts from the latest record when the *)
(* group has no offset.                                                    *)
StartSourceLatest ==
    /\ source = "down"
    /\ source' = "up"
    /\ position' = [p \in Partition |->
                      IF committed[p] = 0 THEN Len(log[p]) ELSE committed[p]]
    /\ requests' = <<>>
    /\ UNCHANGED <<log, committed, inFlight, batch, ready, rows, faults>>

(* A mistake to catch: the committed offset is taken for that of the last  *)
(* record done with, which is to be read again.                            *)
StartSourceOneBefore ==
    /\ source = "down"
    /\ source' = "up"
    /\ position' = [p \in Partition |-> committed[p] - 1]
    /\ requests' = <<>>
    /\ UNCHANGED <<log, committed, inFlight, batch, ready, rows, faults>>

(* A mistake to catch: commits of an old consumer are still accepted.      *)
StartSourceUnfenced ==
    /\ source = "down"
    /\ source' = "up"
    /\ position' = committed
    /\ UNCHANGED <<log, committed, requests, inFlight, batch, ready, rows,
                   faults>>

(* RestartSource (or the restarted process) creates a new consumer of the  *)
(* group: it reads from the committed offsets, or from the earliest record *)
(* if there are none.  Commits of the previous member are rejected from    *)
(* now on.  Not modelled: a rebalance that gives a running source its      *)
(* partitions again, from the committed offsets, while what it has read    *)
(* before may still be committed.                                          *)
StartSource ==
    /\ source = "down"
    /\ source' = "up"
    /\ position' = committed
    /\ requests' = <<>>
    /\ UNCHANGED <<log, committed, inFlight, batch, ready, rows, faults>>

(* parseEvent: a record that parses enters mapAsync, another is skipped.   *)
Fetch(p) ==
    /\ source = "up"
    /\ position[p] < Len(log[p])
    /\ Len(inFlight) < Parallelism
    /\ position' = [position EXCEPT ![p] = @ + 1]
    /\ inFlight' =
         IF log[p][position[p] + 1] = Malformed
           THEN inFlight
           ELSE Append(inFlight, [part |-> p, off |-> position[p] + 1,
                                  live |-> TRUE, saved |-> FALSE])
    /\ UNCHANGED <<log, committed, requests, source, batch, ready, rows,
                   faults>>

(* An attempt of Retry.periodically reaches Cassandra.  With acknowledged  *)
(* FALSE the row is written but the answer is lost, and the element will   *)
(* be saved again; an attempt that does not reach it changes nothing.      *)
Save(i, acknowledged) ==
    /\ ready
    /\ i \in DOMAIN inFlight
    /\ ~inFlight[i].saved
    /\ rows' = SaveOrUpdate(rows, EventOf(inFlight[i]))
    /\ inFlight' = [inFlight EXCEPT ![i].saved = acknowledged]
    /\ UNCHANGED <<log, committed, requests, source, position, batch, ready,
                   faults>>

(* A mistake to catch: mapAsyncUnordered, any saved element may leave.     *)
EmitUnordered ==
    \E i \in DOMAIN inFlight :
       LET x == inFlight[i] IN
         /\ x.saved
         /\ batch.size < BatchMax
         /\ batch.size > 0 => batch.live = x.live
         /\ batch' = [next |-> [batch.next EXCEPT ![x.part] = x.off],
                      size |-> batch.size + 1,
                      live |-> x.live]
         /\ inFlight' = SubSeq(inFlight, 1, i - 1)
                          \o SubSeq(inFlight, i + 1, Len(inFlight))
         /\ UNCHANGED <<log, committed, requests, source, position, ready,
                        rows, faults>>

(* mapAsync emits its oldest element once that is saved, and batch adds    *)
(* the offset.  A batch that would mix two sources is an error of the      *)
(* library, which ends the stream: FailStream.                             *)
Emit ==
    /\ inFlight # <<>>
    /\ LET x == Head(inFlight) IN
         /\ x.saved
         /\ batch.size < BatchMax
         /\ batch.size > 0 => batch.live = x.live
         /\ batch' = [next |-> [batch.next EXCEPT ![x.part] = x.off],
                      size |-> batch.size + 1,
                      live |-> x.live]
    /\ inFlight' = Tail(inFlight)
    /\ UNCHANGED <<log, committed, requests, source, position, ready, rows,
                   faults>>

(* A mistake to catch: the batch of a failed source is sent all the same.  *)
CommitAnyBatch ==
    /\ batch.size > 0
    /\ requests' = Append(requests, batch.next)
    /\ batch' = EmptyBatch
    /\ UNCHANGED <<log, committed, source, position, inFlight, ready, rows,
                   faults>>

(* commitScaladsl: sent if its source still runs, else the future fails;   *)
(* nobody looks at the future.                                             *)
CommitBatch ==
    /\ batch.size > 0
    /\ requests' = IF batch.live THEN Append(requests, batch.next)
                                 ELSE requests
    /\ batch' = EmptyBatch
    /\ UNCHANGED <<log, committed, source, position, inFlight, ready, rows,
                   faults>>

(* Kafka handles the commits of one member in the order they were sent...  *)
KafkaCommits ==
    /\ requests # <<>>
    /\ committed' = [p \in Partition |->
                       IF Head(requests)[p] = 0 THEN committed[p]
                                                ELSE Head(requests)[p]]
    /\ requests' = Tail(requests)
    /\ UNCHANGED <<log, source, position, inFlight, batch, ready, rows,
                   faults>>

(* ... or one of them is lost; it is not sent again.                       *)
LoseCommit ==
    /\ requests # <<>>
    /\ requests' = Tail(requests)
    /\ UNCHANGED <<log, committed, source, position, inFlight, batch, ready,
                   rows, faults>>

(* The source fails: RestartSource will make a new one, and the rest of    *)
(* the stream keeps the elements it already has.                           *)
FailSource ==
    /\ source = "up"
    /\ faults < MaxFaults
    /\ source' = "down"
    /\ inFlight' = [i \in DOMAIN inFlight |->
                      [inFlight[i] EXCEPT !.live = FALSE]]
    /\ batch' = IF batch.size > 0 THEN [batch EXCEPT !.live = FALSE]
                                  ELSE batch
    /\ faults' = faults + 1
    /\ UNCHANGED <<log, committed, requests, position, ready, rows>>

(* The stream ends: app.stop and System.exit(1); or the process is killed. *)
(* The orchestrator will restart it.                                       *)
FailStream ==
    /\ faults < MaxFaults
    /\ source' = "down"
    /\ inFlight' = <<>>
    /\ batch' = EmptyBatch
    /\ faults' = faults + 1
    /\ UNCHANGED <<log, committed, requests, position, ready, rows>>

-----------------------------------------------------------------------------
Next ==
    \/ \E p \in Partition, r \in Record : Publish(p, r)
    \/ Initialize
    \/ StartSource
    \/ \E p \in Partition : Fetch(p)
    \/ \E i \in DOMAIN inFlight, acknowledged \in BOOLEAN :
          Save(i, acknowledged)
    \/ Emit
    \/ CommitBatch
    \/ KafkaCommits
    \/ LoseCommit
    \/ FailSource
    \/ FailStream

(* The orchestrator restarts the worker, the streams are never idle while  *)
(* they have work, and Cassandra is up often enough for a retry to get     *)
(* through.  Nothing is assumed of Kafka's commits or of the producers.    *)
Fairness ==
    /\ WF_vars(Initialize)
    /\ WF_vars(StartSource)
    /\ \A p \in Partition : WF_vars(Fetch(p))
    /\ WF_vars(\E i \in DOMAIN inFlight : Save(i, TRUE))
    /\ WF_vars(Emit)
    /\ WF_vars(CommitBatch)

Spec == Init /\ [][Next]_vars
FairSpec == Spec /\ Fairness

-----------------------------------------------------------------------------
(* The k-th record of p, if it is an event, has a row in the table.         *)
Stored(p, k) == log[p][k] \in Event => HasRow(rows, log[p][k])

(* The k-th record of p is an element of the running source's stream.      *)
InHand(p, k) ==
    \E j \in DOMAIN inFlight :
       inFlight[j].live /\ inFlight[j].part = p /\ inFlight[j].off = k

(* An event whose offset the group has passed is never read again, so it   *)
(* must have its row: "at-least-once", whatever was in flight when a       *)
(* source or the process failed and in whatever order the saves finished   *)
(* (comment at EventsConsumerWorker.scala:71-73).                          *)
CommittedEventsHaveRows ==
    \A p \in Partition :
       /\ committed[p] <= Len(log[p])
       /\ \A k \in 1..committed[p] : Stored(p, k)

(* The running source has read no event that is neither stored nor still   *)
(* in the hands of its own stream: a failure of the source leaves          *)
(* everything unsaved to the next one.                                     *)
NothingReadIsForgotten ==
    source = "up" =>
       \A p \in Partition : \A k \in 1..position[p] :
          Stored(p, k) \/ InHand(p, k)

(* The offset the group resumes from never moves back, so that no restart  *)
(* reads again what an earlier one had done with: late commits of an old   *)
(* source must not undo those of a new one.  (The rebalance of a running   *)
(* source, which StartSource leaves out, could move it back.)              *)
CommitsNeverRegress ==
    [][\A p \in Partition : committed'[p] >= committed[p]]_vars

(* Every event that reaches Kafka is eventually stored (architecture       *)
(* chapter of the report, line 183), in spite of lost commits, restarts    *)
(* and the malformed records in between.                                   *)
EveryEventIsStored ==
    \A p \in Partition, k \in 1..MaxLog :
       (k <= Len(log[p])) ~> (k <= Len(log[p]) /\ Stored(p, k))

(* The worker is an archive: nothing of its pipeline, its retries or its   *)
(* failures shows in Kafka's offsets or in Cassandra's rows.               *)
Archive == INSTANCE EventsArchive
           WITH log <- log, committed <- committed, rows <- rows
ImplementsArchive == Archive!Spec

(* What the report says of the table (architecture chapter, line 186: an   *)
(* event "is uniquely identified with the timestamp"): a committed event   *)
(* is itself in the table.  Two events of the same second share a row, so  *)
(* the later save silently replaces the earlier.                           *)
CommittedEventsAreKept ==
    \A p \in Partition : \A k \in 1..committed[p] :
       log[p][k] \in Event => log[p][k] \in rows

-----------------------------------------------------------------------------
(* The inductive invariant.  Offsets of p may reach Kafka once all their   *)
(* records are stored; they travel, in this order of size, from the        *)
(* elements of the stream through the batch and the requests to Kafka.     *)
Done(offsets) ==
    \A p \in Partition :
       /\ offsets[p] <= Len(log[p])
       /\ \A k \in 1..offsets[p] : Stored(p, k)

(* A commit of m leaves every offset of n alone or moves it forward.       *)
NotBefore(m, n) == \A p \in Partition : m[p] # 0 => n[p] <= m[p]

LiveBatch == batch.size > 0 /\ batch.live

(* Every element carries an event of the log, and is saved only if stored. *)
ElementInv ==
    \A i \in DOMAIN inFlight :
       LET x == inFlight[i] IN
         /\ x.off \in 1..Len(log[x.part])
         /\ EventOf(x) \in Event
         /\ x.saved => Stored(x.part, x.off)

(* Live elements stand behind all offsets on their way to Kafka, those of  *)
(* a partition in its order...                                             *)
OrderInv ==
    \A i \in DOMAIN inFlight :
       LET x == inFlight[i] IN
         x.live =>
           /\ source = "up"
           /\ x.off <= position[x.part]
           /\ committed[x.part] <= x.off
           /\ \A j \in DOMAIN requests : requests[j][x.part] <= x.off
           /\ LiveBatch => batch.next[x.part] <= x.off
           /\ \A j \in 1..(i - 1) :
                (inFlight[j].live /\ inFlight[j].part = x.part)
                   => inFlight[j].off <= x.off

(* ... with no event that is not stored missing in front of them.          *)
NoneSkippedInv ==
    \A i \in DOMAIN inFlight :
       LET x == inFlight[i] IN
         x.live =>
           \A k \in 1..(x.off - 1) :
              \/ Stored(x.part, k)
              \/ \E j \in 1..(i - 1) : /\ inFlight[j].live
                                       /\ inFlight[j].part = x.part
                                       /\ inFlight[j].off = k

BatchInv ==
    /\ batch.size = 0 => batch = EmptyBatch
    /\ LiveBatch =>
         /\ source = "up"
         /\ Done(batch.next)
         /\ NotBefore(batch.next, committed)
         /\ \A j \in DOMAIN requests : NotBefore(batch.next, requests[j])

RequestInv ==
    \A i \in DOMAIN requests :
       /\ Done(requests[i])
       /\ NotBefore(requests[i], committed)
       /\ \A j \in 1..(i - 1) : NotBefore(requests[i], requests[j])

PositionInv ==
    source = "up" =>
       \A p \in Partition :
          /\ position[p] <= Len(log[p])
          /\ committed[p] <= position[p]
          /\ \A j \in DOMAIN requests : requests[j][p] <= position[p]
          /\ LiveBatch => batch.next[p] <= position[p]

(* Every part above at once: the reason why the worker never commits past  *)
(* an event that is not stored, and never commits backwards.               *)
PipelineInv ==
    /\ ElementInv
    /\ OrderInv
    /\ NoneSkippedInv
    /\ BatchInv
    /\ RequestInv
    /\ PositionInv
    /\ CommittedEventsHaveRows
    /\ NothingReadIsForgotten
=============================================================================
