------------------------ MODULE EventsConsumerProofs ------------------------
(***************************************************************************)
(* Theorems of EventsConsumer, for all partitions, events and bounds: type *)
(* correctness, the inductive invariant of the pipeline, and with it that  *)
(* the worker implements EventsArchive.                                    *)
(***************************************************************************)
EXTENDS EventsConsumer, SequenceTheorems, TLAPS

(* The offsets of the elements point to events, so a save writes an event. *)
ElementsAreEvents ==
    \A i \in DOMAIN inFlight :
       /\ inFlight[i].off \in 1..Len(log[inFlight[i].part])
       /\ EventOf(inFlight[i]) \in Event

TypeInv == TypeOK /\ ElementsAreEvents

(* The initial state is well typed.                                        *)
LEMMA TypeInit == Init => TypeInv
<1> SUFFICES ASSUME Init PROVE TypeInv
  OBVIOUS
<1>1. NoOffsets \in Offsets
  BY DEF NoOffsets, Offsets
<1>2. /\ <<>> \in Seq(Record)
      /\ <<>> \in Seq(Offsets)
      /\ <<>> \in Seq(Element)
      /\ DOMAIN <<>> = {}
  OBVIOUS
<1>3. log \in [Partition -> Seq(Record)]
  BY <1>2 DEF Init
<1>4. batch \in [next : Offsets, size : Nat, live : BOOLEAN]
  BY <1>1 DEF Init, EmptyBatch
<1>5. ElementsAreEvents
  BY <1>2 DEF Init, ElementsAreEvents
<1> QED
  BY <1>1, <1>2, <1>3, <1>4, <1>5 DEF Init, TypeInv, TypeOK

(* Publishing changes no record that is there.                             *)
LEMMA LogGrows ==
  ASSUME TypeOK, NEW p \in Partition, NEW r \in Record, Publish(p, r)
  PROVE  /\ log' \in [Partition -> Seq(Record)]
         /\ \A q \in Partition :
              /\ Len(log[q]) \in Nat /\ Len(log'[q]) \in Nat
              /\ Len(log[q]) <= Len(log'[q])
              /\ \A k \in 1..Len(log[q]) : log'[q][k] = log[q][k]
<1> DEFINE s == Append(log[p], r)
<1>1. /\ log[p] \in Seq(Record)
      /\ s \in Seq(Record)
      /\ Len(s) = Len(log[p]) + 1
      /\ Len(log[p]) \in Nat
      /\ \A k \in 1..Len(log[p]) : s[k] = log[p][k]
  BY DEF TypeOK
<1>2. log' = [log EXCEPT ![p] = s] /\ log \in [Partition -> Seq(Record)]
  BY DEF Publish, TypeOK
<1>3. \A q \in Partition : log'[q] = IF q = p THEN s ELSE log[q]
  BY <1>2
<1>4. \A q \in Partition : Len(log[q]) \in Nat
  BY <1>2
<1> HIDE DEF s
<1>5. log' \in [Partition -> Seq(Record)]
  BY <1>1, <1>2
<1>6. ASSUME NEW q \in Partition
      PROVE  /\ Len(log[q]) \in Nat /\ Len(log'[q]) \in Nat
             /\ Len(log[q]) <= Len(log'[q])
             /\ \A k \in 1..Len(log[q]) : log'[q][k] = log[q][k]
  <2>1. CASE q = p
    BY <1>1, <1>3, <2>1
  <2>2. CASE q # p
    BY <1>3, <1>4, <2>2
  <2> QED
    BY <2>1, <2>2
<1> QED
  BY <1>5, <1>6

(* When the log has grown, the elements point to the same events.          *)
LEMMA ElementsStay ==
  ASSUME ElementsAreEvents, NEW i \in DOMAIN inFlight,
         inFlight[i].part \in Partition,
         \A q \in Partition :
            /\ Len(log[q]) \in Nat /\ Len(log'[q]) \in Nat
            /\ Len(log[q]) <= Len(log'[q])
            /\ \A k \in 1..Len(log[q]) : log'[q][k] = log[q][k]
  PROVE  /\ inFlight[i].off \in 1..Len(log'[inFlight[i].part])
         /\ log'[inFlight[i].part][inFlight[i].off] \in Event
<1>1. /\ inFlight[i].off \in 1..Len(log[inFlight[i].part])
      /\ log[inFlight[i].part][inFlight[i].off] \in Event
  BY DEF ElementsAreEvents, EventOf
<1> QED
  BY <1>1

(* A save changes nothing but the "saved" mark of its element.             *)
LEMMA SaveMarksOne ==
  ASSUME TypeOK, NEW i \in DOMAIN inFlight, NEW acknowledged \in BOOLEAN,
         Save(i, acknowledged)
  PROVE  /\ inFlight' \in Seq(Element)
         /\ DOMAIN inFlight' = DOMAIN inFlight
         /\ \A j \in DOMAIN inFlight :
              /\ inFlight'[j].part = inFlight[j].part
              /\ inFlight'[j].off = inFlight[j].off
              /\ inFlight'[j].live = inFlight[j].live
              /\ j # i => inFlight'[j].saved = inFlight[j].saved
<1> DEFINE e == [inFlight[i] EXCEPT !.saved = acknowledged]
<1>1. inFlight \in Seq(Element) /\ i \in 1..Len(inFlight)
  BY DEF TypeOK
<1>2. inFlight[i] \in Element
  BY <1>1, ElementOfSeq
<1>3. /\ e \in Element
      /\ e.part = inFlight[i].part
      /\ e.off = inFlight[i].off
      /\ e.live = inFlight[i].live
  BY <1>2 DEF Element
<1>4. inFlight' = [inFlight EXCEPT ![i] = e]
  BY DEF Save
<1> HIDE DEF e
<1>5. /\ inFlight' \in Seq(Element)
      /\ Len(inFlight') = Len(inFlight)
      /\ \A j \in 1..Len(inFlight) :
           inFlight'[j] = IF j = i THEN e ELSE inFlight[j]
  BY <1>1, <1>3, <1>4, ExceptSeq
<1> QED
  BY <1>1, <1>3, <1>5

(* A failing source disowns its elements and changes nothing else of them. *)
LEMMA FailSourceDisowns ==
  ASSUME TypeOK, FailSource
  PROVE  /\ inFlight' \in Seq(Element)
         /\ DOMAIN inFlight' = DOMAIN inFlight
         /\ \A j \in DOMAIN inFlight :
              /\ inFlight'[j].part = inFlight[j].part
              /\ inFlight'[j].off = inFlight[j].off
              /\ inFlight'[j].saved = inFlight[j].saved
              /\ ~inFlight'[j].live
<1>1. /\ inFlight \in Seq(Element)
      /\ DOMAIN inFlight = 1..Len(inFlight)
      /\ Len(inFlight) \in Nat
  BY DEF TypeOK
<1>2. ASSUME NEW j \in DOMAIN inFlight
      PROVE  /\ [inFlight[j] EXCEPT !.live = FALSE] \in Element
             /\ inFlight'[j] = [inFlight[j] EXCEPT !.live = FALSE]
             /\ inFlight[j] \in Element
  <2>1. inFlight[j] \in Element
    BY <1>1, ElementOfSeq
  <2>2. [inFlight[j] EXCEPT !.live = FALSE] \in Element
    BY <2>1 DEF Element
  <2> QED
    BY <2>1, <2>2 DEF FailSource
<1>3. inFlight' = [j \in 1..Len(inFlight) |->
                     [inFlight[j] EXCEPT !.live = FALSE]]
  BY <1>1 DEF FailSource
<1>4. inFlight' \in [1..Len(inFlight) -> Element]
  BY <1>1, <1>2, <1>3
<1>5. inFlight' \in Seq(Element)
  BY <1>1, <1>4, SeqDef
<1> QED
  BY <1>2, <1>3, <1>1, <1>5 DEF Element

(* mapAsync emits the head; the others keep their order.                   *)
LEMMA EmitTakesHead ==
  ASSUME TypeOK, Emit
  PROVE  /\ Head(inFlight) = inFlight[1]
         /\ 1 \in DOMAIN inFlight
         /\ inFlight[1] \in Element
         /\ inFlight' \in Seq(Element)
         /\ Len(inFlight') = Len(inFlight) - 1
         /\ \A j \in DOMAIN inFlight' : /\ j + 1 \in DOMAIN inFlight
                                        /\ inFlight'[j] = inFlight[j + 1]
<1>1. inFlight \in Seq(Element) /\ inFlight # <<>>
  BY DEF TypeOK, Emit
<1>2. Len(inFlight) \in Nat \ {0}
  BY <1>1, EmptySeq
<1> QED
  BY <1>1, <1>2, HeadTailProperties DEF Emit

(* Every step of the worker and of its environment keeps the types.        *)
LEMMA TypeNext == TypeInv /\ [Next]_vars => TypeInv'
<1> SUFFICES ASSUME TypeOK, ElementsAreEvents, [Next]_vars
             PROVE  TypeInv'
  BY DEF TypeInv
<1> USE DEF TypeInv, TypeOK, Offsets
<1>1. ASSUME NEW p \in Partition, NEW r \in Record, Publish(p, r)
      PROVE  TypeInv'
  <2>1. /\ log' \in [Partition -> Seq(Record)]
        /\ \A q \in Partition :
             /\ Len(log[q]) \in Nat /\ Len(log'[q]) \in Nat
             /\ Len(log[q]) <= Len(log'[q])
             /\ \A k \in 1..Len(log[q]) : log'[q][k] = log[q][k]
    BY <1>1, LogGrows
  <2>2. ASSUME NEW i \in DOMAIN inFlight
        PROVE  inFlight[i] \in Element
    BY ElementOfSeq
  <2>3. ASSUME NEW i \in DOMAIN inFlight
        PROVE  /\ inFlight[i].off \in 1..Len(log'[inFlight[i].part])
               /\ log'[inFlight[i].part][inFlight[i].off] \in Event
    <3>1. inFlight[i].part \in Partition
      BY <2>2 DEF Element
    <3> HIDE DEF TypeOK
    <3> QED
      BY <2>1, <3>1, ElementsStay
  <2>4. ElementsAreEvents'
    BY <1>1, <2>3 DEF Publish, ElementsAreEvents, EventOf
  <2> QED
    BY <1>1, <2>1, <2>4 DEF Publish
<1>2. CASE Initialize
  BY <1>2 DEF Initialize, ElementsAreEvents, EventOf
<1>3. CASE StartSource
  BY <1>3 DEF StartSource, ElementsAreEvents, EventOf
<1>4. ASSUME NEW p \in Partition, Fetch(p)
      PROVE  TypeInv'
  <2>1. position' \in Offsets
    BY <1>4 DEF Fetch
  <2>2. CASE log[p][position[p] + 1] = Malformed
    BY <1>4, <2>1, <2>2 DEF Fetch, ElementsAreEvents, EventOf
  <2>3. CASE log[p][position[p] + 1] # Malformed
    <3> DEFINE x == [part |-> p, off |-> position[p] + 1,
                     live |-> TRUE, saved |-> FALSE]
    <3>1. inFlight' = Append(inFlight, x)
      BY <1>4, <2>3 DEF Fetch
    <3>2. /\ x \in Element
          /\ x.off \in 1..Len(log[p])
          /\ log[p][x.off] \in Event
      BY <1>4, <2>3 DEF Fetch, Record, Element
    <3>3. inFlight' \in Seq(Element)
      BY <3>1, <3>2
    <3>4. /\ Len(inFlight') = Len(inFlight) + 1
          /\ \A i \in DOMAIN inFlight : inFlight'[i] = inFlight[i]
          /\ inFlight'[Len(inFlight) + 1] = x
          /\ Len(inFlight) \in Nat
      BY <3>1, <3>2
    <3>5. ElementsAreEvents'
      <4>1. log' = log /\ x.part = p
        BY <1>4 DEF Fetch
      <4> HIDE DEF x
      <4>2. ASSUME NEW i \in DOMAIN inFlight'
            PROVE  i \in DOMAIN inFlight \/ i = Len(inFlight) + 1
        BY <3>3, <3>4
      <4> QED
        BY <3>2, <3>4, <4>1, <4>2 DEF ElementsAreEvents, EventOf
    <3> QED
      BY <1>4, <2>1, <3>3, <3>5 DEF Fetch
  <2> QED
    BY <2>2, <2>3
<1>5. ASSUME NEW i \in DOMAIN inFlight, NEW acknowledged \in BOOLEAN,
             Save(i, acknowledged)
      PROVE  TypeInv'
  <2>1. rows' \subseteq Event
    BY <1>5 DEF Save, SaveOrUpdate, ElementsAreEvents
  <2>2. inFlight' \in Seq(Element)
    BY <1>5, SaveMarksOne
  <2>3. ElementsAreEvents'
    BY <1>5, SaveMarksOne DEF Save, ElementsAreEvents, EventOf
  <2> QED
    BY <1>5, <2>1, <2>2, <2>3 DEF Save
<1>6. CASE Emit
  <2>1. inFlight' \in Seq(Element)
    BY <1>6, EmitTakesHead
  <2>2. batch' \in [next : Offsets, size : Nat, live : BOOLEAN]
    <3> DEFINE x == Head(inFlight)
    <3>1. x \in Element
      BY <1>6, EmitTakesHead
    <3>2. batch' = [next |-> [batch.next EXCEPT ![x.part] = x.off],
                    size |-> batch.size + 1,
                    live |-> x.live]
      BY <1>6 DEF Emit
    <3> HIDE DEF x
    <3>3. x.off \in Nat /\ x.live \in BOOLEAN
      BY <3>1 DEF Element
    <3>4. [batch.next EXCEPT ![x.part] = x.off] \in Offsets
      BY <3>3
    <3> QED
      BY <3>2, <3>3, <3>4
  <2>3. ElementsAreEvents'
    BY <1>6, EmitTakesHead DEF Emit, ElementsAreEvents, EventOf
  <2> QED
    BY <1>6, <2>1, <2>2, <2>3 DEF Emit
<1>7. CASE CommitBatch
  BY <1>7 DEF CommitBatch, EmptyBatch, NoOffsets, ElementsAreEvents, EventOf
<1>8. CASE KafkaCommits
  <2>1. Head(requests) \in Offsets /\ requests' \in Seq(Offsets)
    BY <1>8 DEF KafkaCommits
  <2>2. committed' \in Offsets
    BY <1>8, <2>1 DEF KafkaCommits
  <2> QED
    BY <1>8, <2>1, <2>2 DEF KafkaCommits, ElementsAreEvents, EventOf
<1>9. CASE LoseCommit
  BY <1>9 DEF LoseCommit, ElementsAreEvents, EventOf
<1>10. CASE FailSource
  <2>1. inFlight' \in Seq(Element)
    BY <1>10, FailSourceDisowns
  <2>2. ElementsAreEvents'
    BY <1>10, FailSourceDisowns
       DEF FailSource, ElementsAreEvents, EventOf
  <2>3. batch' \in [next : Offsets, size : Nat, live : BOOLEAN]
    <3>1. CASE batch.size > 0
      <4>1. batch' = [batch EXCEPT !.live = FALSE]
        BY <1>10, <3>1 DEF FailSource
      <4> QED
        BY <4>1
    <3>2. CASE ~(batch.size > 0)
      BY <1>10, <3>2 DEF FailSource
    <3> QED
      BY <3>1, <3>2
  <2> QED
    <3>1. /\ faults' = faults + 1
          /\ source' = "down"
          /\ UNCHANGED <<log, committed, requests, position, ready, rows>>
      BY <1>10 DEF FailSource
    <3> QED
      BY <2>1, <2>2, <2>3, <3>1
<1>11. CASE FailStream
  BY <1>11, BoundsAssumption
     DEF FailStream, EmptyBatch, NoOffsets, ElementsAreEvents
<1>12. CASE UNCHANGED vars
  BY <1>12 DEF vars, ElementsAreEvents, EventOf
<1> QED
  BY <1>1, <1>2, <1>3, <1>4, <1>5, <1>6, <1>7, <1>8, <1>9, <1>10, <1>11,
     <1>12 DEF Next

(* The worker, Kafka and Cassandra only ever hold what their types say; in *)
(* particular a save never writes a malformed record.                      *)
THEOREM TypeCorrect == Spec => []TypeInv
<1>1. TypeInv /\ [Next]_vars => TypeInv'
  BY TypeNext
<1> QED
  BY <1>1, TypeInit, PTL DEF Spec

(* The type invariant the runs check.                                      *)
THEOREM TypesHold == Spec => []TypeOK
<1>1. TypeInv => TypeOK
  BY DEF TypeInv
<1> QED
  BY <1>1, TypeCorrect, PTL

-----------------------------------------------------------------------------
(* An upsert keeps a row for every second that had one.                    *)
LEMMA RowsStay ==
  ASSUME NEW R, NEW e, NEW d, HasRow(R, d)
  PROVE  HasRow(SaveOrUpdate(R, e), d)
<1>1. PICK r \in R : RowKey(r) = RowKey(d)
  BY DEF HasRow
<1>2. CASE RowKey(r) = RowKey(e)
  BY <1>1, <1>2 DEF HasRow, SaveOrUpdate
<1>3. CASE RowKey(r) # RowKey(e)
  BY <1>1, <1>3 DEF HasRow, SaveOrUpdate
<1> QED
  BY <1>2, <1>3

(* A saved event has its row.                                              *)
LEMMA SavedHasRow ==
  ASSUME NEW R, NEW e
  PROVE  HasRow(SaveOrUpdate(R, e), e)
  BY DEF HasRow, SaveOrUpdate

(* What the type invariant says, point by point.                           *)
LEMMA Typing ==
  ASSUME TypeInv
  PROVE  /\ \A p \in Partition : /\ committed[p] \in Nat
                                 /\ position[p] \in Nat
                                 /\ Len(log[p]) \in Nat
                                 /\ batch.next[p] \in Nat
         /\ batch.next \in Offsets /\ batch.size \in Nat
         /\ Len(requests) \in Nat /\ DOMAIN requests = 1..Len(requests)
         /\ \A j \in DOMAIN requests :
              /\ requests[j] \in Offsets
              /\ \A p \in Partition : requests[j][p] \in Nat
         /\ Len(inFlight) \in Nat /\ DOMAIN inFlight = 1..Len(inFlight)
         /\ \A i \in DOMAIN inFlight : /\ inFlight[i] \in Element
                                      /\ inFlight[i].part \in Partition
                                      /\ inFlight[i].off \in Nat
<1>1. \A p \in Partition : /\ committed[p] \in Nat
                          /\ position[p] \in Nat
                          /\ Len(log[p]) \in Nat
                          /\ batch.next[p] \in Nat
  BY DEF TypeInv, TypeOK, Offsets
<1>2. \A j \in DOMAIN requests :
         /\ requests[j] \in Offsets
         /\ \A p \in Partition : requests[j][p] \in Nat
  BY ElementOfSeq DEF TypeInv, TypeOK, Offsets
<1>3. \A i \in DOMAIN inFlight : inFlight[i] \in Element
  BY ElementOfSeq DEF TypeInv, TypeOK
<1> QED
  BY <1>1, <1>2, <1>3 DEF TypeInv, TypeOK, Element

(* The invariant holds of the empty pipeline.                              *)
LEMMA PipelineInit == Init => PipelineInv
<1> SUFFICES ASSUME Init PROVE PipelineInv
  OBVIOUS
<1>1. DOMAIN <<>> = {}
  OBVIOUS
<1>2. \A q \in Partition : committed[q] = 0 /\ Len(log[q]) = 0
  BY DEF Init, NoOffsets
<1>3. ElementInv /\ OrderInv /\ NoneSkippedInv /\ RequestInv
  BY <1>1 DEF Init, ElementInv, OrderInv, NoneSkippedInv, RequestInv
<1>4. BatchInv /\ PositionInv /\ NothingReadIsForgotten
  BY DEF Init, BatchInv, PositionInv, NothingReadIsForgotten, LiveBatch,
         EmptyBatch
<1>5. CommittedEventsHaveRows
  BY <1>2 DEF CommittedEventsHaveRows
<1> QED
  BY <1>3, <1>4, <1>5 DEF PipelineInv

(* A step that leaves the pipeline alone, but for marks on elements that   *)
(* are stored, and takes no record or row away, keeps the invariant.       *)
LEMMA CalmStep ==
  ASSUME TypeInv, PipelineInv,
         UNCHANGED <<committed, requests, source, position, batch>>,
         DOMAIN inFlight' = DOMAIN inFlight,
         \A i \in DOMAIN inFlight :
            /\ inFlight'[i].part = inFlight[i].part
            /\ inFlight'[i].off = inFlight[i].off
            /\ inFlight'[i].live = inFlight[i].live
            /\ inFlight'[i].saved =>
                  \/ inFlight[i].saved
                  \/ HasRow(rows', log[inFlight[i].part][inFlight[i].off]),
         \A p \in Partition :
            /\ Len(log[p]) \in Nat /\ Len(log'[p]) \in Nat
            /\ Len(log[p]) <= Len(log'[p])
            /\ \A k \in 1..Len(log[p]) : log'[p][k] = log[p][k],
         \A e : HasRow(rows, e) => HasRow(rows', e)
  PROVE  PipelineInv'
<1>1. \A p \in Partition : \A k \in 1..Len(log[p]) :
         Stored(p, k) =>
            (log'[p][k] \in Event => HasRow(rows', log'[p][k]))
  BY DEF Stored
<1>2. \A m \in Offsets : Done(m) =>
         \A p \in Partition :
            /\ m[p] <= Len(log'[p])
            /\ \A k \in 1..m[p] :
                 log'[p][k] \in Event => HasRow(rows', log'[p][k])
  BY <1>1 DEF Done, Offsets
<1>3. \A i \in DOMAIN inFlight : inFlight[i] \in Element
  BY ElementOfSeq DEF TypeInv, TypeOK
<1>4. \A i \in DOMAIN requests : requests[i] \in Offsets
  BY ElementOfSeq DEF TypeInv, TypeOK
<1>5. ASSUME NEW i \in DOMAIN inFlight, inFlight[i].live, NEW k \in 1..(inFlight[i].off - 1)
      PROVE  \/ log'[inFlight[i].part][k] \in Event => HasRow(rows', log'[inFlight[i].part][k])
             \/ \E j \in 1..(i - 1) : /\ inFlight'[j].live
                                      /\ inFlight'[j].part = inFlight[i].part
                                      /\ inFlight'[j].off = k
  <2>1. /\ inFlight[i].off \in 1..Len(log[inFlight[i].part])
        /\ inFlight[i].part \in Partition
        /\ \/ Stored(inFlight[i].part, k)
           \/ \E j \in 1..(i - 1) : /\ inFlight[j].live
                                    /\ inFlight[j].part = inFlight[i].part
                                    /\ inFlight[j].off = k
    BY <1>3, <1>5 DEF PipelineInv, ElementInv, NoneSkippedInv, Element
  <2>2. k \in 1..Len(log[inFlight[i].part])
    BY <2>1
  <2>3. \A j \in 1..(i - 1) : j \in DOMAIN inFlight
    BY DEF TypeInv, TypeOK
  <2> QED
    BY <1>1, <2>1, <2>2, <2>3
<1>6. ASSUME NEW i \in DOMAIN inFlight
      PROVE  /\ inFlight[i].off \in 1..Len(log'[inFlight[i].part])
             /\ log'[inFlight[i].part][inFlight[i].off] \in Event
             /\ inFlight'[i].saved =>
                  HasRow(rows', log'[inFlight[i].part][inFlight[i].off])
  BY <1>3, <1>1 DEF PipelineInv, ElementInv, Element, EventOf, Stored
<1>7. ElementInv' /\ OrderInv' /\ NoneSkippedInv'
  <2>1. ElementInv'
    BY <1>6 DEF ElementInv, EventOf, Stored
  <2>2. OrderInv'
    <3>1. \A i \in DOMAIN inFlight : \A j \in 1..(i - 1) :
            j \in DOMAIN inFlight
      BY DEF TypeInv, TypeOK
    <3> QED
      BY <3>1 DEF PipelineInv, OrderInv, LiveBatch
  <2>3. NoneSkippedInv'
    BY <1>5 DEF NoneSkippedInv, Stored
  <2> QED
    BY <2>1, <2>2, <2>3
<1>8. BatchInv'
  BY <1>2 DEF PipelineInv, BatchInv, LiveBatch, EmptyBatch, NotBefore, Done, TypeInv, TypeOK, Stored
<1>9. RequestInv'
  BY <1>2, <1>4 DEF PipelineInv, RequestInv, NotBefore, Done, Stored
<1>10. PositionInv'
  BY DEF PipelineInv, PositionInv, LiveBatch, TypeInv, TypeOK, Offsets
<1>11. CommittedEventsHaveRows'
  BY <1>2 DEF PipelineInv, CommittedEventsHaveRows, Done, Stored, TypeInv, TypeOK
<1>12. NothingReadIsForgotten'
  <2> SUFFICES ASSUME source = "up", NEW p \in Partition,
                      NEW k \in 1..position[p]
               PROVE  Stored(p, k)' \/ InHand(p, k)'
    BY DEF NothingReadIsForgotten
  <2>1. k \in 1..Len(log[p])
    BY DEF PipelineInv, PositionInv, TypeInv, TypeOK, Offsets
  <2>2. CASE Stored(p, k)
    BY <1>1, <2>1, <2>2 DEF Stored
  <2>3. CASE InHand(p, k)
    BY <2>3 DEF InHand
  <2> QED
    BY <2>2, <2>3 DEF PipelineInv, NothingReadIsForgotten
<1> QED
  BY <1>7, <1>8, <1>9, <1>10, <1>11, <1>12 DEF PipelineInv

(* StartSource: nothing of the old source is left to disturb the new one.  *)
LEMMA StartKeeps ==
  ASSUME TypeInv, PipelineInv, StartSource
  PROVE  PipelineInv'
<1>1. /\ ~LiveBatch /\ ~LiveBatch'
      /\ \A i \in DOMAIN inFlight : ~inFlight[i].live
  BY DEF StartSource, PipelineInv, BatchInv, OrderInv, LiveBatch
<1>2. DOMAIN requests' = {}
  BY DEF StartSource
<1>3. ElementInv' /\ OrderInv' /\ NoneSkippedInv'
  BY <1>1 DEF StartSource, PipelineInv, ElementInv, OrderInv, NoneSkippedInv,
              EventOf, Stored
<1>4. BatchInv' /\ RequestInv'
  BY <1>1, <1>2 DEF StartSource, PipelineInv, BatchInv, RequestInv,
                    EmptyBatch
<1>5. PositionInv'
  BY <1>1, <1>2 DEF StartSource, PipelineInv, PositionInv, TypeInv, TypeOK,
                    CommittedEventsHaveRows, Offsets
<1>6. CommittedEventsHaveRows' /\ NothingReadIsForgotten'
  BY DEF StartSource, PipelineInv, CommittedEventsHaveRows,
         NothingReadIsForgotten, Stored, InHand
<1> QED
  BY <1>3, <1>4, <1>5, <1>6 DEF PipelineInv

(* Fetch: the new element stands behind everything read before it.         *)
LEMMA FetchKeeps ==
  ASSUME TypeInv, PipelineInv, NEW p \in Partition, Fetch(p)
  PROVE  PipelineInv'
<1>1. /\ source = "up" /\ position[p] + 1 \in 1..Len(log[p])
      /\ \A q \in Partition :
           position'[q] = IF q = p THEN position[p] + 1 ELSE position[q]
      /\ \A q \in Partition : position[q] \in Nat /\ position'[q] \in Nat
      /\ UNCHANGED <<log, committed, requests, source, batch, rows>>
  BY DEF Fetch, TypeInv, TypeOK, Offsets
<1>2. BatchInv' /\ RequestInv' /\ CommittedEventsHaveRows'
  BY <1>1 DEF PipelineInv, BatchInv, RequestInv, CommittedEventsHaveRows,
              LiveBatch, NotBefore, Done, Stored, EmptyBatch
<1>0. \A i \in DOMAIN inFlight :
         inFlight[i].live => inFlight[i].off <= position'[inFlight[i].part]
  <2> SUFFICES ASSUME NEW i \in DOMAIN inFlight, inFlight[i].live
               PROVE  inFlight[i].off <= position'[inFlight[i].part]
    OBVIOUS
  <2>1. inFlight[i].part \in Partition /\ inFlight[i].off \in Nat
    BY Typing
  <2>2. inFlight[i].off <= position[inFlight[i].part]
    BY DEF PipelineInv, OrderInv
  <2> QED
    BY <1>1, <2>1, <2>2
<1>3. PositionInv'
  <2> SUFFICES ASSUME NEW q \in Partition
               PROVE  /\ position'[q] <= Len(log[q])
                      /\ committed[q] <= position'[q]
                      /\ \A j \in DOMAIN requests :
                           requests[j][q] <= position'[q]
                      /\ LiveBatch => batch.next[q] <= position'[q]
    BY <1>1 DEF PositionInv, LiveBatch
  <2>1. /\ position[q] <= position'[q]
        /\ q = p \/ position'[q] = position[q]
    BY <1>1
  <2>2. /\ position[q] <= Len(log[q])
        /\ committed[q] <= position[q]
        /\ \A j \in DOMAIN requests : requests[j][q] <= position[q]
        /\ LiveBatch => batch.next[q] <= position[q]
    BY <1>1 DEF PipelineInv, PositionInv
  <2>3. position'[q] <= Len(log[q])
    BY <1>1, <2>1, <2>2
  <2> QED
    BY <1>1, <2>1, <2>2, <2>3, Typing
<1>4. CASE log[p][position[p] + 1] = Malformed
  <2>1. inFlight' = inFlight
    BY <1>4 DEF Fetch
  <2>2. ElementInv' /\ OrderInv' /\ NoneSkippedInv'
    <3>1. ElementInv' /\ NoneSkippedInv'
      BY <1>1, <2>1
         DEF PipelineInv, ElementInv, NoneSkippedInv, EventOf, Stored
    <3>2. OrderInv'
      BY <1>0, <1>1, <2>1 DEF PipelineInv, OrderInv, LiveBatch
    <3> QED
      BY <3>1, <3>2
  <2>3. NothingReadIsForgotten'
    BY <1>1, <1>4, <2>1, MalformedAssumption
       DEF PipelineInv, NothingReadIsForgotten, Stored, InHand
  <2> QED
    BY <1>2, <1>3, <2>2, <2>3 DEF PipelineInv
<1>5. CASE log[p][position[p] + 1] # Malformed
  <2> DEFINE x == [part |-> p, off |-> position[p] + 1,
                   live |-> TRUE, saved |-> FALSE]
             n == Len(inFlight)
  <2>1. /\ n \in Nat
        /\ DOMAIN inFlight = 1..n
        /\ DOMAIN inFlight' = 1..(n + 1)
        /\ \A i \in 1..n : inFlight'[i] = inFlight[i]
        /\ inFlight'[n + 1] = x
    <3>1. inFlight' = Append(inFlight, x) /\ inFlight \in Seq(Element)
      BY <1>5 DEF Fetch, TypeInv, TypeOK
    <3> HIDE DEF x
    <3> QED
      BY <3>1
  <2>2. /\ x.part = p /\ x.off = position[p] + 1
        /\ x.live /\ ~x.saved
        /\ log[p][x.off] \in Event
    BY <1>1, <1>5 DEF Record, TypeInv, TypeOK
  <2>3. \A i \in 1..n : inFlight[i] \in Element
    BY <2>1, ElementOfSeq DEF TypeInv, TypeOK
  <2> HIDE DEF x, n
  <2>4. ElementInv'
    <3>1. ASSUME NEW i \in 1..n
          PROVE  /\ inFlight'[i].off \in 1..Len(log[inFlight'[i].part])
                 /\ EventOf(inFlight'[i]) \in Event
                 /\ inFlight'[i].saved
                       => Stored(inFlight'[i].part, inFlight'[i].off)
      BY <2>1 DEF PipelineInv, ElementInv
    <3>2. /\ x.off \in 1..Len(log[x.part])
          /\ EventOf(x) \in Event
          /\ ~x.saved
      BY <1>1, <2>2 DEF EventOf
    <3>3. ASSUME NEW i \in 1..(n + 1)
          PROVE  i \in 1..n \/ i = n + 1
      BY <2>1
    <3>4. ASSUME NEW i \in 1..(n + 1)
          PROVE  /\ inFlight'[i].off \in 1..Len(log[inFlight'[i].part])
                 /\ EventOf(inFlight'[i]) \in Event
                 /\ inFlight'[i].saved
                       => Stored(inFlight'[i].part, inFlight'[i].off)
      <4>1. CASE i \in 1..n
        BY <3>1, <4>1
      <4>2. CASE i = n + 1
        BY <2>1, <3>2, <4>2
      <4> QED
        BY <3>3, <4>1, <4>2
    <3> QED
      BY <1>1, <2>1, <3>4 DEF ElementInv, EventOf, Stored
  <2>5. OrderInv'
    <3>1. ASSUME NEW i \in 1..n, inFlight[i].live
          PROVE  /\ inFlight[i].off <= position'[inFlight[i].part]
                 /\ committed[inFlight[i].part] <= inFlight[i].off
                 /\ \A j \in DOMAIN requests :
                      requests[j][inFlight[i].part] <= inFlight[i].off
                 /\ LiveBatch =>
                      batch.next[inFlight[i].part] <= inFlight[i].off
                 /\ \A j \in 1..(i - 1) :
                      (inFlight'[j].live
                       /\ inFlight'[j].part = inFlight[i].part)
                         => inFlight'[j].off <= inFlight[i].off
      <4>1. \A j \in 1..(i - 1) : inFlight'[j] = inFlight[j]
        BY <2>1
      <4> QED
        BY <1>0, <2>1, <3>1, <4>1 DEF PipelineInv, OrderInv
    <3>2. /\ committed[p] <= x.off
          /\ \A j \in DOMAIN requests : requests[j][p] <= x.off
          /\ LiveBatch => batch.next[p] <= x.off
      BY <1>1, <2>2, Typing DEF PipelineInv, PositionInv
    <3>3. \A j \in 1..n : (inFlight'[j].live /\ inFlight'[j].part = p)
                             => inFlight'[j].off <= x.off
      <4> SUFFICES ASSUME NEW j \in 1..n,
                          inFlight'[j].live, inFlight'[j].part = p
                   PROVE  inFlight'[j].off <= x.off
        OBVIOUS
      <4>1. inFlight'[j] = inFlight[j] /\ inFlight[j].off \in Nat
        BY <2>1, Typing
      <4>2. inFlight[j].off <= position[p]
        BY <2>1, <4>1 DEF PipelineInv, OrderInv
      <4> QED
        BY <1>1, <2>2, <4>1, <4>2
    <3>4. x.off <= position'[p]
      BY <1>1, <2>2
    <3>5. ASSUME NEW i \in 1..(n + 1)
          PROVE  i \in 1..n \/ i = n + 1
      BY <2>1
    <3>6. (n + 1) - 1 = n
      BY <2>1
    <3> QED
      BY <1>1, <2>1, <2>2, <3>1, <3>2, <3>3, <3>4, <3>5, <3>6
         DEF OrderInv, LiveBatch
  <2>6. NoneSkippedInv'
    <3>1. ASSUME NEW i \in 1..n, inFlight[i].live,
                 NEW k \in 1..(inFlight[i].off - 1)
          PROVE  \/ Stored(inFlight[i].part, k)
                 \/ \E j \in 1..(i - 1) : /\ inFlight'[j].live
                                          /\ inFlight'[j].part = inFlight[i].part
                                          /\ inFlight'[j].off = k
      <4>1. \A j \in 1..(i - 1) : inFlight'[j] = inFlight[j]
        BY <2>1
      <4> QED
        BY <2>1, <3>1, <4>1 DEF PipelineInv, NoneSkippedInv
    <3>2. ASSUME NEW k \in 1..(x.off - 1)
          PROVE  \/ Stored(p, k)
                 \/ \E j \in 1..n : /\ inFlight'[j].live
                                    /\ inFlight'[j].part = p
                                    /\ inFlight'[j].off = k
      <4>1. k \in 1..position[p]
        BY <1>1, <2>2
      <4> QED
        BY <1>1, <2>1, <4>1
           DEF PipelineInv, NothingReadIsForgotten, InHand
    <3>3. ASSUME NEW i \in 1..(n + 1)
          PROVE  i \in 1..n \/ (i = n + 1 /\ i - 1 = n)
      BY <2>1
    <3>4. ASSUME NEW i \in 1..(n + 1), inFlight'[i].live,
                 NEW k \in 1..(inFlight'[i].off - 1)
          PROVE  \/ Stored(inFlight'[i].part, k)
                 \/ \E j \in 1..(i - 1) : /\ inFlight'[j].live
                                          /\ inFlight'[j].part = inFlight'[i].part
                                          /\ inFlight'[j].off = k
      <4>1. CASE i \in 1..n
        BY <2>1, <3>1, <3>4, <4>1
      <4>2. CASE i = n + 1 /\ i - 1 = n
        BY <2>1, <2>2, <3>2, <3>4, <4>2
      <4> QED
        BY <3>3, <4>1, <4>2
    <3> QED
      BY <1>1, <2>1, <3>4 DEF NoneSkippedInv, Stored
  <2>7. NothingReadIsForgotten'
    <3>2. ASSUME NEW q \in Partition, NEW k \in 1..position'[q]
          PROVE  \/ k \in 1..position[q]
                 \/ q = p /\ k = x.off
      BY <1>1, <2>2
    <3>3. n + 1 \in 1..(n + 1)
      BY <2>1
    <3>4. ASSUME NEW q \in Partition, NEW k \in 1..position'[q]
          PROVE  \/ Stored(q, k)
                 \/ \E j \in 1..(n + 1) : /\ inFlight'[j].live
                                         /\ inFlight'[j].part = q
                                         /\ inFlight'[j].off = k
      <4>1. CASE k \in 1..position[q]
        <5>1. Stored(q, k) \/ InHand(q, k)
          BY <1>1, <4>1 DEF PipelineInv, NothingReadIsForgotten
        <5>2. CASE InHand(q, k)
          BY <2>1, <5>2 DEF InHand
        <5> QED
          BY <5>1, <5>2
      <4>2. CASE q = p /\ k = x.off
        BY <2>1, <2>2, <3>3, <4>2
      <4> QED
        BY <3>2, <4>1, <4>2
    <3> SUFFICES ASSUME NEW q \in Partition, NEW k \in 1..position'[q]
                 PROVE  Stored(q, k)' \/ InHand(q, k)'
      BY DEF NothingReadIsForgotten
    <3>5. Stored(q, k) => Stored(q, k)'
      BY <1>1 DEF Stored
    <3>6. (\E j \in 1..(n + 1) : /\ inFlight'[j].live
                               /\ inFlight'[j].part = q
                               /\ inFlight'[j].off = k) => InHand(q, k)'
      BY <2>1 DEF InHand
    <3> QED
      BY <3>4, <3>5, <3>6
  <2> QED
    BY <1>2, <1>3, <2>4, <2>5, <2>6, <2>7 DEF PipelineInv
<1> QED
  BY <1>4, <1>5

(* Emit: the head of the stream is stored, and so is all that was read     *)
(* before it; its offset may join the batch.                               *)
LEMMA EmitKeeps ==
  ASSUME TypeInv, PipelineInv, Emit
  PROVE  PipelineInv'
<1> DEFINE x == inFlight[1]
           n == Len(inFlight)
<1>1. /\ n \in Nat \ {0}
      /\ DOMAIN inFlight = 1..n
      /\ DOMAIN inFlight' = 1..(n - 1)
      /\ \A j \in 1..(n - 1) : inFlight'[j] = inFlight[j + 1]
      /\ UNCHANGED <<log, committed, requests, source, position, rows>>
  BY EmitTakesHead DEF Emit, TypeInv, TypeOK
<1>2. /\ x.part \in Partition /\ x.off \in Nat /\ x.saved
      /\ x.off \in 1..Len(log[x.part])
      /\ Stored(x.part, x.off)
  BY <1>1, EmitTakesHead, Typing DEF Emit, PipelineInv, ElementInv, TypeInv
<1>3. /\ batch'.next = [batch.next EXCEPT ![x.part] = x.off]
      /\ batch'.size = batch.size + 1
      /\ batch'.live = x.live
      /\ batch.size > 0 => batch.live = x.live
  BY EmitTakesHead DEF Emit, TypeInv
<1>4. \A q \in Partition :
         batch'.next[q] = IF q = x.part THEN x.off ELSE batch.next[q]
  BY <1>2, <1>3, Typing DEF Offsets
<1>5. LiveBatch' => x.live
  BY <1>3 DEF LiveBatch
<1>6. x.live => /\ source = "up"
                /\ \A k \in 1..x.off : Stored(x.part, k)
  <2> SUFFICES ASSUME x.live
               PROVE  /\ source = "up"
                      /\ \A k \in 1..(x.off - 1) : Stored(x.part, k)
    BY <1>2
  <2>1. \A j : j \notin 1..(1 - 1)
    OBVIOUS
  <2> QED
    BY <1>1, <2>1 DEF PipelineInv, OrderInv, NoneSkippedInv
<1>7. x.live => /\ x.off <= position[x.part]
                /\ committed[x.part] <= x.off
                /\ \A j \in DOMAIN requests : requests[j][x.part] <= x.off
                /\ \A i \in 1..n : (inFlight[i].live /\ inFlight[i].part = x.part)
                                     => x.off <= inFlight[i].off
  <2> SUFFICES ASSUME x.live
               PROVE  /\ x.off <= position[x.part]
                      /\ committed[x.part] <= x.off
                      /\ \A j \in DOMAIN requests :
                           requests[j][x.part] <= x.off
                      /\ \A i \in 1..n :
                           (inFlight[i].live /\ inFlight[i].part = x.part)
                              => x.off <= inFlight[i].off
    OBVIOUS
  <2>1. 1 \in DOMAIN inFlight
    BY <1>1
  <2>2. /\ x.off <= position[x.part]
        /\ committed[x.part] <= x.off
        /\ \A j \in DOMAIN requests : requests[j][x.part] <= x.off
    BY <2>1 DEF PipelineInv, OrderInv
  <2>3. ASSUME NEW i \in 1..n, inFlight[i].live, inFlight[i].part = x.part
        PROVE  x.off <= inFlight[i].off
    <3>1. CASE i = 1
      BY <1>2, <3>1
    <3>2. CASE i # 1
      <4>1. i \in DOMAIN inFlight /\ 1 \in 1..(i - 1)
        BY <1>1, <3>2
      <4> QED
        BY <2>3, <4>1 DEF PipelineInv, OrderInv
    <3> QED
      BY <3>1, <3>2
  <2> QED
    BY <2>2, <2>3
<1>8. LiveBatch' => \A q \in Partition :
         \/ q = x.part
         \/ batch'.next[q] = 0
         \/ LiveBatch /\ batch'.next[q] = batch.next[q]
  <2>1. CASE batch.size = 0
    <3>1. \A q \in Partition : batch.next[q] = 0
      BY <2>1 DEF PipelineInv, BatchInv, EmptyBatch, NoOffsets
    <3> QED
      BY <1>4, <3>1
  <2>2. CASE batch.size > 0
    BY <1>3, <1>4, <1>5, <2>2 DEF LiveBatch
  <2> QED
    BY <2>1, <2>2, Typing
<1> HIDE DEF x, n
<1>9. ElementInv'
  <2>1. ASSUME NEW i \in DOMAIN inFlight'
        PROVE  /\ inFlight'[i].off \in 1..Len(log'[inFlight'[i].part])
               /\ log'[inFlight'[i].part][inFlight'[i].off] \in Event
               /\ inFlight'[i].saved =>
                    HasRow(rows', log'[inFlight'[i].part][inFlight'[i].off])
    <3>0. i \in 1..(n - 1)
      BY <1>1
    <3>1. inFlight'[i] = inFlight[i + 1] /\ i + 1 \in 1..n
      BY <1>1, <3>0
    <3>2. /\ inFlight[i + 1].off \in 1..Len(log[inFlight[i + 1].part])
          /\ log[inFlight[i + 1].part][inFlight[i + 1].off] \in Event
          /\ inFlight[i + 1].saved =>
               HasRow(rows, log[inFlight[i + 1].part][inFlight[i + 1].off])
      BY <1>1, <3>1 DEF PipelineInv, ElementInv, EventOf, Stored
    <3> QED
      BY <1>1, <3>1, <3>2
  <2> QED
    BY <2>1 DEF ElementInv, EventOf, Stored
<1>10. OrderInv'
  <2> SUFFICES ASSUME NEW i \in DOMAIN inFlight', inFlight'[i].live
               PROVE  /\ source' = "up"
                      /\ inFlight'[i].off <= position'[inFlight'[i].part]
                      /\ committed'[inFlight'[i].part] <= inFlight'[i].off
                      /\ \A j \in DOMAIN requests' :
                           requests'[j][inFlight'[i].part]
                              <= inFlight'[i].off
                      /\ LiveBatch' =>
                           batch'.next[inFlight'[i].part] <= inFlight'[i].off
                      /\ \A j \in 1..(i - 1) :
                           (inFlight'[j].live
                            /\ inFlight'[j].part = inFlight'[i].part)
                              => inFlight'[j].off <= inFlight'[i].off
    BY DEF OrderInv
  <2>0. /\ i \in 1..(n - 1) /\ inFlight'[i] = inFlight[i + 1]
        /\ \A j \in 1..(i - 1) : inFlight'[j] = inFlight[j + 1]
    <3>1. i \in 1..(n - 1)
      BY <1>1
    <3>2. \A j \in 1..(i - 1) : j \in 1..(n - 1)
      BY <1>1, <3>1
    <3> QED
      BY <1>1, <3>1, <3>2
  <2>1. i + 1 \in 1..n /\ inFlight[i + 1].live
    BY <1>1, <2>0
  <2>2. \A j \in 1..(i - 1) : j + 1 \in 1..((i + 1) - 1)
    BY <1>1
  <2>3. LiveBatch' => batch'.next[inFlight[i + 1].part] <= inFlight[i + 1].off
    <3> SUFFICES ASSUME LiveBatch'
                 PROVE  batch'.next[inFlight[i + 1].part] <= inFlight[i + 1].off
      OBVIOUS
    <3>1. inFlight[i + 1].part \in Partition /\ inFlight[i + 1].off \in Nat
      BY <1>1, <2>1, Typing
    <3>2. CASE inFlight[i + 1].part = x.part
      BY <1>4, <1>5, <1>7, <2>1, <3>1, <3>2
    <3>3. CASE inFlight[i + 1].part # x.part
      <4>1. CASE batch'.next[inFlight[i + 1].part] = 0
        BY <3>1, <4>1
      <4>2. CASE LiveBatch /\ batch'.next[inFlight[i + 1].part]
                                = batch.next[inFlight[i + 1].part]
        <5>1. batch.next[inFlight[i + 1].part] <= inFlight[i + 1].off
          BY <1>1, <2>1, <4>2 DEF PipelineInv, OrderInv
        <5> QED
          BY <4>2, <5>1
      <4> QED
        BY <1>8, <3>1, <3>3, <4>1, <4>2
    <3> QED
      BY <3>2, <3>3
  <2>4. /\ source = "up"
        /\ inFlight[i + 1].off <= position[inFlight[i + 1].part]
        /\ committed[inFlight[i + 1].part] <= inFlight[i + 1].off
        /\ \A j \in DOMAIN requests :
             requests[j][inFlight[i + 1].part] <= inFlight[i + 1].off
        /\ \A j \in 1..((i + 1) - 1) :
             (inFlight[j].live /\ inFlight[j].part = inFlight[i + 1].part)
                => inFlight[j].off <= inFlight[i + 1].off
    BY <1>1, <2>1 DEF PipelineInv, OrderInv
  <2>5. \A j \in 1..(i - 1) :
           (inFlight'[j].live /\ inFlight'[j].part = inFlight[i + 1].part)
              => inFlight'[j].off <= inFlight[i + 1].off
    BY <2>0, <2>2, <2>4
  <2> QED
    BY <1>1, <2>0, <2>3, <2>4, <2>5
<1>11. NoneSkippedInv'
  <2> SUFFICES ASSUME NEW i \in DOMAIN inFlight', inFlight'[i].live,
                      NEW k \in 1..(inFlight'[i].off - 1)
               PROVE  \/ log'[inFlight'[i].part][k] \in Event =>
                            HasRow(rows', log'[inFlight'[i].part][k])
                      \/ \E j \in 1..(i - 1) :
                            /\ inFlight'[j].live
                            /\ inFlight'[j].part = inFlight'[i].part
                            /\ inFlight'[j].off = k
    BY DEF NoneSkippedInv, Stored
  <2>1. inFlight'[i] = inFlight[i + 1] /\ i \in 1..(n - 1) /\ i + 1 \in 1..n
    BY <1>1
  <2>2. CASE Stored(inFlight[i + 1].part, k)
    BY <1>1, <2>1, <2>2 DEF Stored
  <2>3. CASE ~Stored(inFlight[i + 1].part, k)
    <3>1. PICK j \in 1..((i + 1) - 1) :
               /\ inFlight[j].live
               /\ inFlight[j].part = inFlight[i + 1].part
               /\ inFlight[j].off = k
      BY <1>1, <2>1, <2>3 DEF PipelineInv, NoneSkippedInv
    <3>2. j # 1
      BY <1>2, <2>3, <3>1 DEF x
    <3>3. j - 1 \in 1..(i - 1) /\ inFlight'[j - 1] = inFlight[j]
      BY <1>1, <2>1, <3>1, <3>2
    <3> QED
      BY <2>1, <3>1, <3>3
  <2> QED
    BY <2>2, <2>3
<1>12. BatchInv'
  <2>1. batch'.size # 0
    BY <1>3, Typing
  <2>2. ASSUME LiveBatch'
        PROVE  /\ source = "up"
               /\ \A q \in Partition :
                    /\ batch'.next[q] <= Len(log[q])
                    /\ \A k \in 1..batch'.next[q] : Stored(q, k)
                    /\ batch'.next[q] # 0 =>
                         /\ committed[q] <= batch'.next[q]
                         /\ \A j \in DOMAIN requests :
                              requests[j][q] <= batch'.next[q]
    <3>1. source = "up"
      BY <1>5, <1>6, <2>2
    <3>2. ASSUME NEW q \in Partition, q = x.part
          PROVE  /\ batch'.next[q] = x.off
                 /\ x.off <= Len(log[q])
                 /\ \A k \in 1..x.off : Stored(q, k)
                 /\ committed[q] <= x.off
                 /\ \A j \in DOMAIN requests : requests[j][q] <= x.off
      BY <1>2, <1>4, <1>5, <1>6, <1>7, <2>2, <3>2, Typing
    <3>3. ASSUME NEW q \in Partition, LiveBatch,
                 batch'.next[q] = batch.next[q]
          PROVE  /\ batch.next[q] <= Len(log[q])
                 /\ \A k \in 1..batch.next[q] : Stored(q, k)
                 /\ batch.next[q] # 0 =>
                      /\ committed[q] <= batch.next[q]
                      /\ \A j \in DOMAIN requests :
                           requests[j][q] <= batch.next[q]
      BY <3>3 DEF PipelineInv, BatchInv, Done, NotBefore
    <3>4. ASSUME NEW q \in Partition, batch'.next[q] = 0
          PROVE  batch'.next[q] <= Len(log[q]) /\ 1..batch'.next[q] = {}
      BY <3>4, Typing
    <3> QED
      BY <1>8, <2>2, <3>1, <3>2, <3>3, <3>4
  <2> QED
    BY <1>1, <2>1, <2>2 DEF BatchInv, Done, NotBefore, Stored, LiveBatch
<1>13. RequestInv'
  BY <1>1 DEF PipelineInv, RequestInv, Done, NotBefore, Stored
<1>14. PositionInv'
  <2>1. ASSUME LiveBatch', source = "up", NEW q \in Partition
        PROVE  batch'.next[q] <= position[q]
    BY <1>4, <1>5, <1>7, <1>8, <2>1, Typing DEF PipelineInv, PositionInv
  <2> QED
    BY <1>1, <2>1 DEF PipelineInv, PositionInv, LiveBatch
<1>15. CommittedEventsHaveRows'
  BY <1>1 DEF PipelineInv, CommittedEventsHaveRows, Stored
<1>16. NothingReadIsForgotten'
  <2> SUFFICES ASSUME source' = "up", NEW q \in Partition,
                      NEW k \in 1..position'[q]
               PROVE  Stored(q, k)' \/ InHand(q, k)'
    BY DEF NothingReadIsForgotten
  <2>1. CASE Stored(q, k)
    BY <1>1, <2>1 DEF Stored
  <2>2. CASE ~Stored(q, k)
    <3>1. PICK j \in 1..n : /\ inFlight[j].live
                            /\ inFlight[j].part = q
                            /\ inFlight[j].off = k
      BY <1>1, <2>2 DEF PipelineInv, NothingReadIsForgotten, InHand
    <3>2. j # 1
      BY <1>2, <2>2, <3>1 DEF x
    <3>3. j - 1 \in 1..(n - 1) /\ inFlight'[j - 1] = inFlight[j]
      BY <1>1, <3>1, <3>2
    <3> QED
      BY <1>1, <3>1, <3>3 DEF InHand
  <2> QED
    BY <2>1, <2>2
<1> QED
  BY <1>9, <1>10, <1>11, <1>12, <1>13, <1>14, <1>15, <1>16 DEF PipelineInv

(* CommitBatch: the newest request is not before the others.               *)
LEMMA CommitBatchKeeps ==
  ASSUME TypeInv, PipelineInv, CommitBatch
  PROVE  PipelineInv'
<1>1. /\ ~LiveBatch' /\ batch' = EmptyBatch
      /\ UNCHANGED <<log, committed, source, position, inFlight, rows>>
  BY DEF CommitBatch, LiveBatch, EmptyBatch
<1>2. CASE ~LiveBatch
  <2>1. requests' = requests
    BY <1>2 DEF CommitBatch, LiveBatch
  <2> QED
    BY <1>1, <2>1
       DEF PipelineInv, ElementInv, OrderInv, NoneSkippedInv, BatchInv,
           RequestInv, PositionInv, CommittedEventsHaveRows,
           NothingReadIsForgotten, EventOf, Stored, Done, NotBefore, InHand,
           EmptyBatch
<1>3. CASE LiveBatch
  <2> DEFINE n == Len(requests)
             m == batch.next
  <2>1. /\ n \in Nat
        /\ DOMAIN requests = 1..n /\ DOMAIN requests' = 1..(n + 1)
        /\ \A j \in 1..n : requests'[j] = requests[j]
        /\ requests'[n + 1] = m
    <3>1. requests' = Append(requests, m) /\ requests \in Seq(Offsets)
      BY <1>3 DEF CommitBatch, LiveBatch, TypeInv, TypeOK
    <3> HIDE DEF m
    <3> QED
      BY <3>1
  <2>2. /\ Done(m) /\ NotBefore(m, committed)
        /\ \A j \in 1..n : NotBefore(m, requests[j])
        /\ source = "up"
    BY <1>3, <2>1 DEF PipelineInv, BatchInv
  <2>3. /\ \A p \in Partition : m[p] <= position[p]
        /\ \A i \in DOMAIN inFlight :
             inFlight[i].live => m[inFlight[i].part] <= inFlight[i].off
    BY <1>3, <2>2 DEF PipelineInv, PositionInv, OrderInv
  <2> HIDE DEF m, n
  <2>4. ElementInv' /\ NoneSkippedInv'
    BY <1>1 DEF PipelineInv, ElementInv, NoneSkippedInv, EventOf, Stored
  <2>5. OrderInv'
    BY <1>1, <2>1, <2>3 DEF PipelineInv, OrderInv
  <2>6. BatchInv'
    BY <1>1 DEF BatchInv, EmptyBatch
  <2>7. RequestInv'
    <3> SUFFICES ASSUME NEW i \in 1..(n + 1)
                 PROVE  /\ \A p \in Partition :
                            /\ requests'[i][p] <= Len(log[p])
                            /\ \A k \in 1..requests'[i][p] : Stored(p, k)
                        /\ NotBefore(requests'[i], committed)
                        /\ \A j \in 1..(i - 1) :
                             NotBefore(requests'[i], requests'[j])
      BY <1>1, <2>1 DEF RequestInv, Done, NotBefore, Stored
    <3>1. CASE i \in 1..n
      <4>1. \A j \in 1..(i - 1) : requests'[j] = requests[j]
        BY <2>1, <3>1
      <4> QED
        BY <2>1, <3>1, <4>1 DEF PipelineInv, RequestInv, Done
    <3>2. CASE i = n + 1
      <4>1. i - 1 = n
        BY <2>1, <3>2
      <4> QED
        BY <2>1, <2>2, <3>2, <4>1 DEF Done
    <3> QED
      BY <2>1, <3>1, <3>2
  <2>8. PositionInv'
    BY <1>1, <2>1, <2>3 DEF PipelineInv, PositionInv
  <2>9. CommittedEventsHaveRows' /\ NothingReadIsForgotten'
    BY <1>1 DEF PipelineInv, CommittedEventsHaveRows, NothingReadIsForgotten,
                Stored, InHand
  <2> QED
    BY <2>4, <2>5, <2>6, <2>7, <2>8, <2>9 DEF PipelineInv
<1> QED
  BY <1>2, <1>3

(* What leaves the queue of requests, handled or lost, leaves the rest in  *)
(* order.                                                                  *)
LEMMA RequestsShift ==
  ASSUME TypeInv, requests # <<>>, requests' = Tail(requests)
  PROVE  /\ 1 \in DOMAIN requests /\ Head(requests) = requests[1]
         /\ \A i \in DOMAIN requests' :
              /\ i + 1 \in DOMAIN requests /\ i \in Nat \ {0}
              /\ requests'[i] = requests[i + 1]
              /\ \A j \in 1..(i - 1) : /\ requests'[j] = requests[j + 1]
                                       /\ j + 1 \in 1..((i + 1) - 1)
<1>1. requests \in Seq(Offsets)
  BY DEF TypeInv, TypeOK
<1>2. Len(requests) \in Nat \ {0}
  BY <1>1, EmptySeq
<1> QED
  BY <1>1, <1>2, HeadTailProperties

(* KafkaCommits: the oldest request is of done records, and the others do  *)
(* not go back behind it.                                                  *)
LEMMA KafkaCommitsKeeps ==
  ASSUME TypeInv, PipelineInv, KafkaCommits
  PROVE  /\ PipelineInv'
         /\ \A p \in Partition : committed[p] <= committed'[p]
<1> DEFINE m == requests[1]
<1>1. /\ requests # <<>> /\ requests' = Tail(requests)
      /\ UNCHANGED <<log, source, position, inFlight, batch, rows>>
  BY DEF KafkaCommits
<1>2. m = Head(requests) /\ 1 \in DOMAIN requests
  BY <1>1, RequestsShift
<1>3. \A p \in Partition :
         committed'[p] = IF m[p] = 0 THEN committed[p] ELSE m[p]
  BY <1>2 DEF KafkaCommits
<1>4. Done(m) /\ NotBefore(m, committed)
  BY <1>2 DEF PipelineInv, RequestInv
<1>5. \A i \in DOMAIN requests : i \in 1..Len(requests)
  BY Typing
<1>6. \A i \in DOMAIN requests : i # 1 => NotBefore(requests[i], m)
  <2> SUFFICES ASSUME NEW i \in DOMAIN requests, i # 1
               PROVE  1 \in 1..(i - 1)
    BY DEF PipelineInv, RequestInv
  <2> QED
    BY <1>5, Typing
<1>7. \A p \in Partition : committed[p] <= committed'[p]
  BY <1>3, <1>4, Typing DEF NotBefore
<1>8. /\ \A i \in DOMAIN inFlight : inFlight[i].live =>
           committed'[inFlight[i].part] <= inFlight[i].off
      /\ LiveBatch => NotBefore(batch.next, m)
      /\ source = "up" => \A p \in Partition : committed'[p] <= position[p]
  BY <1>2, <1>3, Typing
     DEF PipelineInv, OrderInv, BatchInv, PositionInv
<1> HIDE DEF m
<1>9. ElementInv' /\ NoneSkippedInv' /\ NothingReadIsForgotten'
  BY <1>1 DEF PipelineInv, ElementInv, NoneSkippedInv,
              NothingReadIsForgotten, EventOf, Stored, InHand
<1>10. OrderInv'
  BY <1>1, <1>8, RequestsShift DEF PipelineInv, OrderInv, LiveBatch
<1>11. BatchInv'
  <2>1. LiveBatch => NotBefore(batch.next, committed')
    BY <1>3, <1>8 DEF PipelineInv, BatchInv, NotBefore
  <2> QED
    BY <1>1, <2>1, RequestsShift
       DEF PipelineInv, BatchInv, LiveBatch, EmptyBatch, Done, NotBefore,
           Stored
<1>12. RequestInv'
  <2> SUFFICES ASSUME NEW i \in DOMAIN requests'
               PROVE  /\ \A p \in Partition :
                          /\ requests'[i][p] <= Len(log[p])
                          /\ \A k \in 1..requests'[i][p] : Stored(p, k)
                      /\ NotBefore(requests'[i], committed')
                      /\ \A j \in 1..(i - 1) :
                           NotBefore(requests'[i], requests'[j])
    BY <1>1 DEF RequestInv, Done, NotBefore, Stored
  <2>1. /\ i + 1 \in DOMAIN requests /\ i + 1 # 1
        /\ requests'[i] = requests[i + 1]
    BY <1>1, RequestsShift
  <2>2. NotBefore(requests[i + 1], committed')
    BY <1>3, <1>6, <2>1 DEF PipelineInv, RequestInv, NotBefore
  <2>3. \A j \in 1..(i - 1) : NotBefore(requests'[i], requests'[j])
    BY <1>1, <2>1, RequestsShift DEF PipelineInv, RequestInv
  <2> QED
    BY <2>1, <2>2, <2>3 DEF PipelineInv, RequestInv, Done
<1>13. PositionInv'
  BY <1>1, <1>8, RequestsShift DEF PipelineInv, PositionInv, LiveBatch
<1>14. CommittedEventsHaveRows'
  BY <1>1, <1>3, <1>4
     DEF PipelineInv, CommittedEventsHaveRows, Done, Stored
<1> QED
  BY <1>7, <1>9, <1>10, <1>11, <1>12, <1>13, <1>14 DEF PipelineInv

(* LoseCommit: the other requests stay as they are.                        *)
LEMMA LoseCommitKeeps ==
  ASSUME TypeInv, PipelineInv, LoseCommit
  PROVE  PipelineInv'
<1>1. /\ requests # <<>> /\ requests' = Tail(requests)
      /\ UNCHANGED <<log, committed, source, position, inFlight, batch, rows>>
  BY DEF LoseCommit
<1>2. ElementInv' /\ NoneSkippedInv' /\ NothingReadIsForgotten'
  BY <1>1 DEF PipelineInv, ElementInv, NoneSkippedInv,
              NothingReadIsForgotten, EventOf, Stored, InHand
<1>3. OrderInv' /\ PositionInv'
  BY <1>1, RequestsShift DEF PipelineInv, OrderInv, PositionInv, LiveBatch
<1>4. BatchInv'
  BY <1>1, RequestsShift
     DEF PipelineInv, BatchInv, LiveBatch, EmptyBatch, Done, NotBefore,
         Stored
<1>5. RequestInv'
  <2> SUFFICES ASSUME NEW i \in DOMAIN requests'
               PROVE  /\ \A p \in Partition :
                          /\ requests'[i][p] <= Len(log[p])
                          /\ \A k \in 1..requests'[i][p] : Stored(p, k)
                      /\ NotBefore(requests'[i], committed)
                      /\ \A j \in 1..(i - 1) :
                           NotBefore(requests'[i], requests'[j])
    BY <1>1 DEF RequestInv, Done, NotBefore, Stored
  <2> QED
    BY <1>1, RequestsShift DEF PipelineInv, RequestInv, Done
<1>6. CommittedEventsHaveRows'
  BY <1>1 DEF PipelineInv, CommittedEventsHaveRows, Stored
<1> QED
  BY <1>2, <1>3, <1>4, <1>5, <1>6 DEF PipelineInv

(* FailSource: no element and no batch is live any more, so only the       *)
(* requests already sent can still be handled.                             *)
LEMMA FailSourceKeeps ==
  ASSUME TypeInv, PipelineInv, FailSource
  PROVE  PipelineInv'
<1>1. /\ source' = "down"
      /\ UNCHANGED <<log, committed, requests, rows>>
  BY DEF FailSource
<1>2. /\ ~LiveBatch'
      /\ batch'.size = 0 => batch' = EmptyBatch
  <2>1. CASE batch.size > 0
    <3>1. batch' = [batch EXCEPT !.live = FALSE]
      BY <2>1 DEF FailSource
    <3>2. batch'.size = batch.size /\ batch'.live = FALSE
      BY <3>1 DEF TypeInv, TypeOK
    <3> QED
      BY <2>1, <3>2, Typing DEF LiveBatch
  <2>2. CASE ~(batch.size > 0)
    <3>1. batch' = batch
      BY <2>2 DEF FailSource
    <3> QED
      BY <2>2, <3>1, Typing
         DEF LiveBatch, PipelineInv, BatchInv, EmptyBatch, NoOffsets
  <2> QED
    BY <2>1, <2>2
<1>3. /\ DOMAIN inFlight' = DOMAIN inFlight
      /\ \A j \in DOMAIN inFlight :
           /\ inFlight'[j].part = inFlight[j].part
           /\ inFlight'[j].off = inFlight[j].off
           /\ inFlight'[j].saved = inFlight[j].saved
           /\ ~inFlight'[j].live
  BY FailSourceDisowns DEF TypeInv
<1>4. ElementInv' /\ OrderInv' /\ NoneSkippedInv'
  BY <1>1, <1>3 DEF PipelineInv, ElementInv, OrderInv, NoneSkippedInv,
                    EventOf, Stored
<1>5. BatchInv' /\ PositionInv' /\ NothingReadIsForgotten'
  BY <1>1, <1>2 DEF BatchInv, PositionInv, NothingReadIsForgotten, EmptyBatch
<1>6. RequestInv' /\ CommittedEventsHaveRows'
  BY <1>1 DEF PipelineInv, RequestInv, CommittedEventsHaveRows, Done,
              NotBefore, Stored
<1> QED
  BY <1>4, <1>5, <1>6 DEF PipelineInv

(* FailStream: the pipeline is empty again.                                *)
LEMMA FailStreamKeeps ==
  ASSUME TypeInv, PipelineInv, FailStream
  PROVE  PipelineInv'
<1>1. /\ source' = "down" /\ DOMAIN inFlight' = {}
      /\ batch' = EmptyBatch /\ ~LiveBatch'
      /\ UNCHANGED <<log, committed, requests, rows>>
  BY DEF FailStream, LiveBatch, EmptyBatch
<1>2. ElementInv' /\ OrderInv' /\ NoneSkippedInv'
  BY <1>1 DEF ElementInv, OrderInv, NoneSkippedInv
<1>3. BatchInv' /\ PositionInv' /\ NothingReadIsForgotten'
  BY <1>1 DEF BatchInv, PositionInv, NothingReadIsForgotten, EmptyBatch
<1>4. RequestInv' /\ CommittedEventsHaveRows'
  BY <1>1 DEF PipelineInv, RequestInv, CommittedEventsHaveRows, Done,
              NotBefore, Stored
<1> QED
  BY <1>2, <1>3, <1>4 DEF PipelineInv

(* Every step keeps the invariant.                                         *)
LEMMA PipelineNext ==
  ASSUME TypeInv, PipelineInv, [Next]_vars
  PROVE  PipelineInv'
<1>1. ASSUME NEW p \in Partition, NEW r \in Record, Publish(p, r)
      PROVE  PipelineInv'
  <2>1. \A q \in Partition :
           /\ Len(log[q]) \in Nat /\ Len(log'[q]) \in Nat
           /\ Len(log[q]) <= Len(log'[q])
           /\ \A k \in 1..Len(log[q]) : log'[q][k] = log[q][k]
    BY <1>1, LogGrows, Typing DEF TypeInv
  <2> QED
    BY <1>1, <2>1, CalmStep DEF Publish
<1>2. CASE Initialize
  BY <1>2, CalmStep, Typing DEF Initialize
<1>3. CASE StartSource
  BY <1>3, StartKeeps
<1>4. ASSUME NEW p \in Partition, Fetch(p)
      PROVE  PipelineInv'
  BY <1>4, FetchKeeps
<1>5. ASSUME NEW i \in DOMAIN inFlight, NEW acknowledged \in BOOLEAN,
             Save(i, acknowledged)
      PROVE  PipelineInv'
  <2>1. rows' = SaveOrUpdate(rows, log[inFlight[i].part][inFlight[i].off])
    BY <1>5 DEF Save, EventOf
  <2>2. /\ HasRow(rows', log[inFlight[i].part][inFlight[i].off])
        /\ \A e : HasRow(rows, e) => HasRow(rows', e)
    BY <2>1, RowsStay, SavedHasRow
  <2>3. UNCHANGED <<log, committed, requests, source, position, batch>>
    BY <1>5 DEF Save
  <2>4. /\ DOMAIN inFlight' = DOMAIN inFlight
        /\ \A j \in DOMAIN inFlight :
             /\ inFlight'[j].part = inFlight[j].part
             /\ inFlight'[j].off = inFlight[j].off
             /\ inFlight'[j].live = inFlight[j].live
             /\ j # i => inFlight'[j].saved = inFlight[j].saved
    BY <1>5, SaveMarksOne DEF TypeInv
  <2>5. ASSUME NEW j \in DOMAIN inFlight, inFlight'[j].saved
        PROVE  \/ inFlight[j].saved
               \/ HasRow(rows', log[inFlight[j].part][inFlight[j].off])
    BY <2>2, <2>4, <2>5
  <2>6. \A p \in Partition :
           /\ Len(log[p]) \in Nat /\ Len(log'[p]) \in Nat
           /\ Len(log[p]) <= Len(log'[p])
           /\ \A k \in 1..Len(log[p]) : log'[p][k] = log[p][k]
    BY <2>3, Typing
  <2> QED
    BY <2>2, <2>3, <2>4, <2>5, <2>6, CalmStep
<1>6. CASE Emit
  BY <1>6, EmitKeeps
<1>7. CASE CommitBatch
  BY <1>7, CommitBatchKeeps
<1>8. CASE KafkaCommits
  BY <1>8, KafkaCommitsKeeps
<1>9. CASE LoseCommit
  BY <1>9, LoseCommitKeeps
<1>10. CASE FailSource
  BY <1>10, FailSourceKeeps
<1>11. CASE FailStream
  BY <1>11, FailStreamKeeps
<1>12. CASE UNCHANGED vars
  BY <1>12, CalmStep, Typing DEF vars
<1> QED
  BY <1>1, <1>2, <1>3, <1>4, <1>5, <1>6, <1>7, <1>8, <1>9, <1>10, <1>11,
     <1>12 DEF Next

(* The inductive invariant of the pipeline holds in every behaviour.       *)
THEOREM PipelineCorrect == Spec => []PipelineInv
<1>1. TypeInv /\ PipelineInv /\ [Next]_vars => PipelineInv'
  BY PipelineNext
<1> QED
  BY <1>1, PipelineInit, TypeCorrect, PTL DEF Spec

(* At-least-once: an event whose offset is committed has its row.          *)
THEOREM AtLeastOnce == Spec => []CommittedEventsHaveRows
<1>1. PipelineInv => CommittedEventsHaveRows
  BY DEF PipelineInv
<1> QED
  BY <1>1, PipelineCorrect, PTL

(* Only Kafka's handling of a commit changes the committed offsets.        *)
LEMMA CommittedMoves ==
  ASSUME TypeInv, [Next]_vars
  PROVE  committed' = committed \/ KafkaCommits
  BY DEF Next, vars, Publish, Initialize, StartSource, Fetch, Save, Emit,
         CommitBatch, LoseCommit, FailSource, FailStream

(* The offset the group resumes from never moves back.                     *)
THEOREM NoCommitRegresses == Spec => CommitsNeverRegress
<1>1. TypeInv /\ PipelineInv /\ [Next]_vars
        => [\A p \in Partition : committed'[p] >= committed[p]]_vars
  <2> SUFFICES ASSUME TypeInv, PipelineInv, [Next]_vars
               PROVE  \A p \in Partition : committed'[p] >= committed[p]
    OBVIOUS
  <2>1. CASE committed' = committed
    BY <2>1, Typing
  <2>2. CASE KafkaCommits
    <3>1. committed' \in Offsets
      BY TypeNext DEF TypeInv, TypeOK
    <3> QED
      BY <2>2, <3>1, KafkaCommitsKeeps, Typing DEF Offsets
  <2> QED
    BY <2>1, <2>2, CommittedMoves
<1> QED
  BY <1>1, TypeCorrect, PipelineCorrect, PTL DEF Spec, CommitsNeverRegress

-----------------------------------------------------------------------------
(* The archive's names for events and rows are those of the worker.        *)
LEMMA SameTable ==
  /\ Archive!Event = Event
  /\ \A R, e : Archive!SaveOrUpdate(R, e) = SaveOrUpdate(R, e)
  /\ \A R, e : Archive!HasRow(R, e) = HasRow(R, e)
  BY DEF Archive!Event, Event, Archive!SaveOrUpdate, SaveOrUpdate,
         Archive!HasRow, HasRow, Archive!RowKey, RowKey, Archive!EventDate,
         EventDate

(* Every step of the worker is a step of the archive, or none.             *)
LEMMA StepOfArchive ==
  ASSUME TypeInv, PipelineInv, [Next]_vars
  PROVE  [Archive!Next]_(Archive!vars)
<1>1. ASSUME NEW p \in Partition, NEW r \in Record, Publish(p, r)
      PROVE  Archive!Next
  <2>1. Archive!Publish(p, r)
    BY <1>1 DEF Publish, Archive!Publish
  <2> QED
    BY <2>1, SameTable DEF Archive!Next, Record
<1>2. ASSUME NEW i \in DOMAIN inFlight, NEW acknowledged \in BOOLEAN,
             Save(i, acknowledged)
      PROVE  Archive!Next
  <2>1. /\ inFlight[i].part \in Partition
        /\ inFlight[i].off \in DOMAIN log[inFlight[i].part]
        /\ log[inFlight[i].part][inFlight[i].off] \in Event
    BY Typing DEF PipelineInv, ElementInv, EventOf, TypeInv, TypeOK
  <2>2. Archive!StoreRecord(inFlight[i].part, inFlight[i].off)
    BY <1>2, <2>1, SameTable DEF Save, EventOf, Archive!StoreRecord
  <2> QED
    BY <2>1, <2>2 DEF Archive!Next
<1>3. CASE KafkaCommits
  <2>1. committed' \in Offsets /\ CommittedEventsHaveRows'
    BY <1>3, TypeNext, KafkaCommitsKeeps DEF TypeInv, TypeOK, PipelineInv
  <2>2. UNCHANGED <<log, rows>>
    BY <1>3 DEF KafkaCommits
  <2>3. \A p \in Partition :
           /\ committed[p] <= committed'[p]
           /\ committed'[p] <= Len(log[p])
           /\ \A k \in 1..committed'[p] :
                log[p][k] \in Event => HasRow(rows, log[p][k])
    BY <1>3, <2>1, <2>2, KafkaCommitsKeeps
       DEF CommittedEventsHaveRows, Stored
  <2>4. Archive!Commit
    BY <2>1, <2>2, <2>3, SameTable DEF Archive!Commit, Offsets
  <2> QED
    BY <2>4 DEF Archive!Next
<1>4. CASE UNCHANGED <<log, committed, rows>>
  BY <1>4 DEF Archive!vars
<1> QED
  BY <1>1, <1>2, <1>3, <1>4
     DEF Next, vars, Initialize, StartSource, Fetch, Emit, CommitBatch,
         LoseCommit, FailSource, FailStream

(* The worker implements its specification: Kafka's log and offsets and    *)
(* Cassandra's rows change only as EventsArchive allows.                   *)
THEOREM WorkerIsArchive == Spec => ImplementsArchive
<1>1. Init => Archive!Init
  BY DEF Init, Archive!Init, NoOffsets
<1>2. TypeInv /\ PipelineInv /\ [Next]_vars => [Archive!Next]_(Archive!vars)
  BY StepOfArchive
<1> QED
  BY <1>1, <1>2, TypeCorrect, PipelineCorrect, PTL
     DEF Spec, ImplementsArchive, Archive!Spec

-----------------------------------------------------------------------------
(* What a row shows: a published event, alone for its second.              *)
PublishedAt(e, q, j) == j \in 1..Len(log[q]) /\ log[q][j] = e
Published(e) == \E q \in Partition : \E j \in Nat : PublishedAt(e, q, j)

RowsArePublished == \A r \in rows : Published(r)
OneRowPerSecond == \A r, s \in rows : r.time = s.time => r = s

(* What is lost by the key of the table, and nothing else: the row of a    *)
(* committed event is the event, or another one of its second.             *)
LostOnlyToSameSecond ==
    \A p \in Partition : \A k \in 1..committed[p] :
       log[p][k] \in Event /\ log[p][k] \notin rows =>
          \E r \in rows : /\ Published(r)
                          /\ r # log[p][k]
                          /\ r.time = log[p][k].time

(* The key of a row is as good as its second.                              *)
LEMMA KeyIsSecond ==
  ASSUME NEW e, NEW d
  PROVE  RowKey(e) = RowKey(d) <=> e.time = d.time
BY DEF RowKey, EventDate

LEMMA RowsInit == Init => RowsArePublished /\ OneRowPerSecond
BY DEF Init, RowsArePublished, OneRowPerSecond

LEMMA RowsNext ==
  ASSUME TypeInv, RowsArePublished, OneRowPerSecond, [Next]_vars
  PROVE  RowsArePublished' /\ OneRowPerSecond'
<1>1. ASSUME NEW p \in Partition, NEW r \in Record, Publish(p, r)
      PROVE  RowsArePublished' /\ OneRowPerSecond'
  <2>1. rows' = rows
    BY <1>1 DEF Publish
  <2>2. ASSUME NEW e \in rows
        PROVE  Published(e)'
    <3>1. PICK q \in Partition, j \in Nat : PublishedAt(e, q, j)
      BY DEF RowsArePublished, Published
    <3>2. /\ Len(log[q]) \in Nat /\ Len(log'[q]) \in Nat
          /\ Len(log[q]) <= Len(log'[q]) /\ log'[q][j] = log[q][j]
      BY <1>1, <3>1, LogGrows DEF TypeInv, PublishedAt
    <3>3. j \in 1..Len(log'[q]) /\ log'[q][j] = e
      BY <3>1, <3>2 DEF PublishedAt
    <3> QED
      BY <3>3 DEF Published, PublishedAt
  <2> QED
    BY <2>1, <2>2 DEF RowsArePublished, OneRowPerSecond
<1>2. ASSUME NEW i \in DOMAIN inFlight, NEW acknowledged \in BOOLEAN,
             Save(i, acknowledged)
      PROVE  RowsArePublished' /\ OneRowPerSecond'
  <2> DEFINE e == EventOf(inFlight[i])
  <2>1. log' = log /\ rows' = SaveOrUpdate(rows, e)
    BY <1>2 DEF Save
  <2>2. Published(e)
    BY Typing DEF TypeInv, ElementsAreEvents, EventOf, Published, PublishedAt
  <2>3. \A r \in rows' : r = e \/ (r \in rows /\ r.time # e.time)
    BY <2>1, KeyIsSecond DEF SaveOrUpdate
  <2>4. RowsArePublished'
    BY <2>1, <2>2, <2>3 DEF RowsArePublished, Published, PublishedAt
  <2>5. OneRowPerSecond'
    BY <2>3 DEF OneRowPerSecond
  <2> QED
    BY <2>4, <2>5
<1>3. CASE UNCHANGED <<log, rows>>
  BY <1>3 DEF RowsArePublished, OneRowPerSecond, Published, PublishedAt
<1> QED
  BY <1>1, <1>2, <1>3
     DEF Next, vars, Initialize, StartSource, Fetch, Emit, CommitBatch,
         KafkaCommits, LoseCommit, FailSource, FailStream

(* The table of EventsRepository never shows what was not published, and   *)
(* never two events of a second.                                           *)
THEOREM RowsAreRight == Spec => [](RowsArePublished /\ OneRowPerSecond)
<1>1. TypeInv /\ RowsArePublished /\ OneRowPerSecond /\ [Next]_vars
        => RowsArePublished' /\ OneRowPerSecond'
  BY RowsNext
<1> QED
  BY <1>1, RowsInit, TypeCorrect, PTL DEF Spec

(* A committed event that is not in the table has lost its row to another  *)
(* published event of the same second: failures, lost commits and the      *)
(* order of the saves lose none.                                           *)
THEOREM OnlyTheSecondLoses == Spec => []LostOnlyToSameSecond
<1>1. CommittedEventsHaveRows /\ RowsArePublished => LostOnlyToSameSecond
  BY KeyIsSecond
     DEF CommittedEventsHaveRows, Stored, HasRow, RowsArePublished,
         LostOnlyToSameSecond
<1> QED
  BY <1>1, AtLeastOnce, RowsAreRight, PTL

(* If no two events have the same second, as the report takes for granted, *)
(* every committed event is itself in the table.                           *)
THEOREM DistinctSecondsAreKept ==
  ASSUME \A e, d \in Event : e.time = d.time => e = d
  PROVE  Spec => []CommittedEventsAreKept
<1>1. TypeInv /\ LostOnlyToSameSecond => CommittedEventsAreKept
  <2> SUFFICES ASSUME TypeInv, LostOnlyToSameSecond,
                      NEW p \in Partition, NEW k \in 1..committed[p],
                      log[p][k] \in Event, log[p][k] \notin rows
               PROVE  FALSE
    BY DEF CommittedEventsAreKept
  <2>1. PICK r \in rows : r # log[p][k] /\ r.time = log[p][k].time
    BY DEF LostOnlyToSameSecond
  <2>2. r \in Event
    BY DEF TypeInv, TypeOK
  <2> QED
    BY <2>1, <2>2
<1> QED
  BY <1>1, OnlyTheSecondLoses, TypeCorrect, PTL

-----------------------------------------------------------------------------
(* Why a pipeline that saves several elements at once, in any order, and   *)
(* again after each failure, may write to this table: a save repeated at   *)
(* once changes nothing, and saves of different seconds may be exchanged.  *)
THEOREM SavesRepeatAndCommute ==
  ASSUME NEW R, NEW e, NEW d
  PROVE  /\ SaveOrUpdate(SaveOrUpdate(R, e), e) = SaveOrUpdate(R, e)
         /\ RowKey(e) # RowKey(d) =>
               SaveOrUpdate(SaveOrUpdate(R, e), d)
                  = SaveOrUpdate(SaveOrUpdate(R, d), e)
<1>1. SaveOrUpdate(SaveOrUpdate(R, e), e) = SaveOrUpdate(R, e)
  BY DEF SaveOrUpdate
<1>2. ASSUME RowKey(e) # RowKey(d)
      PROVE  SaveOrUpdate(SaveOrUpdate(R, e), d)
                = SaveOrUpdate(SaveOrUpdate(R, d), e)
  BY <1>2 DEF SaveOrUpdate
<1> QED
  BY <1>1, <1>2
=============================================================================
