---------------------------- MODULE EngineProofs ----------------------------
(***************************************************************************)
(* What a run of the linter reports, proved for every input.               *)
(*                                                                         *)
(* The argument: the index maps a topic only to a table that is on it      *)
(* (IndexAgrees); resolve keeps every read equal to what field says of it  *)
(* (ReadsAgree), reads a sink table from one table under one shape         *)
(* (OneFeeder) and records as orphans the sink tables whose topic is       *)
(* nobody's (OrphansAgree).  Once the rules run, reads and orphans no      *)
(* longer change, so each rule already applied still holds exactly what it *)
(* found (RulesAgree).  The properties are consequences at "done".         *)
(*                                                                         *)
(* The properties that ask whether a sink table was read at all need one   *)
(* more account: every sink table already passed that names a topic of the *)
(* index has a read for each of its columns that field does not skip       *)
(* (ReadsCover).                                                           *)
(***************************************************************************)
EXTENDS Engine, ListLemmas

(***************************************************************************)
(* A read says of its column what field says of it.                        *)
(***************************************************************************)
ReadAgrees(r) ==
  LET field == Field(r.shape, in.columns[r.table], r.column)
  IN  /\ ~field.skip
      /\ r.field = field.col
      /\ r.unreached = field.unreached

ReadsAgree == \A r \in reads : ReadAgrees(r)

(***************************************************************************)
(* A rule already applied holds what it finds in the present state; the    *)
(* columns raised are the diff rule's.                                     *)
(***************************************************************************)
RulesAgree ==
  /\ pc \in {"rules", "done"} =>
       /\ k <= Len(RunOrder) + 1
       /\ \A i \in 1 .. k - 1 : findings[RunOrder[i]] = Found(RunOrder[i])
       /\ k > 6 => raised = SchemaBeforeConnector
  /\ pc = "done" => k = Len(RunOrder) + 1

(***************************************************************************)
(* The index maps a topic only to a table that is on it, and once it is    *)
(* complete every topic of the source is in it.                            *)
(***************************************************************************)
IndexAgrees ==
  /\ \A tp \in DOMAIN byTopic : Topic(Connector, byTopic[tp]) = tp
  /\ pc = "index" =>
       /\ k <= Len(in.source) + 1
       /\ \A i \in 1 .. k - 1 : Topic(Connector, in.source[i]) \in DOMAIN byTopic
  /\ pc # "index" => DOMAIN byTopic = Topics

Unproduced(i) ==
  /\ in.sinks[i].topic # NoName
  /\ \A t \in Source : Topic(Connector, t) # in.sinks[i].topic

OrphansAgree ==
  /\ pc = "index" => orphans = {}
  /\ pc = "resolve" =>
       /\ k <= Len(in.sinks) + 1
       /\ orphans = {i \in 1 .. k - 1 : Unproduced(i)}
  /\ pc \in {"rules", "done"} =>
       orphans = {i \in DOMAIN in.sinks : Unproduced(i)}

(***************************************************************************)
(* All reads of a sink table are of one source table under one shape: a    *)
(* sink table is resolved once.                                            *)
(***************************************************************************)
OneFeeder ==
  /\ pc = "index" => reads = {}
  /\ pc = "resolve" => \A r \in reads : r.sink < k
  /\ \A x, y \in reads :
       x.sink = y.sink => x.table = y.table /\ x.shape = y.shape

(***************************************************************************)
(* The inductive invariant.                                                *)
(***************************************************************************)
IInv ==
  /\ TypeOK
  /\ OneFeeder
  /\ IndexAgrees
  /\ OrphansAgree
  /\ ReadsAgree
  /\ EveryReadIsFed
  /\ RulesAgree

-----------------------------------------------------------------------------

(***************************************************************************)
(* The elements of a sequence over S are in S.                             *)
(***************************************************************************)
LEMMA ToSetInSet ==
  ASSUME NEW S, NEW s \in Seq(S)
  PROVE ToSet(s) \subseteq S
BY DEF ToSet

(***************************************************************************)
(* field answers with a column name or NoColumn, under every shape.        *)
(***************************************************************************)
LEMMA FieldType ==
  ASSUME NEW shape, NEW cols, NEW n \in SinkNames
  PROVE  Field(shape, cols, n) \in
           [col : Columns \cup {NoColumn}, unreached : BOOLEAN, skip : BOOLEAN]
<1>1. n.name \in Columns /\ ColumnNamed(n) \in Columns \cup {NoColumn}
  BY DEF SinkNames, ColumnNamed
<1> QED
  BY <1>1 DEF Field

(***************************************************************************)
(* The types of the parts of a well-typed input.                           *)
(***************************************************************************)
LEMMA InputFields ==
  ASSUME in \in InputType
  PROVE  /\ in.source \in Seq(Tables)
         /\ in.columns \in [Tables -> SUBSET Columns]
         /\ in.sinks \in Seq(SinkTables)
         /\ in.mappers \in Seq(Mappers)
         /\ Source \subseteq Tables
<1>1. /\ in.source \in Seq(Tables)
      /\ in.columns \in [Tables -> SUBSET Columns]
      /\ in.sinks \in Seq(SinkTables)
      /\ in.mappers \in Seq(Mappers)
  BY DEF InputType
<1> QED
  BY <1>1, ToSetInSet DEF Source

(***************************************************************************)
(* Reading sink table k from a source table keeps the reads typed and in   *)
(* agreement with field, whichever way the table was resolved.             *)
(***************************************************************************)
LEMMA ReadFromAgrees ==
  ASSUME in \in InputType, reads \in SUBSET ReadType, ReadsAgree,
         EveryReadIsFed, k \in DOMAIN in.sinks, UNCHANGED in,
         NEW t \in Source, NEW topic, topic = Topic(Connector, t),
         NEW mapping \in {"topic", "connector", "table-name"},
         NEW m \in 0 .. Len(in.mappers),
         mapping = "topic" => in.sinks[k].topic = topic,
         mapping = "connector" => MappedBy(m, topic, in.sinks[k]),
         mapping = "table-name" => Guessed(t, in.sinks[k]),
         ReadFrom(t, mapping, topic, m)
  PROVE  (reads \in SUBSET ReadType)' /\ ReadsAgree' /\ EveryReadIsFed'
<1>1. in.sinks[k].columns \in Seq(SinkNames)
  <2>1. in.sinks \in Seq(SinkTables)
    BY InputFields
  <2>2. in.sinks[k] \in SinkTables
    BY <2>1
  <2> QED
    BY <2>2 DEF SinkTables
<1> DEFINE received == {n \in ToSet(in.sinks[k].columns) :
                          ~Field(ShapeUnder(m), in.columns[t], n).skip}
<1>2. received \subseteq SinkNames
  BY <1>1, ToSetInSet
<1>3. reads' = reads \cup {Read(k, n, t, mapping, topic, m) : n \in received}
  BY DEF ReadFrom
<1>4. \A n \in received :
        Read(k, n, t, mapping, topic, m) \in ReadType /\ ReadAgrees(Read(k, n, t, mapping, topic, m))
  <2> SUFFICES ASSUME NEW n \in received
      PROVE Read(k, n, t, mapping, topic, m) \in ReadType /\ ReadAgrees(Read(k, n, t, mapping, topic, m))
    OBVIOUS
  <2>1. n \in SinkNames /\ ~Field(ShapeUnder(m), in.columns[t], n).skip
    BY <1>2
  <2>2. Field(ShapeUnder(m), in.columns[t], n) \in
          [col : Columns \cup {NoColumn}, unreached : BOOLEAN, skip : BOOLEAN]
    BY <2>1, FieldType
  <2>3. topic \in Topics /\ ShapeUnder(m) \in {ShapeUnder(x) : x \in 0 .. Len(in.mappers)}
    BY DEF Topics
  <2> HIDE DEF received
  <2>4. Read(k, n, t, mapping, topic, m) \in ReadType
    BY <2>1, <2>2, <2>3 DEF Read, ReadType
  <2>5. ReadAgrees(Read(k, n, t, mapping, topic, m))
    BY <2>1 DEF Read, ReadAgrees
  <2> QED
    BY <2>4, <2>5
<1>5. (ReadType)' = ReadType /\ \A r : ReadAgrees(r)' <=> ReadAgrees(r)
  BY DEF ReadType, Topics, Source, Connector, ShapeUnder, ReadAgrees
<1>6. (reads \in SUBSET ReadType)' /\ ReadsAgree'
  BY <1>3, <1>4, <1>5 DEF ReadsAgree
<1> DEFINE Fed(r) ==
      /\ r.table \in Source
      /\ Topic(Connector, r.table) = r.topic
      /\ r.mapping = "topic" => in.sinks[r.sink].topic = r.topic
      /\ r.mapping = "connector" => MappedBy(r.mapper, r.topic, in.sinks[r.sink])
      /\ r.mapping = "table-name" => Guessed(r.table, in.sinks[r.sink])
<1>7. \A n \in received : Fed(Read(k, n, t, mapping, topic, m))
  BY DEF Read
<1>8. \A r \in reads : Fed(r)
  BY DEF EveryReadIsFed
<1>9. \A r : Fed(r)' <=> Fed(r)
  BY DEF Source, Connector, MappedBy, Guessed, Namesakes
<1>10. EveryReadIsFed'
  <2> HIDE DEF Fed, received
  <2>1. (\A r \in reads : Fed(r))'
    BY <1>3, <1>7, <1>8, <1>9
  <2> QED
    BY <2>1 DEF Fed, EveryReadIsFed
<1> QED
  BY <1>6, <1>10

(***************************************************************************)
(* A run that has only started has made no read, orphan or finding.        *)
(***************************************************************************)
LEMMA StartedIInv == in \in InputType /\ Started => IInv
<1> SUFFICES ASSUME in \in InputType, Started PROVE IInv
  OBVIOUS
<1>1. TypeOK
  BY DEF Started, TypeOK
<1>2. ReadsAgree /\ RulesAgree /\ OrphansAgree /\ EveryReadIsFed /\ OneFeeder
  BY DEF Started, ReadsAgree, RulesAgree, OrphansAgree, EveryReadIsFed, OneFeeder
<1>3. IndexAgrees
  <2>1. in.source \in Seq(Tables)
    BY InputFields
  <2> QED
    BY <2>1 DEF Started, IndexAgrees
<1> QED
  BY <1>1, <1>2, <1>3 DEF IInv

LEMMA InitIInv == Init => IInv
BY StartedIInv, EngineAssumption DEF Init

(***************************************************************************)
(* Indexing adds a table under its own topic, and ends with every topic of *)
(* the source in the index.                                                *)
(***************************************************************************)
LEMMA IndexStep ==
  ASSUME IInv, IndexTopic \/ IndexDone
  PROVE  IInv'
<1> USE DEF IInv
<1>1. UNCHANGED <<in, reads, orphans, raised, findings>>
  BY DEF IndexTopic, IndexDone
<1>2. /\ pc = "index"
      /\ pc' \in {"index", "resolve"}
      /\ k' \in Nat \ {0}
  BY DEF IndexTopic, IndexDone, TypeOK
<1>3. (/\ DOMAIN byTopic \subseteq Topics
       /\ \A tp \in DOMAIN byTopic : byTopic[tp] \in Source)'
  <2>1. Topics' = Topics /\ Source' = Source
    BY <1>1 DEF Topics, Source, Connector
  <2>2. CASE IndexTopic
    <3> DEFINE t == in.source[k]
               topic == Topic(Connector, t)
    <3>1. in.source \in Seq(Tables)
      BY InputFields DEF TypeOK
    <3>2. t \in Source
      BY <2>2, <3>1 DEF IndexTopic, TypeOK, Source, ToSet
    <3>3. byTopic' = [tp \in DOMAIN byTopic \cup {topic} |->
                        IF tp = topic THEN t ELSE byTopic[tp]]
      BY <2>2 DEF IndexTopic
    <3>4. topic \in Topics
      BY <3>2 DEF Topics
    <3> HIDE DEF t, topic
    <3> QED
      BY <2>1, <3>2, <3>3, <3>4 DEF TypeOK
  <2>3. CASE IndexDone
    BY <2>1, <2>3 DEF IndexDone, TypeOK
  <2> QED
    BY <2>2, <2>3
<1>4. (ReadType)' = ReadType /\ (SourceColumns)' = SourceColumns
  BY <1>1 DEF ReadType, Topics, Source, Connector, ShapeUnder, SourceColumns
<1>5. TypeOK'
  BY <1>1, <1>2, <1>3, <1>4 DEF TypeOK
<1>6. ReadsAgree'
  BY <1>1 DEF ReadsAgree, ReadAgrees
<1>7. RulesAgree'
  BY <1>2 DEF RulesAgree
<1>8. OrphansAgree'
  <2>1. in.sinks \in Seq(SinkTables)
    BY InputFields DEF TypeOK
  <2> QED
    BY <1>1, <1>2, <2>1 DEF OrphansAgree, IndexTopic, IndexDone
<1>9. EveryReadIsFed'
  BY <1>1 DEF EveryReadIsFed, Source, Connector, MappedBy, Guessed, Namesakes
<1>10. IndexAgrees'
  <2>1. in.source \in Seq(Tables)
    BY InputFields DEF TypeOK
  <2>2. CASE IndexTopic
    <3>1. pc' = "index" /\ k \in Nat \ {0} /\ k <= Len(in.source) /\ k' = k + 1
      BY <1>2, <2>2 DEF IndexTopic, TypeOK
    <3>2. Connector' = Connector
      BY <1>1 DEF Connector
    <3> QED
      BY <1>1, <1>2, <2>1, <2>2, <3>1, <3>2 DEF IndexTopic, IndexAgrees
  <2>3. CASE IndexDone
    <3>1. k = Len(in.source) + 1 /\ pc' = "resolve" /\ byTopic' = byTopic
      BY <1>2, <2>1, <2>3 DEF IndexDone, IndexAgrees, TypeOK
    <3>2. Topics \subseteq DOMAIN byTopic
      BY <1>2, <2>1, <3>1 DEF IndexAgrees, Topics, Source, ToSet
    <3>3. DOMAIN byTopic = Topics
      BY <3>2 DEF TypeOK
    <3>4. Topics' = Topics /\ Connector' = Connector
      BY <1>1 DEF Topics, Source, Connector
    <3> QED
      BY <3>1, <3>3, <3>4 DEF IndexAgrees
  <2> QED
    BY <2>2, <2>3
<1>11. OneFeeder'
  BY <1>1, <1>2 DEF OneFeeder
<1> QED
  BY <1>5, <1>6, <1>7, <1>8, <1>9, <1>10, <1>11

(***************************************************************************)
(* Each way of resolving sink table k either reads it from a source table  *)
(* that is on the topic named, or reads nothing.                           *)
(***************************************************************************)
LEMMA ResolveReads ==
  ASSUME IInv, ResolveByTopic \/ ResolveByConnector \/ ResolveByName
  PROVE  (reads \in SUBSET ReadType)' /\ ReadsAgree' /\ EveryReadIsFed'
<1> USE DEF IInv
<1>1. /\ in \in InputType
      /\ reads \in SUBSET ReadType
      /\ in.sinks \in Seq(SinkTables)
      /\ in.mappers \in Seq(Mappers)
      /\ in.source \in Seq(Tables)
  BY InputFields DEF TypeOK
<1>2. k \in DOMAIN in.sinks /\ UNCHANGED in
  BY <1>1 DEF TypeOK, ResolveByTopic, ResolveByConnector, ResolveByName, Resolving
<1>3. 0 \in 0 .. Len(in.mappers)
  BY <1>1
<1>4. CASE ResolveByTopic
  <2> DEFINE topic == in.sinks[k].topic
  <2>1. topic \in DOMAIN byTopic /\ ReadFrom(byTopic[topic], "topic", topic, 0)
    BY <1>4 DEF ResolveByTopic
  <2>2. PICK tp : tp = topic
    OBVIOUS
  <2>3. PICK t : t = byTopic[tp]
    OBVIOUS
  <2>4. t \in Source /\ Topic(Connector, t) = tp
    BY <2>1, <2>2, <2>3 DEF TypeOK, IndexAgrees
  <2> QED
    BY <1>1, <1>2, <1>3, <2>1, <2>2, <2>3, <2>4, ReadFromAgrees
<1>5. CASE ResolveByConnector
  <2>1. PICK m \in DOMAIN in.mappers, tp \in DOMAIN byTopic :
          /\ MappedBy(m, tp, in.sinks[k])
          /\ ReadFrom(byTopic[tp], "connector", tp, m)
    BY <1>5 DEF ResolveByConnector
  <2>2. PICK t : t = byTopic[tp]
    OBVIOUS
  <2>3. t \in Source /\ Topic(Connector, t) = tp
    BY <2>1, <2>2 DEF TypeOK, IndexAgrees
  <2>4. m \in 0 .. Len(in.mappers)
    BY <1>1, <2>1
  <2> QED
    BY <1>1, <1>2, <2>1, <2>2, <2>3, <2>4, ReadFromAgrees
<1>6. CASE ResolveByName
  <2>1. PICK i \in Namesakes(in.sinks[k]) :
          /\ i = Min(Namesakes(in.sinks[k]))
          /\ ReadFrom(in.source[i], "table-name", Topic(Connector, in.source[i]), 0)
    BY <1>6 DEF ResolveByName
  <2>2. in.source[i] \in Source
    BY <1>1, <2>1 DEF Namesakes, Source, ToSet
  <2>3. PICK t : t = in.source[i]
    OBVIOUS
  <2>4. PICK tp : tp = Topic(Connector, t)
    OBVIOUS
  <2>5. Guessed(t, in.sinks[k])
    <3>1. pc = "resolve" /\ Unmapped(in.sinks[k])
      BY <1>6 DEF ResolveByName, Resolving
    <3>2. \A fed \in Source : Topic(Connector, fed) \in DOMAIN byTopic
      BY <3>1 DEF IndexAgrees, Topics
    <3>3. Namesakes(in.sinks[k]) \in SUBSET Nat
      BY <1>1 DEF Namesakes
    <3>4. \A j \in Namesakes(in.sinks[k]) : i <= j
      BY <2>1, <3>3, MinExists
    <3> QED
      BY <2>1, <2>3, <3>1, <3>2, <3>4 DEF Guessed, Unmapped
  <2> QED
    BY <1>1, <1>2, <1>3, <2>1, <2>2, <2>3, <2>4, <2>5, ReadFromAgrees
<1> QED
  BY <1>4, <1>5, <1>6

(***************************************************************************)
(* Sink table k had no read before it is resolved, so all its reads are of *)
(* the one table it is resolved to.                                        *)
(***************************************************************************)
LEMMA ReadFromOneFeeder ==
  ASSUME IInv, pc = "resolve", pc' = "resolve", k' = k + 1,
         NEW STATE t, NEW mapping, NEW STATE topic, NEW m,
         ReadFrom(t, mapping, topic, m)
  PROVE  OneFeeder'
<1>1. k \in Nat /\ \A r \in reads : r.sink \in Nat /\ r.sink < k
  <2>1. in.sinks \in Seq(SinkTables)
    BY InputFields DEF IInv, TypeOK
  <2> QED
    BY <2>1 DEF IInv, TypeOK, OneFeeder, ReadType
<1>2. \A r \in reads' : r \in reads \/ (/\ r.sink = k
                                        /\ r.table = t
                                        /\ r.shape = ShapeUnder(m))
  BY DEF ReadFrom, Read
<1>3. \A x, y \in reads : x.sink = y.sink => x.table = y.table /\ x.shape = y.shape
  BY DEF IInv, OneFeeder
<1>4. \A r \in reads' : r.sink \in Nat /\ r.sink < k + 1
  BY <1>1, <1>2
<1>5. \A x, y \in reads' : x.sink = y.sink => x.table = y.table /\ x.shape = y.shape
  BY <1>1, <1>2, <1>3
<1> QED
  BY <1>4, <1>5 DEF OneFeeder

(***************************************************************************)
(* Resolving sink table k records it as an orphan exactly when the topic   *)
(* it names is on no source table, and adds reads of one table at most.    *)
(***************************************************************************)
LEMMA ResolveStep ==
  ASSUME IInv,
         \/ ResolveByTopic \/ TopicUnproduced \/ ResolveByConnector
         \/ ResolveByName \/ ResolveNone
  PROVE  IInv'
<1> USE DEF IInv
<1>1. /\ pc = "resolve" /\ pc' = "resolve"
      /\ k \in Nat \ {0} /\ k <= Len(in.sinks) /\ k' = k + 1
      /\ UNCHANGED <<in, byTopic, raised, findings>>
  BY DEF ResolveByTopic, TopicUnproduced, ResolveByConnector, ResolveByName,
         ResolveNone, Resolving, TypeOK
<1>2. in.sinks \in Seq(SinkTables) /\ DOMAIN byTopic = Topics
  BY <1>1, InputFields DEF TypeOK, IndexAgrees
<1>3. /\ (ReadType)' = ReadType /\ Topics' = Topics /\ Source' = Source
      /\ (SourceColumns)' = SourceColumns /\ Connector' = Connector
  BY <1>1 DEF ReadType, Topics, Source, Connector, ShapeUnder, SourceColumns
<1>4. (reads \in SUBSET ReadType)' /\ ReadsAgree' /\ EveryReadIsFed'
  <2>1. CASE ResolveByTopic \/ ResolveByConnector \/ ResolveByName
    BY <2>1, ResolveReads
  <2>2. CASE TopicUnproduced \/ ResolveNone
    <3>1. UNCHANGED reads
      BY <2>2 DEF TopicUnproduced, ResolveNone
    <3> QED
      BY <1>1, <1>3, <3>1
      DEF TypeOK, ReadsAgree, ReadAgrees, EveryReadIsFed, MappedBy, Guessed,
          Namesakes
  <2> QED
    BY <2>1, <2>2
<1>5. orphans' = IF Unproduced(k) THEN orphans \cup {k} ELSE orphans
  <2>1. Unproduced(k) <=> in.sinks[k].topic # NoName
                          /\ in.sinks[k].topic \notin DOMAIN byTopic
    BY <1>2 DEF Unproduced, Topics
  <2>2. CASE TopicUnproduced
    BY <2>1, <2>2 DEF TopicUnproduced
  <2>3. CASE ResolveByTopic
    BY <2>1, <2>3 DEF ResolveByTopic
  <2>4. CASE ResolveByConnector \/ ResolveByName \/ ResolveNone
    BY <2>1, <2>4 DEF ResolveByConnector, ResolveByName, ResolveNone, Unmapped
  <2> QED
    BY <2>2, <2>3, <2>4
<1>6. \A i : Unproduced(i)' <=> Unproduced(i)
  BY <1>1, <1>3 DEF Unproduced
<1>7. OrphansAgree'
  <2>1. orphans = {i \in 1 .. k - 1 : Unproduced(i)}
    BY <1>1 DEF OrphansAgree
  <2>2. orphans' = {i \in 1 .. k : Unproduced(i)}
    BY <1>1, <1>5, <2>1
  <2>3. orphans' = {i \in 1 .. k' - 1 : Unproduced(i)'}
    BY <1>1, <1>6, <2>2
  <2> QED
    BY <1>1, <1>2, <2>3 DEF OrphansAgree
<1>8. TypeOK'
  <2>1. orphans' \in SUBSET DOMAIN in.sinks
    BY <1>1, <1>2, <1>5 DEF TypeOK
  <2> QED
    BY <1>1, <1>3, <1>4, <2>1 DEF TypeOK
<1>9. IndexAgrees'
  BY <1>1, <1>3 DEF IndexAgrees
<1>10. RulesAgree'
  BY <1>1 DEF RulesAgree
<1>11. OneFeeder'
  <2>1. CASE TopicUnproduced \/ ResolveNone
    <3>1. UNCHANGED reads /\ \A r \in reads : r.sink \in Nat
      BY <1>2, <2>1 DEF TopicUnproduced, ResolveNone, TypeOK, ReadType
    <3> QED
      BY <1>1, <3>1 DEF OneFeeder
  <2>2. CASE ResolveByTopic
    BY <1>1, <2>2, ReadFromOneFeeder DEF ResolveByTopic
  <2>3. CASE ResolveByConnector
    BY <1>1, <2>3, ReadFromOneFeeder DEF ResolveByConnector
  <2>4. CASE ResolveByName
    BY <1>1, <2>4, ReadFromOneFeeder DEF ResolveByName
  <2> QED
    BY <2>1, <2>2, <2>3, <2>4
<1> QED
  BY <1>4, <1>7, <1>8, <1>9, <1>10, <1>11

(***************************************************************************)
(* When every sink table is resolved the orphans are all there are.        *)
(***************************************************************************)
LEMMA ResolveDoneStep ==
  ASSUME IInv, ResolveDone
  PROVE  IInv'
<1> USE DEF IInv
<1>1. /\ pc = "resolve" /\ pc' = "rules" /\ k' = 1
      /\ k \in Nat /\ k > Len(in.sinks)
      /\ UNCHANGED <<in, byTopic, reads, orphans, raised, findings>>
  BY DEF ResolveDone, TypeOK
<1>2. /\ (ReadType)' = ReadType /\ Topics' = Topics /\ Source' = Source
      /\ (SourceColumns)' = SourceColumns /\ Connector' = Connector
  BY <1>1 DEF ReadType, Topics, Source, Connector, ShapeUnder, SourceColumns
<1>3. TypeOK'
  BY <1>1, <1>2 DEF TypeOK
<1>4. IndexAgrees' /\ ReadsAgree' /\ EveryReadIsFed' /\ RulesAgree'
  BY <1>1, <1>2
  DEF IndexAgrees, ReadsAgree, ReadAgrees, EveryReadIsFed, MappedBy, Guessed,
      Namesakes, RulesAgree, RunOrder
<1>5. OrphansAgree'
  <2>1. in.sinks \in Seq(SinkTables)
    BY InputFields DEF TypeOK
  <2>2. k - 1 = Len(in.sinks) /\ orphans = {i \in 1 .. k - 1 : Unproduced(i)}
    BY <1>1, <2>1 DEF OrphansAgree
  <2>3. orphans = {i \in DOMAIN in.sinks : Unproduced(i)}
    BY <2>1, <2>2
  <2>4. \A i : Unproduced(i)' <=> Unproduced(i)
    BY <1>1, <1>2 DEF Unproduced
  <2> QED
    BY <1>1, <2>3, <2>4 DEF OrphansAgree
<1>6. OneFeeder'
  BY <1>1 DEF OneFeeder
<1> QED
  BY <1>3, <1>4, <1>5, <1>6

(***************************************************************************)
(* A rule's finding depends on the input, the reads and the orphans, and   *)
(* the inventory's on what the diff rule raised besides.                   *)
(***************************************************************************)
LEMMA FoundStays ==
  ASSUME UNCHANGED <<in, reads, orphans>>
  PROVE  /\ SchemaBeforeConnector' = SchemaBeforeConnector
         /\ \A rule : rule # "source-column-not-captured" \/ UNCHANGED raised
                        => Found(rule)' = Found(rule)
<1>1. /\ Connector' = Connector /\ Source' = Source
      /\ (SourceColumns)' = SourceColumns /\ Declared' = Declared
      /\ \A tc : Captured(tc)' <=> Captured(tc)
  BY DEF Connector, Source, SourceColumns, Declared, Captured
<1>2. /\ TopicTableMapping' = TopicTableMapping
      /\ SinkTableNotCaptured' = SinkTableNotCaptured
      /\ SinkColumnNotCaptured' = SinkColumnNotCaptured
      /\ SinkColumnUnknown' = SinkColumnUnknown
      /\ SinkColumnFlattened' = SinkColumnFlattened
      /\ CapturedColumnMissing' = CapturedColumnMissing
      /\ CapturedTableMissing' = CapturedTableMissing
  BY <1>1
  DEF TopicTableMapping, SinkTableNotCaptured, SinkColumnNotCaptured,
      SinkColumnUnknown, SinkColumnFlattened, CapturedColumnMissing,
      CapturedTableMissing
<1>3. SchemaBeforeConnector' = SchemaBeforeConnector
  BY <1>1 DEF SchemaBeforeConnector, CapturedAt, BaseContract
<1>4. MVColumnMatch' = MVColumnMatch
  BY DEF MVColumnMatch, ViewProblems, TargetColumns, TargetsOf
<1>5. UNCHANGED raised => SourceColumnNotCaptured' = SourceColumnNotCaptured
  BY <1>1 DEF SourceColumnNotCaptured
<1> QED
  BY <1>2, <1>3, <1>4, <1>5 DEF Found

(***************************************************************************)
(* The diff rule raises columns of the source only.                        *)
(***************************************************************************)
LEMMA SchemaType == SchemaBeforeConnector \in SUBSET SourceColumns
BY DEF SchemaBeforeConnector

(***************************************************************************)
(* Every step of Run stores what the rule at k finds; only the sixth, the  *)
(* diff rule, changes the raised columns.                                  *)
(***************************************************************************)
LEMMA RuleAtK ==
  ASSUME TypeOK, StaticRule \/ DiffRule
  PROVE  /\ pc = "rules" /\ pc' = "rules" /\ k \in 1 .. Len(RunOrder) /\ k' = k + 1
         /\ findings' = [findings EXCEPT ![RunOrder[k]] = Found(RunOrder[k])]
         /\ IF k = 6 THEN raised' = SchemaBeforeConnector ELSE UNCHANGED raised
         /\ UNCHANGED <<in, byTopic, reads, orphans>>
<1>1. /\ pc = "rules" /\ pc' = "rules" /\ k \in 1 .. Len(RunOrder) /\ k' = k + 1
      /\ UNCHANGED <<in, byTopic, reads, orphans>>
  BY DEF StaticRule, DiffRule, Report, TypeOK
<1>2. CASE StaticRule
  <2>1. PICK rule \in Rules \ {"schema-before-connector"} : Report(rule, Found(rule))
    BY <1>2 DEF StaticRule
  <2>2. rule = RunOrder[k] /\ findings' = [findings EXCEPT ![rule] = Found(rule)]
    BY <2>1 DEF Report
  <2>3. k # 6
    BY <2>1, <2>2 DEF RunOrder
  <2>4. UNCHANGED raised
    BY <1>2 DEF StaticRule
  <2> QED
    BY <1>1, <2>2, <2>3, <2>4
<1>3. CASE DiffRule
  <2>1. /\ RunOrder[k] = "schema-before-connector"
        /\ findings' = [findings EXCEPT !["schema-before-connector"] = SchemaBeforeConnector]
        /\ raised' = SchemaBeforeConnector
    BY <1>3 DEF DiffRule, Report
  <2>2. k = 6
    BY <1>1, <2>1 DEF RunOrder
  <2>3. Found("schema-before-connector") = SchemaBeforeConnector
    BY DEF Found
  <2> QED
    BY <1>1, <2>1, <2>2, <2>3
<1> QED
  BY <1>2, <1>3

(***************************************************************************)
(* Applying a rule changes no input of the rules applied before it.        *)
(***************************************************************************)
LEMMA RulesStep ==
  ASSUME IInv, StaticRule \/ DiffRule
  PROVE  IInv'
<1> USE DEF IInv
<1>1. /\ pc = "rules" /\ pc' = "rules" /\ k \in 1 .. Len(RunOrder) /\ k' = k + 1
      /\ findings' = [findings EXCEPT ![RunOrder[k]] = Found(RunOrder[k])]
      /\ IF k = 6 THEN raised' = SchemaBeforeConnector ELSE UNCHANGED raised
      /\ UNCHANGED <<in, byTopic, reads, orphans>>
  BY RuleAtK
<1>2. /\ (ReadType)' = ReadType /\ Topics' = Topics /\ Source' = Source
      /\ (SourceColumns)' = SourceColumns /\ Connector' = Connector
  BY <1>1 DEF ReadType, Topics, Source, Connector, ShapeUnder, SourceColumns
<1>3. TypeOK'
  BY <1>1, <1>2, SchemaType DEF TypeOK
<1>4. IndexAgrees' /\ ReadsAgree' /\ EveryReadIsFed'
  BY <1>1, <1>2
  DEF IndexAgrees, ReadsAgree, ReadAgrees, EveryReadIsFed, MappedBy, Guessed,
      Namesakes
<1>5. OrphansAgree'
  <2>1. \A i : Unproduced(i)' <=> Unproduced(i)
    BY <1>1, <1>2 DEF Unproduced
  <2> QED
    BY <1>1, <2>1 DEF OrphansAgree
<1>6. RulesAgree'
  <2>1. k' <= Len(RunOrder) + 1
    BY <1>1 DEF RunOrder
  <2>2. k' > 6 => raised' = SchemaBeforeConnector'
    BY <1>1, FoundStays DEF RulesAgree
  <2>3. ASSUME NEW i \in 1 .. k' - 1
        PROVE  findings'[RunOrder[i]] = Found(RunOrder[i])'
    <3>1. i \in 1 .. k /\ RunOrder[i] \in Rules
      BY <1>1, <2>3 DEF RunOrder, Rules
    <3>2. i # k => RunOrder[i] # RunOrder[k]
      BY <1>1, <3>1 DEF RunOrder
    <3>3. RunOrder[i] = "source-column-not-captured" => i = 7
      BY <1>1, <3>1 DEF RunOrder
    <3>4. Found(RunOrder[i])' = Found(RunOrder[i])
      <4>1. RunOrder[i] = "source-column-not-captured" => UNCHANGED raised
        BY <1>1, <3>1, <3>3
      <4> QED
        BY <1>1, <4>1, FoundStays
    <3>5. findings[RunOrder[i]] = Found(RunOrder[i]) \/ i = k
      BY <1>1, <3>1 DEF RulesAgree
    <3> QED
      BY <1>1, <3>1, <3>2, <3>4, <3>5 DEF TypeOK
  <2> QED
    BY <1>1, <2>1, <2>2, <2>3 DEF RulesAgree
<1>7. OneFeeder'
  BY <1>1 DEF OneFeeder
<1> QED
  BY <1>3, <1>4, <1>5, <1>6, <1>7

(***************************************************************************)
(* Finishing, or a stutter, changes nothing the invariant is about.        *)
(***************************************************************************)
LEMMA RulesDoneStep ==
  ASSUME IInv, RulesDone \/ UNCHANGED vars
  PROVE  IInv'
<1> USE DEF IInv
<1>1. /\ UNCHANGED <<in, k, byTopic, reads, orphans, raised, findings>>
      /\ \/ pc' = pc
         \/ pc = "rules" /\ pc' = "done" /\ k > Len(RunOrder)
  BY DEF RulesDone, vars
<1>2. /\ (ReadType)' = ReadType /\ Topics' = Topics /\ Source' = Source
      /\ (SourceColumns)' = SourceColumns /\ Connector' = Connector
  BY <1>1 DEF ReadType, Topics, Source, Connector, ShapeUnder, SourceColumns
<1>3. TypeOK'
  BY <1>1, <1>2 DEF TypeOK
<1>4. IndexAgrees' /\ ReadsAgree' /\ EveryReadIsFed'
  BY <1>1, <1>2
  DEF IndexAgrees, ReadsAgree, ReadAgrees, EveryReadIsFed, MappedBy, Guessed,
      Namesakes
<1>5. OrphansAgree'
  <2>1. \A i : Unproduced(i)' <=> Unproduced(i)
    BY <1>1, <1>2 DEF Unproduced
  <2> QED
    BY <1>1, <2>1 DEF OrphansAgree
<1>6. RulesAgree'
  <2>1. /\ SchemaBeforeConnector' = SchemaBeforeConnector
        /\ \A rule : Found(rule)' = Found(rule)
    BY <1>1, FoundStays
  <2>2. k \in Nat /\ Len(RunOrder) = 10
    BY DEF TypeOK, RunOrder
  <2> QED
    BY <1>1, <2>1, <2>2 DEF RulesAgree
<1>7. OneFeeder'
  BY <1>1 DEF IInv, OneFeeder
<1> QED
  BY <1>3, <1>4, <1>5, <1>6, <1>7

-----------------------------------------------------------------------------

(***************************************************************************)
(* Every step keeps IInv, so it holds in every state of every run.         *)
(***************************************************************************)
LEMMA NextIInv ==
  ASSUME IInv, [Next]_vars
  PROVE  IInv'
BY IndexStep, ResolveStep, ResolveDoneStep, RulesStep, RulesDoneStep DEF Next

LEMMA Invariance == Spec => []IInv
<1>1. Init => IInv
  BY InitIInv
<1>2. IInv /\ [Next]_vars => IInv'
  BY NextIInv
<1> QED
  BY <1>1, <1>2, PTL DEF Spec

(***************************************************************************)
(* Every variable of a run keeps its type, whatever the run is given.      *)
(***************************************************************************)
THEOREM TypeCorrect == Spec => []TypeOK
<1>1. IInv => TypeOK
  BY DEF IInv
<1> QED
  BY <1>1, Invariance, PTL

(***************************************************************************)
(* Every read is of a table that is on the topic it names, and a read made *)
(* through a sink connector is of a topic that connector writes there.     *)
(***************************************************************************)
THEOREM ReadsAreFed == Spec => []EveryReadIsFed
<1>1. IInv => EveryReadIsFed
  BY DEF IInv
<1> QED
  BY <1>1, Invariance, PTL

(***************************************************************************)
(* When the run is done every rule's findings are what the rule finds.     *)
(***************************************************************************)
LEMMA FoundAtEnd ==
  ASSUME IInv, pc = "done"
  PROVE  /\ \A rule \in Rules : findings[rule] = Found(rule)
         /\ raised = SchemaBeforeConnector
<1>1. k = 11 /\ Len(RunOrder) = 10
  BY DEF IInv, RulesAgree, RunOrder
<1>2. ASSUME NEW rule \in Rules PROVE findings[rule] = Found(rule)
  <2>1. PICK i \in 1 .. 10 : rule = RunOrder[i]
    BY <1>1 DEF Rules
  <2> QED
    BY <1>1, <2>1 DEF IInv, RulesAgree
<1> QED
  BY <1>1, <1>2 DEF IInv, RulesAgree

(***************************************************************************)
(* topic-table-mapping reports exactly the sink tables whose topic no      *)
(* source table produces.                                                  *)
(***************************************************************************)
THEOREM OrphanTopicsReported == Spec => []OrphanTopicIffReported
<1>1. IInv => OrphanTopicIffReported
  <2> SUFFICES ASSUME IInv, pc = "done"
               PROVE  findings["topic-table-mapping"] =
                        {i \in DOMAIN in.sinks : Unproduced(i)}
    BY DEF OrphanTopicIffReported, Unproduced
  <2>1. findings["topic-table-mapping"] = TopicTableMapping
    BY FoundAtEnd DEF Found, Rules, RunOrder
  <2> QED
    BY <2>1 DEF TopicTableMapping, IInv, OrphansAgree
<1> QED
  BY <1>1, Invariance, PTL

(***************************************************************************)
(* The columns reported as read but left out are the left-out columns some *)
(* sink column receives.                                                   *)
(***************************************************************************)
LEMMA AskedForIsDeclared ==
  ASSUME IInv, pc = "done"
  PROVE  AskedForButLeftOut = LeftOut \cap Declared
<1>1. findings["sink-column-not-captured"] = SinkColumnNotCaptured
  BY FoundAtEnd DEF Found, Rules, RunOrder
<1>2. /\ Source \subseteq Tables
      /\ in.columns \in [Tables -> SUBSET Columns]
      /\ \A r \in reads : r.table \in Source
  BY InputFields DEF IInv, TypeOK, ReadType
<1>3. ASSUME NEW tc \in AskedForButLeftOut
      PROVE  tc \in LeftOut \cap Declared
  <2>1. PICK r \in reads : /\ tc = <<r.table, r.field>>
                           /\ CapturesTable(Connector, r.table)
                           /\ ~r.unreached
                           /\ r.field \in in.columns[r.table]
                           /\ ~Captured(<<r.table, r.field>>)
    BY <1>1, <1>3 DEF AskedForButLeftOut, SinkColumnNotCaptured
  <2>2. tc \in SourceColumns
    BY <1>2, <2>1 DEF SourceColumns, ColumnOf
  <2> QED
    BY <2>1, <2>2 DEF LeftOut, Declared
<1>4. ASSUME NEW tc \in LeftOut, tc \in Declared
      PROVE  tc \in AskedForButLeftOut
  <2>1. PICK r \in reads : tc = <<r.table, r.field>> /\ ~r.unreached
    BY <1>4 DEF Declared
  <2>2. /\ CapturesTable(Connector, r.table)
        /\ r.field \in in.columns[r.table]
        /\ ~Captured(<<r.table, r.field>>)
    BY <1>4, <2>1 DEF LeftOut, SourceColumns
  <2>3. [sink |-> r.sink, column |-> r.column, source |-> tc] \in SinkColumnNotCaptured
    BY <2>1, <2>2 DEF SinkColumnNotCaptured
  <2> QED
    BY <1>1, <2>3 DEF AskedForButLeftOut
<1> QED
  BY <1>3, <1>4

(***************************************************************************)
(* The diff rule and the inventory share out the left-out columns no sink  *)
(* column receives.                                                        *)
(***************************************************************************)
LEMMA DiffAndInventory ==
  ASSUME IInv, pc = "done"
  PROVE  /\ findings["schema-before-connector"] = SchemaBeforeConnector
         /\ SchemaBeforeConnector \subseteq LeftOut \ Declared
         /\ findings["source-column-not-captured"] =
              (LeftOut \ Declared) \ SchemaBeforeConnector
<1>1. /\ findings["schema-before-connector"] = SchemaBeforeConnector
      /\ findings["source-column-not-captured"] = SourceColumnNotCaptured
      /\ raised = SchemaBeforeConnector
  BY FoundAtEnd DEF Found, Rules, RunOrder
<1>2. SchemaBeforeConnector \subseteq LeftOut \ Declared
  BY DEF SchemaBeforeConnector, LeftOut
<1>3. SourceColumnNotCaptured = (LeftOut \ Declared) \ raised
  BY DEF SourceColumnNotCaptured, LeftOut
<1> QED
  BY <1>1, <1>2, <1>3

(***************************************************************************)
(* Of the three rules that can say a column is left out, exactly one says  *)
(* it of each column left out, and none says it of any other.              *)
(***************************************************************************)
THEOREM LeftOutOnce == Spec => []LeftOutReportedOnce
<1>1. IInv => LeftOutReportedOnce
  <2> SUFFICES ASSUME IInv, pc = "done" PROVE LeftOutReportedOnce
    BY DEF LeftOutReportedOnce
  <2> QED
    BY AskedForIsDeclared, DiffAndInventory DEF LeftOutReportedOnce
<1> QED
  BY <1>1, Invariance, PTL

(***************************************************************************)
(* A column this change adds to a table captured before and after, left    *)
(* out by an include list, is reported above information.                  *)
(***************************************************************************)
THEOREM NewColumnRaised == Spec => []NewColumnIsNeverMereInformation
<1>1. IInv => NewColumnIsNeverMereInformation
  <2> SUFFICES ASSUME IInv, pc = "done", NEW b \in in.base, NEW tc \in LeftOut,
                      AddedSince(b, tc), CapturedAt(b, tc[1]),
                      ~Excludes(ColumnListSetting(Connector)), tc \notin Declared
               PROVE  tc \in SchemaBeforeConnector
    BY AskedForIsDeclared, DiffAndInventory DEF NewColumnIsNeverMereInformation
  <2> QED
    BY DEF SchemaBeforeConnector, LeftOut
<1> QED
  BY <1>1, Invariance, PTL
(***************************************************************************)
(* field names the source column the value is carried from: of a table's   *)
(* columns, the one the shape carries under the sink's name, or none.      *)
(***************************************************************************)
LEMMA FieldCarries ==
  ASSUME NEW shape, NEW cols \in SUBSET Columns, NEW n \in SinkNames,
         NEW c \in cols, ~Field(shape, cols, n).skip
  PROVE  Carries(shape, n, c) <=>
           ~Field(shape, cols, n).unreached /\ Field(shape, cols, n).col = c
<1>1. c # NoColumn /\ (n.part = "row" => ColumnNamed(n) = n.name)
      /\ (n.part # "row" => ColumnNamed(n) = NoColumn)
  BY ShapeAssumption DEF ColumnNamed
<1>2. CASE IsMetadata(n)
  BY <1>2 DEF Field
<1>3. CASE ~IsMetadata(n) /\ shape.kind # "flattened"
  <2>1. /\ Field(shape, cols, n).col = ColumnNamed(n)
        /\ Field(shape, cols, n).unreached = FALSE
    BY <1>3 DEF Field
  <2> QED
    BY <1>1, <1>3, <2>1 DEF Carries
<1>4. CASE ~IsMetadata(n) /\ shape.kind = "flattened"
  <2>1. CASE IsImage(shape, n)
    <3>1. Field(shape, cols, n) = [col |-> n.name, unreached |-> FALSE, skip |-> FALSE]
      BY <1>4, <2>1 DEF Field
    <3> QED
      BY <1>4, <2>1, <3>1 DEF Carries, IsImage
  <2>2. CASE ~IsImage(shape, n)
    <3>1. ~Carries(shape, n, c)
      BY <1>4, <2>2 DEF Carries, IsImage
    <3>2. ~IsAroundRow(shape, n)
      <4>1. ASSUME IsAroundRow(shape, n)
            PROVE  Field(shape, cols, n) = [col |-> NoColumn, unreached |-> FALSE, skip |-> TRUE]
        BY <1>4, <2>2, <4>1 DEF Field
      <4> QED
        BY <4>1
    <3>3. \/ Field(shape, cols, n).unreached = TRUE
          \/ ColumnNamed(n) \notin cols /\ Field(shape, cols, n).col = ColumnNamed(n)
      BY <1>4, <2>2, <3>2 DEF Field
    <3> QED
      BY <3>1, <3>3
  <2> QED
    BY <2>1, <2>2
<1> QED
  BY <1>2, <1>3, <1>4

(***************************************************************************)
(* What it takes for one of the four sink rules to name a read.            *)
(***************************************************************************)
LEMMA ReportedAtEnd ==
  ASSUME IInv, pc = "done", NEW r \in reads
  PROVE  ReportedAsDefault(r) <=>
           \/ ~CapturesTable(Connector, r.table)
           \/ r.unreached
           \/ r.field \notin in.columns[r.table]
           \/ ~Captured(<<r.table, r.field>>)
<1>1. /\ findings["sink-table-not-captured"] = SinkTableNotCaptured
      /\ findings["sink-column-not-captured"] = SinkColumnNotCaptured
      /\ findings["sink-column-unknown"] = SinkColumnUnknown
      /\ findings["sink-column-flattened"] = SinkColumnFlattened
  BY FoundAtEnd DEF Found, Rules, RunOrder
<1>2. ASSUME NEW x \in reads, x.sink = r.sink
      PROVE  x.table = r.table /\ x.shape = r.shape
  BY <1>2 DEF IInv, OneFeeder
<1>3. ASSUME NEW x \in reads, x.sink = r.sink, x.column = r.column
      PROVE  x.field = r.field /\ x.unreached = r.unreached
  BY <1>2, <1>3 DEF IInv, ReadsAgree, ReadAgrees
<1>4. (\E f \in SinkTableNotCaptured : f.sink = r.sink)
        <=> ~CapturesTable(Connector, r.table)
  <2>1. ASSUME NEW f \in SinkTableNotCaptured, f.sink = r.sink
        PROVE  ~CapturesTable(Connector, r.table)
    <3>1. PICK x \in reads : f.sink = x.sink /\ ~CapturesTable(Connector, x.table)
      BY DEF SinkTableNotCaptured
    <3> QED
      BY <1>2, <2>1, <3>1
  <2>2. ASSUME ~CapturesTable(Connector, r.table)
        PROVE  \E f \in SinkTableNotCaptured : f.sink = r.sink
    <3>1. [sink |-> r.sink, table |-> r.table,
           setting |-> TableBlock(Connector, r.table)] \in SinkTableNotCaptured
      BY <2>2 DEF SinkTableNotCaptured
    <3> QED
      BY <3>1
  <2> QED
    BY <2>1, <2>2
<1> DEFINE LeftOutField(x) == /\ CapturesTable(Connector, x.table)
                              /\ ~x.unreached
                              /\ x.field \in in.columns[x.table]
                              /\ ~Captured(<<x.table, x.field>>)
           UnknownField(x) == ~x.unreached /\ x.field \notin in.columns[x.table]
<1>5. (\E f \in SinkColumnNotCaptured : f.sink = r.sink /\ f.column = r.column)
        <=> LeftOutField(r)
  <2>1. ASSUME NEW f \in SinkColumnNotCaptured, f.sink = r.sink, f.column = r.column
        PROVE  LeftOutField(r)
    <3>1. PICK x \in reads : /\ f.sink = x.sink /\ f.column = x.column
                             /\ LeftOutField(x)
      BY DEF SinkColumnNotCaptured
    <3>2. x.table = r.table /\ x.field = r.field /\ x.unreached = r.unreached
      BY <1>2, <1>3, <2>1, <3>1
    <3> QED
      BY <3>1, <3>2
  <2>2. ASSUME LeftOutField(r)
        PROVE  \E f \in SinkColumnNotCaptured : f.sink = r.sink /\ f.column = r.column
    <3>1. [sink |-> r.sink, column |-> r.column, source |-> <<r.table, r.field>>]
            \in SinkColumnNotCaptured
      BY <2>2 DEF SinkColumnNotCaptured
    <3> QED
      BY <3>1
  <2> QED
    BY <2>1, <2>2
<1>6. (\E f \in SinkColumnUnknown : f.sink = r.sink /\ f.column = r.column)
        <=> UnknownField(r)
  <2>1. ASSUME NEW f \in SinkColumnUnknown, f.sink = r.sink, f.column = r.column
        PROVE  UnknownField(r)
    <3>1. PICK x \in reads : /\ f.sink = x.sink /\ f.column = x.column
                             /\ UnknownField(x)
      BY DEF SinkColumnUnknown
    <3>2. x.table = r.table /\ x.field = r.field /\ x.unreached = r.unreached
      BY <1>2, <1>3, <2>1, <3>1
    <3> QED
      BY <3>1, <3>2
  <2>2. ASSUME UnknownField(r)
        PROVE  \E f \in SinkColumnUnknown : f.sink = r.sink /\ f.column = r.column
    <3>1. [sink |-> r.sink, column |-> r.column] \in SinkColumnUnknown
      BY <2>2 DEF SinkColumnUnknown
    <3> QED
      BY <3>1
  <2> QED
    BY <2>1, <2>2
<1>7. (\E f \in SinkColumnFlattened : f.sink = r.sink /\ r.column \in f.columns)
        <=> r.unreached
  <2> DEFINE unreached == {x \in reads : x.unreached}
             all(i) == {x.column : x \in {y \in unreached : y.sink = i}}
  <2>1. ASSUME NEW f \in SinkColumnFlattened, f.sink = r.sink, r.column \in f.columns
        PROVE  r.unreached
    <3>1. f.columns = all(r.sink)
      BY <2>1 DEF SinkColumnFlattened
    <3>2. PICK x \in reads : x.unreached /\ x.sink = r.sink /\ x.column = r.column
      BY <2>1, <3>1
    <3> QED
      BY <1>3, <3>2
  <2>2. ASSUME r.unreached
        PROVE  \E f \in SinkColumnFlattened : f.sink = r.sink /\ r.column \in f.columns
    <3>1. [sink |-> r.sink, columns |-> all(r.sink)] \in SinkColumnFlattened
      BY <2>2 DEF SinkColumnFlattened
    <3>2. r.column \in all(r.sink)
      BY <2>2
    <3> QED
      BY <3>1, <3>2
  <2> QED
    BY <2>1, <2>2
<1> QED
  BY <1>1, <1>4, <1>5, <1>6, <1>7 DEF ReportedAsDefault

(***************************************************************************)
(* A value arrives in a sink column exactly when none of them names it.    *)
(***************************************************************************)
LEMMA ArrivesOrReported ==
  ASSUME IInv, pc = "done", NEW r \in reads
  PROVE  Arrives(r) <=> ~ReportedAsDefault(r)
<1> DEFINE cols == in.columns[r.table]
           field == Field(r.shape, cols, r.column)
<1>1. cols \in SUBSET Columns /\ r.column \in SinkNames
  <2>1. r.table \in Tables /\ r.column \in SinkNames
    BY InputFields DEF IInv, TypeOK, ReadType
  <2> QED
    BY <2>1, InputFields DEF IInv, TypeOK
<1>2. ~field.skip /\ r.field = field.col /\ r.unreached = field.unreached
  BY DEF IInv, ReadsAgree, ReadAgrees
<1>3. \A c \in cols : Carries(r.shape, r.column, c) <=> ~r.unreached /\ r.field = c
  BY <1>1, <1>2, FieldCarries
<1>4. r.unreached \in BOOLEAN
  BY DEF IInv, TypeOK, ReadType
<1> HIDE DEF field
<1>5. Arrives(r) <=> /\ CapturesTable(Connector, r.table)
                     /\ ~r.unreached
                     /\ r.field \in cols
                     /\ Captured(<<r.table, r.field>>)
  BY <1>3 DEF Arrives
<1> QED
  BY <1>5, ReportedAtEnd

(***************************************************************************)
(* A sink column no value arrives in is reported, and one a value arrives  *)
(* in is not, under every shape and every connector.                       *)
(***************************************************************************)
THEOREM SilentDefaultsReported == Spec => []SilentDefaultIffReported
<1>1. IInv => SilentDefaultIffReported
  BY ArrivesOrReported DEF SilentDefaultIffReported
<1> QED
  BY <1>1, Invariance, PTL

-----------------------------------------------------------------------------

(***************************************************************************)
(* Sink table i is read from the table indexed for the topic it names.     *)
(***************************************************************************)
Covered(i) ==
  LET topic == in.sinks[i].topic
  IN  topic # NoName /\ topic \in DOMAIN byTopic =>
        \A n \in ToSet(in.sinks[i].columns) :
          ~Field(ValueShape(Connector), in.columns[byTopic[topic]], n).skip =>
            \E r \in reads :
              /\ r.sink = i /\ r.column = n
              /\ r.table = byTopic[topic] /\ r.shape = ValueShape(Connector)

ReadsCover ==
  /\ pc = "resolve" => \A i \in 1 .. k - 1 : Covered(i)
  /\ pc \in {"rules", "done"} => \A i \in DOMAIN in.sinks : Covered(i)

-----------------------------------------------------------------------------

(***************************************************************************)
(* What was read stays read.                                               *)
(***************************************************************************)
LEMMA CoveredStays ==
  ASSUME NEW i, Covered(i), UNCHANGED <<in, byTopic>>, reads \subseteq reads'
  PROVE  Covered(i)'
<1>1. Connector' = Connector
  BY DEF Connector
<1> QED
  BY <1>1 DEF Covered

(***************************************************************************)
(* The sink table being resolved is covered, also by leaving it alone when *)
(* its topic is not in the index.                                          *)
(***************************************************************************)
LEMMA ResolveCovers ==
  ASSUME \/ ResolveByTopic \/ TopicUnproduced \/ ResolveByConnector
         \/ ResolveByName \/ ResolveNone,
         NEW i, i = k
  PROVE  Covered(i)'
<1>1. UNCHANGED <<in, byTopic>> /\ Connector' = Connector
  BY DEF ResolveByTopic, TopicUnproduced, ResolveByConnector, ResolveByName,
         ResolveNone, Resolving, Connector
<1> DEFINE topic == in.sinks[i].topic
<1>2. ASSUME topic # NoName, topic \in DOMAIN byTopic,
             NEW n \in ToSet(in.sinks[i].columns),
             ~Field(ValueShape(Connector), in.columns[byTopic[topic]], n).skip
      PROVE  \E r \in reads' :
               /\ r.sink = i /\ r.column = n
               /\ r.table = byTopic[topic] /\ r.shape = ValueShape(Connector)
  <2>1. CASE ResolveByTopic
    <3>1. ReadFrom(byTopic[topic], "topic", topic, 0) /\ ShapeUnder(0) = ValueShape(Connector)
      BY <2>1 DEF ResolveByTopic, ShapeUnder
    <3>2. Read(i, n, byTopic[topic], "topic", topic, 0) \in reads'
      BY <1>2, <3>1 DEF ReadFrom
    <3> QED
      BY <3>1, <3>2 DEF Read
  <2>2. CASE TopicUnproduced
    BY <1>2, <2>2 DEF TopicUnproduced
  <2>3. CASE ResolveByConnector \/ ResolveByName \/ ResolveNone
    BY <1>2, <2>3 DEF ResolveByConnector, ResolveByName, ResolveNone, Unmapped
  <2> QED
    BY <2>1, <2>2, <2>3
<1> QED
  BY <1>1, <1>2 DEF Covered

(***************************************************************************)
(* Every step keeps the account.                                           *)
(***************************************************************************)
LEMMA CoverStep ==
  ASSUME IInv, ReadsCover, [Next]_vars
  PROVE  ReadsCover'
<1>1. k \in Nat \ {0} /\ in.sinks \in Seq(SinkTables)
  BY InputFields DEF IInv, TypeOK
<1>2. CASE IndexTopic \/ IndexDone
  BY <1>2 DEF IndexTopic, IndexDone, ReadsCover
<1>3. CASE \/ ResolveByTopic \/ TopicUnproduced \/ ResolveByConnector
           \/ ResolveByName \/ ResolveNone
  <2>1. pc = "resolve" /\ pc' = "resolve" /\ k' = k + 1
    BY <1>3 DEF ResolveByTopic, TopicUnproduced, ResolveByConnector, ResolveByName,
                ResolveNone, Resolving
  <2>2. UNCHANGED <<in, byTopic>> /\ reads \subseteq reads'
    BY <1>3 DEF ResolveByTopic, TopicUnproduced, ResolveByConnector, ResolveByName,
                ResolveNone, Resolving, ReadFrom
  <2>3. ASSUME NEW i \in 1 .. k PROVE Covered(i)'
    <3>1. CASE i = k
      BY <1>3, <3>1, ResolveCovers
    <3>2. CASE i # k
      <4>1. Covered(i)
        BY <1>1, <2>1, <3>2 DEF ReadsCover
      <4> QED
        BY <2>2, <4>1, CoveredStays
    <3> QED
      BY <3>1, <3>2
  <2> QED
    BY <1>1, <2>1, <2>3 DEF ReadsCover
<1>4. CASE ResolveDone
  <2>1. /\ pc = "resolve" /\ pc' = "rules" /\ k > Len(in.sinks)
        /\ UNCHANGED <<in, byTopic, reads>>
    BY <1>4 DEF ResolveDone
  <2>2. \A i \in DOMAIN in.sinks : Covered(i)
    BY <1>1, <2>1 DEF ReadsCover
  <2> QED
    BY <2>1, <2>2, CoveredStays DEF ReadsCover
<1>5. CASE StaticRule \/ DiffRule \/ RulesDone \/ UNCHANGED vars
  <2>1. /\ UNCHANGED <<in, byTopic, reads>>
        /\ \/ UNCHANGED <<pc, k>>
           \/ pc = "rules" /\ pc' \in {"rules", "done"}
    BY <1>5 DEF StaticRule, DiffRule, RulesDone, Report, vars
  <2>2. \A i : Covered(i)' <=> Covered(i)
    BY <2>1 DEF Covered, Connector
  <2> QED
    BY <2>1, <2>2 DEF ReadsCover
<1> QED
  BY <1>2, <1>3, <1>4, <1>5 DEF Next

LEMMA CoverInvariance == Spec => [](IInv /\ ReadsCover)
<1>1. Init => ReadsCover
  BY DEF Init, Started, ReadsCover
<1>2. ReadsCover /\ IInv /\ [Next]_vars => ReadsCover'
  BY CoverStep
<1> QED
  BY <1>1, <1>2, Invariance, PTL DEF Spec

-----------------------------------------------------------------------------

(***************************************************************************)
(* A table on a topic that a sink table names has its topic in the index,  *)
(* and the table the index has for it is on the topic too.                 *)
(***************************************************************************)
LEMMA TopicIsIndexed ==
  ASSUME IInv, pc = "done", NEW topic, NEW t \in Source, Topic(Connector, t) = topic
  PROVE  /\ topic \in DOMAIN byTopic
         /\ byTopic[topic] \in Source
         /\ Topic(Connector, byTopic[topic]) = topic
<1>1. topic \in Topics
  BY DEF Topics
<1>2. topic \in DOMAIN byTopic
  BY <1>1 DEF IInv, IndexAgrees
<1> QED
  BY <1>2 DEF IInv, IndexAgrees, TypeOK

(***************************************************************************)
(* A sink table on the topic of uncaptured tables that has a row's column  *)
(* is reported.                                                            *)
(***************************************************************************)
THEOREM UncapturedReported == Spec => []UncapturedTableIsReported
<1>1. IInv /\ ReadsCover => UncapturedTableIsReported
  <2> SUFFICES ASSUME IInv, ReadsCover, pc = "done", NEW i \in DOMAIN in.sinks,
                      in.sinks[i].topic # NoName,
                      NEW t \in Source, Topic(Connector, t) = in.sinks[i].topic,
                      \A x \in Source : Topic(Connector, x) = in.sinks[i].topic =>
                                          ~CapturesTable(Connector, x),
                      NEW n \in ToSet(in.sinks[i].columns), n.part = "row"
               PROVE  \E f \in findings["sink-table-not-captured"] : f.sink = i
    BY DEF UncapturedTableIsReported
  <2>1. PICK topic : topic = in.sinks[i].topic
    OBVIOUS
  <2>2. PICK table : table = byTopic[topic]
    OBVIOUS
  <2>3. /\ topic \in DOMAIN byTopic
        /\ table \in Source /\ Topic(Connector, table) = topic
    BY <2>1, <2>2, TopicIsIndexed
  <2>4. ~Field(ValueShape(Connector), in.columns[table], n).skip
    BY DEF Field, IsMetadata, IsImage, IsAroundRow
  <2>5. PICK r \in reads : r.sink = i /\ r.table = table
    BY <2>1, <2>2, <2>3, <2>4 DEF ReadsCover, Covered
  <2>6. ~CapturesTable(Connector, r.table)
    BY <2>1, <2>3, <2>5
  <2>7. findings["sink-table-not-captured"] = SinkTableNotCaptured
    BY FoundAtEnd DEF Found, Rules, RunOrder
  <2>8. [sink |-> r.sink, table |-> r.table,
         setting |-> TableBlock(Connector, r.table)] \in SinkTableNotCaptured
    BY <2>6 DEF SinkTableNotCaptured
  <2> QED
    BY <2>5, <2>7, <2>8
<1> QED
  BY <1>1, CoverInvariance, PTL

(***************************************************************************)
(* A column listed as read by nothing is received by no sink table on its  *)
(* table's topic, where it is the only table.                              *)
(***************************************************************************)
THEOREM NothingReads == Spec => []NothingReadsItYet
<1>1. IInv /\ ReadsCover => NothingReadsItYet
  <2> SUFFICES ASSUME IInv, ReadsCover, pc = "done", NEW i \in DOMAIN in.sinks,
                      NEW tc \in findings["source-column-not-captured"],
                      in.sinks[i].topic # NoName,
                      {t \in Source : Topic(Connector, t) = in.sinks[i].topic} = {tc[1]},
                      NEW n \in ToSet(in.sinks[i].columns),
                      Field(ValueShape(Connector), in.columns[tc[1]], n).col = tc[2]
               PROVE  FALSE
    BY DEF NothingReadsItYet
  <2>1. tc \in SourceColumns /\ tc \notin Declared
    BY DiffAndInventory DEF LeftOut
  <2>2. tc = <<tc[1], tc[2]>> /\ tc[2] # NoColumn
    BY <2>1, ShapeAssumption DEF SourceColumns, ColumnOf
  <2>3. PICK topic : topic = in.sinks[i].topic
    OBVIOUS
  <2>4. tc[1] \in Source /\ Topic(Connector, tc[1]) = topic
    BY <2>3
  <2>5. topic \in DOMAIN byTopic /\ byTopic[topic] = tc[1]
    BY <2>3, <2>4, TopicIsIndexed
  <2>6. /\ ~Field(ValueShape(Connector), in.columns[tc[1]], n).skip
        /\ ~Field(ValueShape(Connector), in.columns[tc[1]], n).unreached
    BY <2>2 DEF Field
  <2>7. PICK r \in reads : /\ r.column = n /\ r.table = tc[1]
                           /\ r.shape = ValueShape(Connector)
    BY <2>3, <2>5, <2>6 DEF ReadsCover, Covered
  <2>8. r.field = tc[2] /\ ~r.unreached
    BY <2>6, <2>7 DEF IInv, ReadsAgree, ReadAgrees
  <2>9. <<r.table, r.field>> \in Declared
    BY <2>8 DEF Declared
  <2> QED
    BY <2>1, <2>2, <2>7, <2>8, <2>9
<1> QED
  BY <1>1, CoverInvariance, PTL

(***************************************************************************)
(* Where a list that findings can name keeps a table out, the one that     *)
(* the finding names does.                                                 *)
(***************************************************************************)
THEOREM NamedListKeepsOut == Spec => []NamedListKeepsTableOut
<1>1. IInv => NamedListKeepsTableOut
  <2> SUFFICES ASSUME IInv, pc = "done", NEW f \in findings["sink-table-not-captured"],
                      NEW list \in Settings, KeepsOut(list, f.table)
               PROVE  KeepsOut(f.setting, f.table)
    BY DEF NamedListKeepsTableOut
  <2>1. findings["sink-table-not-captured"] = SinkTableNotCaptured
    BY FoundAtEnd DEF Found, Rules, RunOrder
  <2>2. PICK r \in reads : /\ ~CapturesTable(Connector, r.table)
                           /\ f.table = r.table
                           /\ f.setting = TableBlock(Connector, r.table)
    BY <2>1 DEF SinkTableNotCaptured
  <2>3. list # "table.exclude.list"
    BY DEF Settings
  <2> QED
    BY <2>2, <2>3 DEF KeepsOut, TableBlock, TableListSetting
<1> QED
  BY <1>1, Invariance, PTL

-----------------------------------------------------------------------------

(***************************************************************************)
(* A refreshable view without a finding lists its target's columns as the  *)
(* target does.                                                            *)
(***************************************************************************)
THEOREM RefreshableAgree == Spec => []RefreshableViewsAgree
<1>1. IInv => RefreshableViewsAgree
  <2> SUFFICES ASSUME IInv, pc = "done", NEW i \in DOMAIN in.views,
                      in.views[i].refreshable, TargetsOf(in.views[i]) # {},
                      \A f \in findings["mv-column-match"] : f.view # i
               PROVE  in.views[i].columns = TargetColumns(in.views[i])
    BY DEF RefreshableViewsAgree
  <2> DEFINE v == in.views[i]
             target == TargetColumns(v)
  <2>1. findings["mv-column-match"] = MVColumnMatch
    BY FoundAtEnd DEF Found, Rules, RunOrder
  <2>2. ViewProblems(v) = {}
    <3>1. ASSUME NEW p \in ViewProblems(v) PROVE FALSE
      <4>1. [view |-> i, problem |-> p] \in MVColumnMatch
        BY <3>1 DEF MVColumnMatch
      <4> QED
        BY <2>1, <4>1
    <3> QED
      BY <3>1
  <2>3. in.sinks \in Seq(SinkTables) /\ in.views \in Seq(Views)
    BY DEF IInv, TypeOK, InputType
  <2>4. Max(TargetsOf(v)) \in DOMAIN in.sinks
    <3>1. TargetsOf(v) \in SUBSET (1 .. Len(in.sinks)) /\ Len(in.sinks) \in Nat
      BY <2>3 DEF TargetsOf
    <3>2. Max(TargetsOf(v)) \in TargetsOf(v)
      <4> HIDE DEF v
      <4> QED
        BY <3>1, MaxExists DEF v
    <3> QED
      BY <2>3, <3>1, <3>2
  <2>5. v.columns \in Seq(SinkNames) /\ target \in Seq(SinkNames)
    <3>1. v \in Views
      BY <2>3
    <3>2. in.sinks[Max(TargetsOf(v))] \in SinkTables
      BY <2>3, <2>4
    <3> QED
      BY <3>1, <3>2 DEF Views, SinkTables, TargetColumns
  <2> HIDE DEF v, target
  <2>6. ~OutOfOrder(v.columns, target) /\ Len(v.columns) = Len(target)
    <3>1. v.refreshable
      BY DEF v
    <3> QED
      BY <2>2, <3>1 DEF ViewProblems, target
  <2>7. \A j \in 1 .. Len(target) : v.columns[j] = target[j]
    BY <2>5, <2>6 DEF OutOfOrder
  <2> QED
    BY <2>5, <2>6, <2>7 DEF v, target
<1> QED
  BY <1>1, Invariance, PTL

=============================================================================
