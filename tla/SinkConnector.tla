--------------------------- MODULE SinkConnector ----------------------------
(***************************************************************************)
(* internal/sink/connect: which table a Kafka Connect sink connector       *)
(* writes a topic to.                                                      *)
(***************************************************************************)
EXTENDS EventShape

CONSTANTS
  LastSegment,  \* what follows a name's last dot
  SnowflakeName,  \* a topic, each character but letters, digits and "_"
                  \* replaced, and "_" put before a leading digit
  BigQueryName,   \* a topic with its dots and dashes replaced
  NoName        \* stands for the empty name

ASSUME SinkConnectorAssumption ==
  /\ LastSegment \in [Names -> Names]
  /\ SnowflakeName \in [Names -> Names]
  /\ BigQueryName \in [Names -> Names]
  /\ NoName \notin Names

Warehouses == {"snowflake", "bigquery", "iceberg", "clickhouse"}
Kinds == Warehouses \cup {"unknown"}

(***************************************************************************)
(* connect.Mapper.  consumes is what topics= and topics.regex subscribe    *)
(* to; explicit is the connector's topic-to-table setting, NoName where it *)
(* has no entry; routes are Iceberg's route regexes in the order           *)
(* iceberg.tables lists their tables; single is the table when             *)
(* iceberg.tables lists exactly one.                                       *)
(***************************************************************************)
Routes == [table : Names, topics : SUBSET Names]

Consumes(m, topic) == topic \in m.consumes

(***************************************************************************)
(* The first route that matches, then the single table, then the name      *)
(* derived from the topic the way each connector derives it.               *)
(***************************************************************************)
IcebergTable(m, topic) ==
  LET matching == {i \in DOMAIN m.routes : topic \in m.routes[i].topics}
  IN  IF matching # {} THEN m.routes[Min(matching)].table
      ELSE IF m.single # NoName THEN m.single
      ELSE LastSegment[topic]

TableFor(m, topic) ==
  IF m.explicit[topic] # NoName THEN m.explicit[topic]
  ELSE CASE m.kind = "iceberg"   -> IcebergTable(m, topic)
         [] m.kind = "snowflake" -> SnowflakeName[topic]
         [] m.kind = "bigquery"  -> BigQueryName[topic]
         [] OTHER                -> topic

(***************************************************************************)
(* connect.Matches: the last segments are compared.                        *)
(***************************************************************************)
Matches(declared, mapped) == LastSegment[declared] = LastSegment[mapped]

(***************************************************************************)
(* The connector serves sink tables of one warehouse, or of any when its   *)
(* class is not one cdclint knows (engine.resolve's first test).           *)
(***************************************************************************)
Serves(m, sink) == m.kind \in {"unknown", sink}

Writes(m, topic, declared) ==
  Consumes(m, topic) /\ Matches(declared, TableFor(m, topic))

Reshape(m, shape) == Apply(m.transforms, shape)

=============================================================================
