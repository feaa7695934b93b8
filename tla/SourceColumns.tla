----------------------------- MODULE SourceColumns -----------------------------
(***************************************************************************)
(* The columns of the four databases the program reads (src/source.rs of   *)
(* the Postgres, SQL Server, MySQL and Oracle drivers): the Arrow type     *)
(* each is read into and the metadata its field carries on to the sinks.   *)
(* A type is a kind with a size and a scale, and stands for the values it  *)
(* holds, be it a database's or Arrow's.                                   *)
(***************************************************************************)
EXTENDS Integers, Sequences, FiniteSets

Unlimited == 100000     \* the length of a text or a binary without a limit
NoSize    == -2         \* a precision, scale or length that is not given; -1 is MAX

Type(kind, size, scale) == <<kind, size, scale>>
Kind(t) == t[1]
Plain(kind)  == Type(kind, 0, 0)
SInt(bits)   == Type("int", bits, 0)
UInt(bits)   == Type("uint", bits, 0)
Float(bits)  == Type("float", bits, 0)
Dec(p, s)    == Type("decimal", p, s)
Text(n)      == Type("text", n, 0)
Char(n)      == Type("char", n, 0)
Bytes(n)    == Type("binary", n, 0)
Time(f)      == Type("time", f, 0)
Stamp(f)     == Type("stamp", f, 0)
StampTz(f)   == Type("stamptz", f, 0)
Interval(f)  == Type("interval", f, 0)
AnyNumber    == Dec(2000, 1000)
Utf8         == Text(Unlimited)
LargeBinary  == Bytes(Unlimited)

Digits(t) == CASE t[2] = 8 -> 3 [] t[2] = 16 -> 5 [] t[2] = 32 -> 10
               [] t[2] = 64 -> IF Kind(t) = "uint" THEN 20 ELSE 19

\* The characters a value takes when it is written out.
Width(t) ==
  CASE Kind(t) \in {"text", "char"} -> t[2]
    [] Kind(t) = "uuid" -> 36 [] Kind(t) = "inet" -> 43
    [] Kind(t) = "macaddr" -> 17 [] Kind(t) = "macaddr8" -> 23
    [] Kind(t) \in {"timetz", "interval", "range"} -> 50
    [] Kind(t) = "enum" -> 63
    [] Kind(t) \in {"json", "xml", "nested", "bits", "binary"} -> Unlimited
    [] OTHER -> 40

\* Every value of want can be kept as one of have, and read as itself again.
Holds(have, want) ==
  LET wide == have[2] >= want[2]
  IN  \/ Kind(have) \in {"text", "char"} /\ have[2] >= Width(want)
      \/ Kind(have) = Kind(want) /\ wide /\ Kind(want) # "decimal"
      \/ Kind(want) = "uint" /\ Kind(have) = "int" /\ have[2] > want[2]
      \/ /\ Kind(want) \in {"int", "uint"}
         /\ \/ Kind(have) = "decimal" /\ have[2] - have[3] >= Digits(want)
            \/ Kind(have) = "float" /\ have[2] > want[2]
      \/ /\ Kind(want) = "decimal"
         /\ \/ Kind(have) = "decimal" /\ have[3] >= want[3] /\ have[2] - have[3] >= want[2] - want[3]
            \/ Kind(have) = "float" /\ want[2] <= 15
            \/ Kind(have) = "int" /\ have[2] = 64 /\ want[3] = 0 /\ want[2] <= 18
      \/ Kind(want) = "bool" /\ Kind(have) \in {"int", "decimal"}
      \/ Kind(want) = "date" /\ Kind(have) = "stamp"
      \/ Kind(want) = "time" /\ Kind(have) = "interval" /\ wide
      \/ Kind(want) = "stamp" /\ Kind(have) = "stamptz" /\ wide
      \/ Kind(want) = "fixed" /\ (Kind(have) = "uuid" \/ (Kind(have) = "binary" /\ wide))
      \/ Kind(want) \in {"nested", "hstore"} /\ Kind(have) = "json"

-----------------------------------------------------------------------------
\* A column of a source: the type's name as the wire gives it, the precision, scale and
\* length the catalogue knows, whether it is nullable, and the values it may have.
Column(driver, name, p, s, n, values) ==
  [driver |-> driver, name |-> name, p |-> p, s |-> s, n |-> n, values |-> values]
Bare(driver, name, values) == Column(driver, name, NoSize, NoSize, NoSize, values)

PgColumns ==
  {Bare("postgres", c[1], c[2]) : c \in {
     <<"bool", Plain("bool")>>, <<"float4", Float(32)>>, <<"float8", Float(64)>>,
     <<"numeric", AnyNumber>>, <<"money", Dec(19, 4)>>, <<"date", Plain("date")>>,
     <<"text", Utf8>>, <<"varchar", Utf8>>, <<"bytea", LargeBinary>>,
     <<"uuid", Plain("uuid")>>, <<"json", Plain("json")>>, <<"jsonb", Plain("json")>>,
     <<"xml", Plain("xml")>>, <<"inet", Plain("inet")>>, <<"cidr", Plain("inet")>>,
     <<"macaddr", Plain("macaddr")>>, <<"macaddr8", Plain("macaddr8")>>,
     <<"hstore", Plain("hstore")>>, <<"_int4", Plain("nested")>>, <<"tsvector", Utf8>>,
     <<"int4range", Plain("range")>>, <<"varbit", Plain("bits")>>, <<"point", Utf8>>}}
  \cup {Column("postgres", c[1], c[2], 0, NoSize, SInt(c[3])) :
          c \in {<<"int2", 16, 16>>, <<"int4", 32, 32>>, <<"int8", 64, 64>>}}
  \cup {Column("postgres", "numeric", c[1], c[2], NoSize, Dec(c[1], c[2])) :
          c \in {<<10, 0>>, <<10, 2>>, <<50, 10>>}}
  \cup {Column("postgres", c[1], 6, NoSize, NoSize, c[2]) : c \in {
          <<"time", Time(6)>>, <<"timetz", Plain("timetz")>>, <<"timestamp", Stamp(6)>>,
          <<"timestamptz", StampTz(6)>>, <<"interval", Interval(6)>>}}
  \cup {Column("postgres", c[1], NoSize, NoSize, c[2], c[3]) : c \in {
          <<"varchar", 10, Text(10)>>, <<"varchar", 20000, Text(20000)>>,
          <<"bpchar", 5, Text(5)>>, <<"bpchar", 5000, Text(5000)>>,
          <<"mood", NoSize, Plain("enum")>>}}

MySqlColumns ==
  {Bare("mysql", c[1], c[2]) : c \in {
     <<"tinyint", SInt(8)>>, <<"smallint", SInt(16)>>, <<"mediumint", SInt(32)>>, <<"int", SInt(32)>>,
     <<"bigint", SInt(64)>>, <<"year", SInt(16)>>, <<"boolean", Plain("bool")>>,
     <<"int unsigned", UInt(32)>>, <<"bigint unsigned", UInt(64)>>, <<"float", Float(32)>>,
     <<"double", Float(64)>>, <<"decimal", Dec(10, 2)>>, <<"bit", Plain("bool")>>,
     <<"date", Plain("date")>>, <<"datetime", Stamp(6)>>, <<"timestamp", Stamp(6)>>,
     <<"time", Time(6)>>, <<"char", Text(255)>>, <<"varchar", Text(16383)>>, <<"text", Text(65535)>>,
     <<"longtext", Utf8>>, <<"blob", Bytes(65535)>>, <<"longblob", LargeBinary>>,
     <<"binary", Bytes(255)>>, <<"varbinary", Bytes(65535)>>, <<"json", Plain("json")>>,
     <<"enum", Text(255)>>}}

MssqlColumns ==
  {Bare("mssql", c[1], c[2]) : c \in {
     <<"tinyint", UInt(8)>>, <<"smallint", SInt(16)>>, <<"int", SInt(32)>>, <<"bigint", SInt(64)>>,
     <<"intn", SInt(64)>>, <<"bit", Plain("bool")>>, <<"real", Float(32)>>, <<"float", Float(64)>>,
     <<"decimal", Dec(10, 2)>>, <<"numeric", Dec(38, 10)>>, <<"money", Dec(19, 4)>>,
     <<"date", Plain("date")>>, <<"datetime", Stamp(3)>>, <<"datetime2", Stamp(7)>>,
     <<"smalldatetime", Stamp(0)>>, <<"datetimeoffset", StampTz(7)>>, <<"time", Time(7)>>,
     <<"binary", Bytes(8000)>>, <<"varbinary", LargeBinary>>, <<"image", LargeBinary>>,
     <<"nvarchar", Utf8>>, <<"varchar", Utf8>>, <<"char", Text(8000)>>, <<"nchar", Text(4000)>>,
     <<"ntext", Utf8>>, <<"uniqueidentifier", Plain("uuid")>>}}

OracleColumns ==
  {Bare("oracle", c[1], c[2]) : c \in {
     <<"number", AnyNumber>>, <<"binary_double", Float(64)>>, <<"binary_float", Float(32)>>,
     <<"boolean", Plain("bool")>>, <<"date", Stamp(0)>>, <<"long raw", LargeBinary>>,
     <<"clob", Utf8>>, <<"blob", LargeBinary>>, <<"rowid", Text(18)>>}}
  \cup {Column("oracle", "number", c[1], c[2], NoSize, Dec(c[1], c[2])) :
          c \in {<<9, 0>>, <<38, 0>>, <<10, 2>>, <<38, 10>>}}
  \cup {Column("oracle", c[1], c[2], NoSize, NoSize, c[3]) : c \in {
          <<"timestamp", 6, Stamp(6)>>, <<"timestamp", 9, Stamp(9)>>,
          <<"timestamp with time zone", 6, StampTz(6)>>,
          <<"timestamp with local time zone", 6, StampTz(6)>>}}
  \cup {Column("oracle", c[1], NoSize, NoSize, c[2], c[3]) : c \in {
          <<"raw", 16, Bytes(16)>>, <<"varchar2", 100, Text(100)>>, <<"nvarchar2", 100, Text(100)>>,
          <<"char", 10, Text(10)>>, <<"nchar", 500, Text(500)>>}}

SourceColumnsUsed == PgColumns \cup MySqlColumns \cup MssqlColumns \cup OracleColumns

-----------------------------------------------------------------------------
\* What exec reads a column into, by driver.
PgArrow(c) ==
  CASE c.name \in {"int2", "int4", "int8"} -> SInt(c.p)
    [] c.name \in {"float4", "float8", "bool", "date", "money", "bytea"} -> c.values
    [] c.name = "time" -> Time(6)
    [] c.name = "timestamp" -> Stamp(6)
    [] c.name = "timestamptz" -> StampTz(6)
    [] OTHER -> Utf8

MySqlArrow(c) ==
  CASE c.name = "tinyint" -> SInt(8)
    [] c.name \in {"smallint", "year"} -> SInt(16)
    [] c.name \in {"mediumint", "int"} -> SInt(32)
    [] c.name = "bigint" -> SInt(64)
    [] c.name = "float" -> Float(32)
    [] c.name \in {"double", "decimal", "numeric"} -> Float(64)
    [] c.name = "bit" -> Plain("bool")
    [] c.name = "date" -> Plain("date")
    [] c.name \in {"datetime", "timestamp"} -> Stamp(6)
    [] c.name = "time" -> Time(6)
    [] c.name \in {"blob", "tinyblob", "mediumblob", "longblob", "binary", "varbinary"} -> LargeBinary
    [] OTHER -> Utf8

MssqlArrow(c) ==
  CASE c.name \in {"tinyint", "smallint", "int", "bigint", "intn"} -> SInt(64)
    [] c.name \in {"real", "float"} -> Float(64)
    [] c.name = "bit" -> Plain("bool")
    [] c.name = "date" -> Plain("date")
    [] c.name \in {"datetime", "datetime2"} -> Stamp(6)
    [] c.name = "datetimeoffset" -> StampTz(6)
    [] c.name = "time" -> Time(6)
    [] c.name \in {"binary", "varbinary", "image"} -> LargeBinary
    [] OTHER -> Utf8

OracleNumber(p, s) == IF p # NoSize /\ s = 0 THEN SInt(64) ELSE Float(64)
OracleArrow(c) ==
  CASE c.name = "number" -> OracleNumber(c.p, c.s)
    [] c.name \in {"binary_double", "binary_float"} -> Float(64)
    [] c.name = "boolean" -> Plain("bool")
    [] c.name \in {"date", "timestamp"} -> Stamp(6)
    [] c.name \in {"timestamp with time zone", "timestamp with local time zone"} -> StampTz(6)
    [] c.name \in {"raw", "long raw", "blob"} -> LargeBinary
    [] OTHER -> Utf8

ArrowOf(c) ==
  CASE c.driver = "postgres" -> PgArrow(c) [] c.driver = "mysql" -> MySqlArrow(c)
    [] c.driver = "mssql" -> MssqlArrow(c) [] c.driver = "oracle" -> OracleArrow(c)

\* mssql_type_name: the nullable integers share one name on the wire, and types the
\* match does not list have none.
MssqlTypeName(c) ==
  CASE c.name = "intn" -> "int"
    [] c.name \in {"uniqueidentifier", "smalldatetime"} -> "unknown"
    [] OTHER -> c.name

LogicalOf(name, driver, userDefined) ==
  CASE name \in {"json", "jsonb"} -> "json"
    [] name \in {"uuid", "uniqueidentifier"} -> "uuid"
    [] name \in {"money", "smallmoney"} -> "currency"
    [] name \in {"xml", "xmltype"} -> "xml"
    [] name \in {"inet", "cidr"} -> "ip"
    [] name \in {"macaddr", "macaddr8"} -> "mac_addr"
    [] name \in {"point", "polygon", "geometry", "geography"} -> "geometry"
    [] name = "varbit" \/ (name = "bit" /\ driver = "postgres") -> "bit_string"
    [] name \in {"int4range", "tstzrange"} -> "range"
    [] name = "_int4" /\ driver = "postgres" -> "array"
    [] name \in {"tsvector", "tsquery"} -> "full_text"
    [] name = "interval" -> "interval"
    [] name = "hstore" -> "hstore"
    [] userDefined -> "enum"
    [] OTHER -> "none"

\* The field of a batch. Postgres asks its catalogue for the sizes; SQL Server and MySQL
\* take the wire's name alone; Oracle's wire has them, with no scale for whole numbers.
FieldOf(c) ==
  LET name == IF c.driver = "mssql" THEN MssqlTypeName(c)
              ELSE IF c.name = "rowid" THEN "unknown" ELSE c.name
      sized == c.driver \in {"postgres", "oracle"}
  IN  [arrow |-> ArrowOf(c), name |-> name, explicit |-> Plain("none"),
       logical |-> LogicalOf(name, c.driver, c.driver = "postgres" /\ c.name = "mood"),
       p |-> IF sized THEN c.p ELSE NoSize,
       s |-> IF sized /\ ~(c.driver = "oracle" /\ c.s = 0) THEN c.s ELSE NoSize,
       n |-> IF sized THEN c.n ELSE NoSize]

\* What a text column is filled with is what the driver's library turns into a string:
\* in SQL Server a decimal of at most 28 digits, and no uniqueidentifier; in MySQL
\* nothing that is a number. What it cannot turn becomes NULL.
Decodes(c) ==
  CASE c.driver = "mssql" /\ ArrowOf(c) = Utf8 ->
         Kind(c.values) # "uuid" /\ ~(Kind(c.values) = "decimal" /\ c.values[2] > 28)
    [] c.driver = "mysql" /\ ArrowOf(c) = Utf8 -> Kind(c.values) \notin {"uint", "bool"}
    [] OTHER -> TRUE

-----------------------------------------------------------------------------
ReadCases == [algo : {"read"}, column : SourceColumnsUsed]

\* The columns that are known to lose some of their values when they are read: numbers
\* beyond a double, fractions of a second beyond the sixth digit, and what the driver's
\* library does not turn into a text.
LosesOnRead(c) ==
  \/ Kind(c.values) = "decimal" /\ c.values[2] > 15 /\ c.driver \in {"mssql", "oracle"}
  \/ Kind(c.values) \in {"stamp", "stamptz", "time"} /\ c.values[2] > 6
  \/ c.driver = "mssql" /\ c.name = "uniqueidentifier"
  \/ c.driver = "mysql" /\ c.name \in {"int unsigned", "bigint unsigned", "boolean"}

\* Every other column arrives with every value it can have.
ReadsWhole(c) == LosesOnRead(c.column) \/ (Holds(ArrowOf(c.column), c.column.values) /\ Decodes(c.column))
=============================================================================
