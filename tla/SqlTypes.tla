-------------------------------- MODULE SqlTypes --------------------------------
(***************************************************************************)
(* The type of the column a sink creates for a field                       *)
(* (src/common/src/schema/ddl): the user's own type, else that of the      *)
(* field's logical type, else that of the source's type, else that of the  *)
(* Arrow type, in each of five dialects. A type without an equivalent is   *)
(* replaced by a wider one with a warning.                                 *)
(***************************************************************************)
EXTENDS SourceColumns

Dialects == {"postgres", "mssql", "oracle", "mysql", "databricks"}

Pick(pg, ms, ora, my, dbx) ==
  [d \in Dialects |-> CASE d = "postgres" -> pg [] d = "mssql" -> ms [] d = "oracle" -> ora
                        [] d = "mysql" -> my [] d = "databricks" -> dbx]
Same(t) == [d \in Dialects |-> t]

\* A type the match falls back on with a warning.
Lossy(t)  == <<"lossy", t>>
Warned(x) == Kind(x) = "lossy"
TypeIn(x) == IF Warned(x) THEN x[2] ELSE x
Clob == Text(Unlimited)
Unknown == Plain("unknown")

-----------------------------------------------------------------------------
\* arrow_to_sql_*: the fallback, by dialect.
PgOfArrow(t) ==
  CASE Kind(t) \in {"int", "uint"} -> SInt(IF t[2] <= 16 THEN 16 ELSE t[2])
    [] Kind(t) \in {"bool", "float", "date", "decimal"} -> t
    [] Kind(t) = "stamp"    -> Stamp(6)
    [] Kind(t) = "stamptz"  -> StampTz(6)
    [] Kind(t) = "time"     -> Time(6)
    [] Kind(t) = "interval" -> Interval(6)
    [] Kind(t) = "fixed"    -> IF t[2] = 16 THEN Plain("uuid") ELSE LargeBinary
    [] Kind(t) = "binary"   -> LargeBinary
    [] Kind(t) = "nested"   -> Plain("json")
    [] OTHER                -> Clob

MssqlOfArrow(t) ==
  CASE Kind(t) = "int"  -> SInt(IF t[2] = 8 THEN 16 ELSE t[2])
    [] Kind(t) = "uint" -> CASE t[2] = 8 -> UInt(8) [] t[2] = 64 -> Dec(20, 0) [] OTHER -> SInt(2 * t[2])
    [] Kind(t) \in {"bool", "float", "date", "decimal"} -> t
    [] Kind(t) = "stamp"   -> Stamp(7)
    [] Kind(t) = "stamptz" -> StampTz(7)
    [] Kind(t) = "time"    -> Time(7)
    [] Kind(t) = "fixed"   -> IF t[2] = 16 THEN Plain("uuid") ELSE LargeBinary
    [] Kind(t) = "binary"  -> LargeBinary
    [] OTHER               -> Clob

\* Oracle's DATE is a date with a time of day.
OracleOfArrow(t) ==
  CASE Kind(t) \in {"int", "uint"} -> Dec(Digits(t), 0)
    [] Kind(t) = "bool" -> Dec(1, 0)
    [] Kind(t) \in {"float", "decimal"} -> t
    [] Kind(t) = "date" -> Stamp(0)
    [] Kind(t) = "stamp"   -> Stamp(6)
    [] Kind(t) = "stamptz" -> StampTz(6)
    [] Kind(t) \in {"time", "interval"} -> Interval(6)
    [] Kind(t) = "fixed"  -> IF t[2] = 16 THEN Bytes(16) ELSE LargeBinary
    [] Kind(t) = "binary" -> LargeBinary
    [] Kind(t) = "nested" -> Clob
    [] OTHER              -> Text(4000)

MySqlOfArrow(t) ==
  CASE Kind(t) \in {"int", "uint", "float", "date", "decimal"} -> t
    [] Kind(t) = "bool" -> SInt(8)
    [] Kind(t) \in {"stamp", "stamptz"} -> Stamp(6)
    [] Kind(t) = "time"   -> Time(6)
    [] Kind(t) = "fixed"  -> IF t[2] = 16 THEN Bytes(16) ELSE LargeBinary
    [] Kind(t) = "binary" -> LargeBinary
    [] Kind(t) = "nested" -> Plain("json")
    [] OTHER              -> Text(65535)

\* A Databricks TIMESTAMP is an instant.
DatabricksOfArrow(t) ==
  CASE Kind(t) = "uint" -> SInt(IF t[2] = 64 THEN 64 ELSE 2 * t[2])
    [] Kind(t) \in {"int", "bool", "float", "date", "decimal"} -> t
    [] Kind(t) \in {"stamp", "stamptz"} -> StampTz(6)
    [] Kind(t) \in {"binary", "fixed"} -> LargeBinary
    [] OTHER -> Clob

ArrowTypeToSqlDialect(t, d) ==
  CASE d = "postgres" -> PgOfArrow(t) [] d = "mssql" -> MssqlOfArrow(t)
    [] d = "oracle" -> OracleOfArrow(t) [] d = "mysql" -> MySqlOfArrow(t)
    [] d = "databricks" -> DatabricksOfArrow(t)

-----------------------------------------------------------------------------
\* logical_type_to_target_sql.
Money == Dec(19, 4)
LogicalTypeToTargetSql(lt, p) ==
  CASE lt = "json" -> Pick(Plain("json"), Lossy(Clob), Lossy(Clob), Plain("json"), Clob)
    [] lt = "currency" -> Same(Money)
    [] lt = "uuid" -> Pick(Plain("uuid"), Plain("uuid"), Text(36), Text(36), Clob)
    [] lt = "xml" -> Pick(Plain("xml"), Plain("xml"), Lossy(Clob), Lossy(Clob), Lossy(Clob))
    [] lt = "ip" -> Pick(Plain("inet"), Lossy(Text(45)), Lossy(Text(45)), Lossy(Text(45)), Lossy(Clob))
    [] lt = "mac_addr" -> Pick(Plain("macaddr"), Lossy(Text(23)), Lossy(Text(23)), Lossy(Text(23)), Lossy(Clob))
    [] lt \in {"geometry", "full_text"} -> Pick(Clob, Lossy(Clob), Lossy(Clob), Lossy(Clob), Lossy(Clob))
    [] lt = "bit_string" -> Pick(Clob, Lossy(Clob), Lossy(Text(4000)), Lossy(Text(65535)), Lossy(Clob))
    [] lt = "range" -> Pick(Clob, Lossy(Text(100)), Lossy(Text(100)), Lossy(Text(100)), Lossy(Clob))
    [] lt = "array" -> Pick(Clob, Lossy(Clob), Lossy(Clob), Plain("json"), Clob)
    [] lt = "interval" -> Pick(Interval(6), Lossy(Text(50)), Interval(IF p = NoSize THEN 6 ELSE p),
                               Lossy(Text(50)), Lossy(Clob))
    [] lt = "hstore" -> Pick(Plain("json"), Lossy(Clob), Lossy(Clob), Plain("json"), Clob)
    [] lt = "enum" -> Pick(Clob, Lossy(Text(255)), Lossy(Text(255)), Lossy(Text(255)), Clob)

-----------------------------------------------------------------------------
\* source_type_to_target_sql, by groups of its match. A bare DECIMAL is the server's own
\* default, which only Postgres and Oracle leave open.
IntegerType(name) ==
  CASE name \in {"int2", "smallint"} -> Pick(SInt(16), SInt(16), Dec(5, 0), SInt(16), SInt(16))
    [] name \in {"int4", "int", "integer"} -> Pick(SInt(32), SInt(32), Dec(10, 0), SInt(32), SInt(32))
    [] name \in {"int8", "bigint"} -> Pick(SInt(64), SInt(64), Dec(19, 0), SInt(64), SInt(64))
    [] name = "tinyint" -> Pick(SInt(16), UInt(8), Dec(3, 0), SInt(8), SInt(8))
    [] OTHER -> Same(Unknown)

FloatType(name) ==
  CASE name \in {"float4", "real", "binary_float"} -> Same(Float(32))
    [] name \in {"float8", "float", "double", "double precision", "binary_double"} -> Same(Float(64))
    [] OTHER -> Same(Unknown)

BareDecimal == Pick(AnyNumber, Dec(18, 0), AnyNumber, Dec(10, 0), Dec(10, 0))
DecimalType(name, p, s) ==
  CASE name \in {"numeric", "decimal", "number"} ->
         IF p = NoSize THEN BareDecimal ELSE Same(Dec(p, IF s > 0 THEN s ELSE 0))
    [] name = "money"      -> Same(Money)
    [] name = "smallmoney" -> Same(Dec(10, 4))
    [] name \in {"bool", "boolean", "bit"} ->
         Pick(Plain("bool"), Plain("bool"), Dec(1, 0), SInt(8), Plain("bool"))
    [] OTHER -> Same(Unknown)

Given(p, default) == IF p = NoSize THEN default ELSE p
TimeType(name, p) ==
  CASE name = "date" -> Pick(Plain("date"), Plain("date"), Stamp(0), Plain("date"), Plain("date"))
    [] name = "time" -> Pick(Time(Given(p, 6)), Time(7), Lossy(Interval(Given(p, 6))), Time(Given(p, 6)), Lossy(Clob))
    [] name = "timetz" -> Pick(Plain("timetz"), Lossy(Text(50)), Lossy(Text(50)), Lossy(Text(50)), Lossy(Clob))
    [] name = "timestamp" ->
         Pick(Stamp(Given(p, 6)), Stamp(Given(p, 7)), Stamp(Given(p, 6)), Stamp(Given(p, 6)), StampTz(6))
    [] name \in {"datetime", "datetime2", "smalldatetime"} ->
         Pick(Stamp(6), Stamp(Given(p, 7)), Stamp(6), Stamp(6), StampTz(6))
    [] name \in {"timestamptz", "timestamp with time zone"} ->
         Pick(StampTz(Given(p, 6)), StampTz(Given(p, 7)), StampTz(Given(p, 6)), Lossy(Stamp(Given(p, 6))), StampTz(6))
    [] name = "timestamp with local time zone" ->
         Pick(StampTz(6), StampTz(7), StampTz(Given(p, 6)), Lossy(Stamp(6)), StampTz(6))
    [] name = "datetimeoffset" ->
         Pick(StampTz(6), StampTz(Given(p, 7)), StampTz(6), Lossy(Stamp(6)), StampTz(6))
    [] OTHER -> Same(Unknown)

UpToCut(n, max) == IF n \in {-1, NoSize} THEN Clob ELSE Text(IF n > max THEN max ELSE n)
UpTo(n, max) == IF n \in {-1, NoSize} \/ n > max THEN Clob ELSE Text(n)
Fixed(n) == IF n = NoSize THEN Clob ELSE Char(n)
TextType(name, n) ==
  CASE name \in {"varchar", "character varying", "varchar2"} ->
         Pick(UpTo(n, 65535), UpTo(n, 4000), UpTo(n, 4000), UpTo(n, 16383), Clob)
    [] name \in {"nvarchar", "nvarchar2"} ->
         Pick(UpTo(n, 65535), UpTo(n, 4000), UpTo(n, 2000), UpTo(n, 16383), Clob)
    [] name \in {"char", "bpchar", "character", "nchar"} ->
         Pick(Fixed(n), Fixed(n), Fixed(n), Fixed(n), Clob)
    [] name \in {"text", "ntext", "clob", "nclob", "long", "mediumtext", "longtext", "tinytext"} -> Same(Clob)
    [] OTHER -> Same(Unknown)

\* BINARY without a length is one byte in MySQL; it has no VARBINARY(MAX).
BinaryType(name, n) ==
  LET limited == n \notin {-1, NoSize}
  IN  CASE name \in {"bytea", "blob", "longblob", "tinyblob", "mediumblob", "image", "long raw"} -> Same(LargeBinary)
        [] name = "binary" ->
             Pick(LargeBinary, IF limited THEN Bytes(n) ELSE LargeBinary, Bytes(2000), Bytes(1), LargeBinary)
        [] name \in {"varbinary", "raw"} ->
             Pick(LargeBinary, IF limited THEN Bytes(n) ELSE LargeBinary,
                  IF limited THEN Bytes(n) ELSE LargeBinary, Plain("varbinary(max)"), LargeBinary)
        [] OTHER -> Same(Unknown)

OtherType(name) ==
  CASE name \in {"uuid", "uniqueidentifier"} -> Pick(Plain("uuid"), Plain("uuid"), Text(36), Text(36), Clob)
    [] name = "json"  -> Pick(Plain("json"), Clob, Clob, Plain("json"), Clob)
    [] name = "jsonb" -> Pick(Plain("json"), Lossy(Clob), Lossy(Clob), Lossy(Plain("json")), Lossy(Clob))
    [] name \in {"xml", "xmltype"} -> Pick(Clob, Plain("xml"), Plain("xml"), Lossy(Clob), Lossy(Clob))
    [] name \in {"inet", "cidr"} -> Pick(Plain("inet"), Lossy(Text(50)), Lossy(Text(50)), Lossy(Text(50)), Lossy(Clob))
    [] name \in {"macaddr", "macaddr8"} -> Pick(Plain(name), Lossy(Text(25)), Lossy(Text(25)), Lossy(Text(25)), Lossy(Clob))
    [] OTHER -> Same(Unknown)

\* The groups share no name: at most one of them knows it.
SourceTypeToTargetSql(f) ==
  LET known == {g \in {IntegerType(f.name), FloatType(f.name), DecimalType(f.name, f.p, f.s),
                       TimeType(f.name, f.p), TextType(f.name, f.n), BinaryType(f.name, f.n),
                       OtherType(f.name)} : g # Same(Unknown)}
  IN  IF known = {} THEN Same(Unknown) ELSE CHOOSE g \in known : TRUE

ResolveFromSourceOrArrow(f, d) ==
  LET own == SourceTypeToTargetSql(f)[d]
  IN  IF own = Unknown THEN ArrowTypeToSqlDialect(f.arrow, d) ELSE own

\* SQL Server's times are created with all seven digits, whatever was asked for.
ResolveSqlType(f, d) ==
  LET resolved == CASE f.explicit # Plain("none") -> f.explicit
                    [] f.logical # "none" -> LogicalTypeToTargetSql(f.logical, f.p)[d]
                    [] OTHER -> ResolveFromSourceOrArrow(f, d)
  IN  IF d = "mssql" /\ Kind(TypeIn(resolved)) = "time" THEN Time(7) ELSE resolved

-----------------------------------------------------------------------------
\* What the server makes of a column's type: itself, fewer digits of a second in
\* Postgres, or an error.
Refused == Plain("refused")
MaxDigits == Pick(1000, 38, 38, 65, 38)
MaxFraction == Pick(9, 7, 9, 6, 6)
MaxChar == Pick(10485760, 4000, 2000, 255, Unlimited)
MaxBinary == Pick(Unlimited, 8000, 2000, 65535, Unlimited)
Made(t, d) ==
  CASE Kind(t) = "varbinary(max)" -> Refused
    [] Kind(t) = "decimal" /\ t # AnyNumber -> IF t[2] <= MaxDigits[d] THEN t ELSE Refused
    [] Kind(t) \in {"time", "stamp", "stamptz"} ->
         IF t[2] > MaxFraction[d] THEN Refused
         ELSE IF d = "postgres" /\ t[2] > 6 THEN Type(Kind(t), 6, 0) ELSE t
    [] Kind(t) = "char" -> IF t[2] <= MaxChar[d] THEN t ELSE Refused
    [] Kind(t) = "binary" -> IF t = LargeBinary \/ t[2] <= MaxBinary[d] THEN t ELSE Refused
    [] OTHER -> t

\* A field that no source has given a type, as transforms, files and REST make them.
ArrowTypes ==
  {SInt(b) : b \in {8, 16, 32, 64}} \cup {UInt(b) : b \in {8, 16, 32, 64}}
    \cup {Float(32), Float(64), Plain("bool"), Plain("date"), Stamp(6), Stamp(9), StampTz(6), Time(6),
           Interval(6), Utf8, LargeBinary, Type("fixed", 16, 0), Dec(10, 2), Dec(38, 10), Plain("nested")}
BareField(t) == [arrow |-> t, name |-> "unknown", explicit |-> Plain("none"), logical |-> "none",
                 p |-> NoSize, s |-> NoSize, n |-> NoSize]

CreateCases ==
  [algo : {"create"}, dialect : Dialects, from : SourceColumnsUsed]
    \cup [algo : {"create"}, dialect : Dialects, arrow : ArrowTypes]

FieldIn(c) == IF "from" \in DOMAIN c THEN FieldOf(c.from) ELSE BareField(c.arrow)

CreatedFor(c) == ResolveSqlType(FieldIn(c), c.dialect)

\* What has to fit: the values of the source, or as many of them as Arrow's type keeps.
FitsIn(made, c) ==
  \/ Holds(made, FieldIn(c).arrow)
  \/ "from" \in DOMAIN c /\ Holds(made, c.from.values)

\* The columns that are created too narrow without a word, or not created, by cause:
\* a decimal whose precision did not come with the batch; digits, lengths and fractions
\* beyond the server's; tinyint and the unsigned types, which differ in their sign; all
\* nullable integers of SQL Server under the name int; Oracle's dates, whose time of day
\* is lost; MySQL's BINARY and VARBINARY; macaddr8; long texts; and zones in MySQL.
NarrowedFrom(col, d) ==
  LET f == FieldOf(col)
  IN  \/ f.name \in {"numeric", "decimal", "number"} /\ f.p = NoSize /\ d \in {"mssql", "mysql", "databricks"}
      \/ f.name = "numeric" /\ f.p > 38 /\ d \in {"mssql", "oracle", "databricks"}
      \/ col.name = "tinyint" /\ <<col.driver, d>> \in {<<"mysql", "mssql">>, <<"mssql", "mysql">>, <<"mssql", "databricks">>}
      \/ col.name = "intn"
      \/ col.driver = "oracle" /\ col.name = "date" /\ d # "oracle"
      \/ col.name \in {"binary", "varbinary", "raw"} /\ d = "mysql"
      \/ col.name = "binary" /\ d = "oracle"
      \/ f.name \in {"bpchar", "nchar"} /\ f.n > MaxChar[d]
      \/ f.name = "timestamp" /\ f.p > MaxFraction[d]
      \/ col.name = "macaddr8" /\ d = "postgres"
NarrowedArrow(t, d) ==
  \/ Kind(t) = "uint" /\ d = "postgres" /\ t[2] > 8
  \/ t = UInt(64) /\ d = "databricks"
  \/ t = Utf8 /\ d \in {"mysql", "oracle"}
  \/ t = Stamp(9)
  \/ Kind(t) = "stamptz" /\ d = "mysql"

\* Every other created column holds what is sent to it, or a warning says that it may not.
ColumnFits(c) ==
  LET made == Made(TypeIn(CreatedFor(c)), c.dialect)
  IN  \/ made # Refused /\ (Warned(CreatedFor(c)) \/ FitsIn(made, c))
      \/ "from" \in DOMAIN c /\ NarrowedFrom(c.from, c.dialect)
      \/ "arrow" \in DOMAIN c /\ NarrowedArrow(c.arrow, c.dialect)
=============================================================================
