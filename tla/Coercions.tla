------------------------------- MODULE Coercions -------------------------------
(***************************************************************************)
(* How a batch is bent to the columns of a SQL Server, MySQL, Oracle or    *)
(* Databricks table (src/common/src/db/common/type_coercion.rs and the     *)
(* drivers' type_registry.rs), what the sink then sends of a value, and    *)
(* what the server makes of it. SQL Server is written through its staging  *)
(* table.                                                                  *)
(***************************************************************************)
EXTENDS SqlTypes

LargeUtf8 == Plain("largeutf8")
Fixed16   == Type("fixed", 16, 0)
Textual(t)  == Kind(t) \in {"text", "largeutf8"}
Numerical(t) == Kind(t) \in {"int", "uint", "float", "decimal"}
Moments == {"date", "stamp", "stamptz"}

\* A value: a number with the bits, the whole digits and the decimals it takes, as such or
\* as a text; or one of the other kinds.
Number(bits, whole, decimals) == <<"number", bits, whole, decimals>>
Other(kind) == <<kind, 0, 0, 0>>
Minus == <<"minus", 8, 1, 0>>
Flag  == Other("flag")

Wholes == {Number(w[1], w[2], 0) : w \in {<<8, 3>>, <<9, 3>>, <<16, 5>>, <<32, 10>>, <<64, 19>>, <<65, 20>>, <<91, 28>>}}
Fractions == {Number(8, 1, n) : n \in {2, 4, 10}}

ValuesIn(t) ==
  CASE Kind(t) = "int"  -> {Minus} \cup {v \in Wholes : v[2] <= t[2]}
    [] Kind(t) = "uint" -> {v \in Wholes : v[2] - 1 <= t[2]}
    [] Kind(t) = "decimal" -> {Minus} \cup Wholes \cup Fractions
    [] Kind(t) = "float" -> {Number(8, 3, 0), Number(8, 1, 10), Number(400, 101, 0)}
    [] Kind(t) = "bool" -> {Flag}
    [] Textual(t) -> {<<"digits", v[2], v[3], v[4]>> : v \in {Number(8, 3, 0), Number(65, 20, 0), Number(8, 1, 2)}}
                       \cup {Other("moment"), Other("uuid"), Other("word")}
    [] Kind(t) = "fixed"  -> {Other("uuid bytes")}
    [] Kind(t) = "binary" -> {Other("bytes")}
    [] OTHER -> {Other("clock")}

IsNumber(v) == v[1] \in {"number", "minus", "digits"}

\* A column: its type as the user or the catalogue writes it, and what it holds.
SqlColumn(driver, name, p, s, holds) == [driver |-> driver, name |-> name, p |-> p, s |-> s, holds |-> holds]
Unsized(driver, names) == {SqlColumn(driver, n[1], NoSize, NoSize, n[2]) : n \in names}

MssqlTargets ==
  Unsized("mssql", {<<"tinyint", UInt(8)>>, <<"smallint", SInt(16)>>, <<"int", SInt(32)>>, <<"bigint", SInt(64)>>,
     <<"bit", Plain("bool")>>, <<"float", Float(64)>>, <<"money", Money>>, <<"datetime2", Stamp(7)>>,
     <<"datetimeoffset", StampTz(7)>>, <<"date", Plain("date")>>, <<"time", Time(7)>>, <<"nvarchar", Utf8>>,
     <<"varbinary", LargeBinary>>, <<"uniqueidentifier", Plain("uuid")>>})
    \cup {SqlColumn("mssql", "decimal", 18, 2, Dec(18, 2)), SqlColumn("mssql", "decimal", 28, NoSize, Dec(28, 0))}
MySqlTargets ==
  Unsized("mysql", {<<"tinyint", SInt(8)>>, <<"smallint", SInt(16)>>, <<"int", SInt(32)>>, <<"bigint", SInt(64)>>,
     <<"double", Float(64)>>, <<"datetime", Stamp(6)>>, <<"timestamp", StampTz(6)>>, <<"date", Plain("date")>>,
     <<"time", Time(6)>>, <<"varchar", Utf8>>, <<"longtext", Utf8>>, <<"json", Plain("json")>>, <<"blob", LargeBinary>>})
    \cup {SqlColumn("mysql", "decimal", 20, 2, Dec(20, 2)), SqlColumn("mysql", "binary", 16, NoSize, Bytes(16))}
OracleTargets ==
  Unsized("oracle", {<<"number", AnyNumber>>, <<"date", Stamp(0)>>, <<"varchar2", Utf8>>, <<"clob", Utf8>>, <<"blob", LargeBinary>>})
    \cup {SqlColumn("oracle", n[1], n[2], n[3], n[4]) : n \in {
            <<"number", 9, 0, Dec(9, 0)>>, <<"number", 38, 0, Dec(38, 0)>>, <<"number", 20, 2, Dec(20, 2)>>,
            <<"timestamp", 6, NoSize, Stamp(6)>>, <<"timestamp with time zone", 6, NoSize, StampTz(6)>>,
            <<"raw", 16, NoSize, Bytes(16)>>}}
DatabricksTargets ==
  Unsized("databricks", {<<"tinyint", SInt(8)>>, <<"smallint", SInt(16)>>, <<"int", SInt(32)>>, <<"bigint", SInt(64)>>,
     <<"double", Float(64)>>, <<"boolean", Plain("bool")>>, <<"timestamp", StampTz(6)>>, <<"date", Plain("date")>>,
     <<"string", Utf8>>, <<"binary", LargeBinary>>})
    \cup {SqlColumn("databricks", "decimal", 20, 2, Dec(20, 2))}

-----------------------------------------------------------------------------
\* sql_to_arrow_type, by driver: what a declared column is cast to when the sink drops and
\* makes the table, and so does not ask the catalogue.
IntegerOf(name) ==
  CASE name = "smallint" -> SInt(16) [] name = "int" -> SInt(32) [] name = "bigint" -> SInt(64)

MssqlExpects(c) ==
  CASE c.name \in {"smallint", "int", "bigint"} -> IntegerOf(c.name)
    [] c.name = "tinyint" -> UInt(8)
    [] c.name = "datetime2" -> Stamp(6)
    [] c.name = "time"      -> Time(9)
    [] c.name = "datetimeoffset" -> StampTz(6)
    [] c.name \in {"decimal", "money"} -> IF c.s = NoSize THEN Dec(18, 2) ELSE Dec(c.p, c.s)
    [] c.name \in {"nvarchar", "uniqueidentifier"} -> Utf8
    [] OTHER -> c.holds

MySqlExpects(c) ==
  CASE c.name \in {"smallint", "int", "bigint"} -> IntegerOf(c.name)
    [] c.name = "decimal" -> Dec(c.p, IF c.s = NoSize THEN 0 ELSE c.s)
    [] c.name = "json"     -> Utf8
    [] c.name = "binary"   -> LargeBinary
    [] c.name = "longtext" -> LargeUtf8
    [] OTHER -> c.holds

OracleExpects(c) ==
  CASE c.name = "number" ->
         CASE c.p = NoSize -> Dec(38, 10) [] c.s = 0 -> SInt(IF c.p <= 9 THEN 32 ELSE 64) [] OTHER -> Dec(c.p, c.s)
    [] c.name = "date" -> Plain("date")
    [] c.name = "clob" -> LargeUtf8
    [] c.name = "raw"  -> LargeBinary
    [] OTHER -> c.holds

SqlToArrowType(c) ==
  CASE c.driver = "mssql" -> MssqlExpects(c)   [] c.driver = "mysql" -> MySqlExpects(c)
    [] c.driver = "oracle" -> OracleExpects(c) [] c.driver = "databricks" -> c.holds

-----------------------------------------------------------------------------
\* needs_coercion: the type a field is cast to for a column that is there, or its own.
NarrowestFor(t, c) == IF Kind(t) = "int" /\ c.name \in {"int", "smallint", "tinyint"} THEN c.holds ELSE t

MomentFor(t, c) ==
  CASE c.name = "datetimeoffset" \/ c.name = "timestamp with time zone" -> StampTz(6)
    [] c.name = "timestamp" /\ c.driver \in {"mysql", "databricks"} -> StampTz(6)
    [] c.name \in {"datetime2", "datetime", "timestamp"} -> Stamp(6)
    [] OTHER -> t

NarrowerFor(t, c) ==
  CASE t = SInt(64) /\ c.name = "int" -> SInt(32)
    [] t = SInt(32) /\ c.name = "smallint" -> SInt(16)
    [] t = SInt(16) /\ c.name = "tinyint" -> c.holds
    [] OTHER -> t

\* Only Databricks' catalogue gives a type with its parameters, and Oracle's those of its
\* timestamps: the other decimals, BINARY(16) and RAW(16) are not recognised.
Catalogue(c) == IF c.driver = "databricks" THEN c ELSE [c EXCEPT !.p = NoSize, !.s = NoSize]

TextFor(t, c) ==
  CASE c.name \in {"binary", "raw"} /\ c.p = 16 -> Fixed16
    [] t = LargeUtf8 /\ c.name \in {"nvarchar", "uniqueidentifier", "varchar", "varchar2", "string"} -> Utf8
    [] OTHER -> t

NeedsCoercion(t, c) ==
  CASE Kind(t) \in {"stamp", "stamptz"} -> MomentFor(t, c)
    [] Kind(t) = "int" -> NarrowerFor(t, c)
    [] Kind(t) = "decimal" -> IF c.name = "decimal" /\ c.p # NoSize THEN Dec(c.p, IF c.s = NoSize THEN 0 ELSE c.s) ELSE t
    [] Textual(t) -> TextFor(t, c)
    [] t = Fixed16 -> IF c.name \in {"uniqueidentifier", "varchar", "varchar2", "string"} THEN Utf8 ELSE t
    [] OTHER -> t

\* coerce_batch_for_target.
Coerced(c) == IF c.known THEN NeedsCoercion(c.arrow, Catalogue(c.column)) ELSE SqlToArrowType(c.column)

-----------------------------------------------------------------------------
\* Whether a type keeps a value, keeps it without its last decimals or its zone, or not.
NumberIn(T, v) ==
  LET room == CASE Kind(T) = "int" -> v[2] <= T[2]
                [] Kind(T) = "uint" -> v[2] - 1 <= T[2] /\ v[1] # "minus"
                [] Kind(T) = "decimal" -> v[3] <= T[2] - T[3]
                [] Kind(T) = "float" -> TRUE
      exact == CASE Kind(T) = "decimal" -> v[4] <= T[3] [] Kind(T) = "float" -> v[3] + v[4] <= 15 [] OTHER -> v[4] = 0
  IN  IF ~room THEN "out" ELSE IF exact THEN "stored" ELSE "cut"

MomentIn(T, t) ==
  IF Kind(t) = "date" \/ <<Kind(t), Kind(T)>> = <<"stamp", "stamptz">> \/ Holds(T, t) THEN "stored" ELSE "cut"

KeptIn(T, t, v) ==
  CASE Textual(T) -> "stored"
    [] Numerical(T) -> IF v = Flag THEN "stored" ELSE IF IsNumber(v) THEN NumberIn(T, v) ELSE "out"
    [] Kind(T) = "bool" -> IF v = Flag THEN "stored" ELSE IF IsNumber(v) THEN "cut" ELSE "out"
    [] Kind(T) \in Moments -> CASE v[1] = "clock" -> MomentIn(T, t) [] v[1] = "moment" -> "stored" [] OTHER -> "out"
    [] Kind(T) = "time" -> CASE v[1] = "clock" -> IF Holds(T, t) THEN "stored" ELSE "cut" [] OTHER -> "out"
    [] Kind(T) = "uuid" -> IF v[1] \in {"uuid", "uuid bytes"} THEN "stored" ELSE "out"
    [] Kind(T) = "json" -> IF v[1] = "digits" THEN "stored" ELSE "out"
    [] Kind(T) = "fixed" -> IF v[1] = "uuid" THEN "stored" ELSE "out"
    [] Kind(T) = "binary" -> IF v[1] \in {"bytes", "uuid bytes"} \/ (T[2] = 16 /\ v[1] = "uuid") THEN "stored" ELSE "out"

\* apply_coercion_operation. Arrow's cast makes NULL of what the type does not keep; only
\* a UUID is parsed by the program itself, which fails on what is none.
Cast(c) ==
  LET T == Coerced(c)
      kept == KeptIn(T, c.arrow, c.value)
  IN  CASE T = c.arrow -> "stored"
        [] T = Fixed16 -> IF kept = "out" THEN "refused" ELSE kept
        [] c.arrow = Fixed16 /\ T = Utf8 /\ ~c.known -> "refused"
        [] Textual(c.arrow) /\ Kind(T) = "binary" -> "stored"
        [] c.value[1] = "digits" /\ Kind(T) = "int" /\ c.value[4] > 0 -> "null"
        [] kept = "out" -> "null"
        [] OTHER -> kept

\* The value when it has been cast.
Recast(T, v) ==
  CASE Numerical(T) /\ v = Flag -> Number(8, 1, 0)
    [] Numerical(T) /\ IsNumber(v) ->
         <<IF v[1] = "minus" THEN "minus" ELSE "number", v[2], v[3],
           CASE Kind(T) = "decimal" /\ v[4] > T[3] -> T[3] [] Kind(T) \in {"int", "uint"} -> 0 [] OTHER -> v[4]>>
    [] Kind(T) = "bool" /\ IsNumber(v) -> Flag
    [] Kind(T) \in Moments /\ v[1] = "moment" -> Other("clock")
    [] Kind(T) = "binary" /\ v[1] = "uuid" -> Other("bytes")
    [] Kind(T) = "fixed" /\ v[1] = "uuid" -> Other("uuid bytes")
    [] Textual(T) /\ v[1] = "uuid bytes" -> Other("uuid")
    [] OTHER -> v

-----------------------------------------------------------------------------
\* What a sink sends of a value: MySQL's its text, in which a flag is a word, an instant
\* ends in a Z and bytes are hexadecimal digits; Databricks' a literal, of bytes likewise;
\* Oracle's a typed value, and for some types none; SQL Server's a typed value for the
\* staging table, where decimals and times are texts.
MySqlSends(t, v) ==
  CASE v = Flag -> Other("word")
    [] Kind(t) = "stamptz" -> Other("zoned")
    [] Kind(t) = "binary" \/ t = Fixed16 -> Other("hex")
    [] OTHER -> v
DatabricksSends(t, v) == IF Kind(t) = "binary" \/ t = Fixed16 THEN Other("hex") ELSE v
OracleSends(t, v) == IF t = UInt(64) \/ t = Fixed16 THEN Other("nothing") ELSE v
MssqlSends(t, v) == IF Kind(t) = "decimal" /\ v[1] = "number" THEN <<"digits", v[2], v[3], v[4]>> ELSE v
Sent(driver, t, v) ==
  CASE driver = "mysql" -> MySqlSends(t, v) [] driver = "databricks" -> DatabricksSends(t, v)
    [] driver = "oracle" -> OracleSends(t, v) [] driver = "mssql" -> MssqlSends(t, v)

\* What the servers make of it. Digits sent for bytes are bytes of their own; SQL Server
\* reads the bytes of a UUID in another order; MySQL takes no zone in a literal.
StoredAs(c, t, v) ==
  LET T == c.column.holds
  IN  CASE v[1] \in {"nothing", "zoned"} /\ ~Textual(T) -> "refused"
        [] v[1] = "nothing" -> "refused"
        [] v[1] = "hex" /\ ~Textual(T) -> IF T = Bytes(16) THEN "refused" ELSE "changed"
        [] Kind(T) = "uuid" /\ v[1] = "uuid bytes" -> "changed"
        [] T = Bytes(16) /\ v[1] # "uuid bytes" -> "refused"
        [] Textual(t) /\ Kind(T) = "binary" /\ c.column.driver # "mysql" -> "refused"
        [] OTHER -> LET kept == KeptIn(T, t, v) IN IF kept = "out" THEN "refused" ELSE kept

\* INSERT IGNORE stores the nearest value a column has for one it refuses.
Ignoring(c, stored) == IF c.ignore /\ stored = "refused" THEN "changed" ELSE stored

ArrivesAs(c) ==
  LET cast == Cast(c)
      t == IF Kind(Coerced(c)) = "time" THEN c.arrow ELSE Coerced(c)
      stored == Ignoring(c, StoredAs(c, t, Sent(c.column.driver, t, Recast(t, c.value))))
  IN  CASE cast \in {"null", "refused"} -> cast
        [] cast = "cut" /\ stored = "stored" -> "cut"
        [] OTHER -> stored

-----------------------------------------------------------------------------
\* What is sent to what: numbers, flags and texts to numbers and flags, and so on.
Suits(T, t, v) ==
  \/ Textual(T) /\ v[1] \notin {"clock", "flag", "bytes"}
  \/ (Numerical(T) \/ Kind(T) = "bool") /\ (IsNumber(v) \/ v = Flag \/ v[1] = "word")
  \/ Kind(T) \in Moments /\ (Kind(t) \in Moments \/ v[1] \in {"moment", "word"})
  \/ Kind(T) = "time" /\ Kind(t) = "time"
  \/ Kind(T) = "json" /\ Textual(t) /\ v[1] \in {"digits", "word"}
  \/ T = LargeBinary /\ Kind(t) = "binary"
  \/ (Kind(T) = "uuid" \/ T = Bytes(16)) /\ v[1] \in {"uuid", "uuid bytes"}
  \/ Kind(T) = "uuid" /\ v[1] = "word"

BatchTypes ==
  {SInt(n) : n \in {8, 16, 32, 64}} \cup {UInt(8), UInt(64), Float(64), Plain("bool"), Dec(38, 10), Plain("date"),
     Stamp(6), Stamp(9), StampTz(6), Time(6), Utf8, LargeUtf8, Fixed16, LargeBinary}

CoerceCases ==
  {k \in UNION {[algo : {"coerce"}, column : MssqlTargets \cup MySqlTargets \cup OracleTargets \cup DatabricksTargets,
                 known : BOOLEAN, ignore : BOOLEAN, arrow : {t}, value : ValuesIn(t)] : t \in BatchTypes} :
     Suits(k.column.holds, k.arrow, k.value) /\ (k.ignore => k.column.driver = "mysql" /\ k.known)}

\* What a column would take of the value if it came as it is.
Deserves(c) == KeptIn(c.column.holds, c.arrow, c.value)

\* The values that are lost or changed without an error: what does not fit the next
\* narrower integer, or a Databricks decimal; bytes, in MySQL and Databricks; whatever
\* INSERT IGNORE is told to ignore; in a declared column all that Arrow's cast gives up;
\* and what the declared type is cast to has no room for: a time of day in Oracle's DATE,
\* decimals of MONEY, the digits of a DECIMAL without a scale, of NUMBER and NUMBER(38,0).
LostSilently(c) ==
  LET narrowed == \/ <<c.arrow, c.column.name>> \in {<<SInt(64), "int">>, <<SInt(32), "smallint">>, <<SInt(16), "tinyint">>}
                  \/ c.column.driver = "databricks" /\ Kind(c.arrow) = "decimal" /\ Kind(c.column.holds) = "decimal"
  IN  \/ Kind(c.arrow) = "binary" /\ c.column.driver \in {"mysql", "databricks"}
      \/ c.ignore
      \/ Deserves(c) = "out" /\ (narrowed \/ ~c.known)
      \/ ~c.known /\ c.value[1] = "digits" /\ Deserves(c) = "cut"
      \/ /\ ~c.known /\ c.column.name \in {"date", "money", "decimal", "number"}
         /\ KeptIn(SqlToArrowType(c.column), c.arrow, c.value) # Deserves(c)

\* Every other value is kept as far as the column can keep it, or refused with an error.
KeptOrRefused(c) ==
  LostSilently(c) \/ ArrivesAs(c) \in {"stored", "refused"} \/ (ArrivesAs(c) = "cut" /\ Deserves(c) = "cut")

\* The fitting values that are refused all the same: flags and instants in MySQL, UUIDs in
\* a BINARY(16) or RAW(16), and Oracle's unsigned and fixed-size types.
RefusedThough(c) ==
  \/ c.column.driver = "mysql" /\ (c.arrow = Plain("bool") \/ c.column.name = "timestamp")
  \/ c.column.holds = Bytes(16)
  \/ c.column.driver = "oracle" /\ c.arrow \in {UInt(64), Fixed16}
  \/ ~c.known /\ c.arrow = Fixed16

\* Every other value that the column has room for arrives in it as it is.
FittingArrives(c) ==
  Deserves(c) = "stored" /\ ~LostSilently(c) /\ ~RefusedThough(c) => ArrivesAs(c) = "stored"
=============================================================================
