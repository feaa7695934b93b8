-------------------------------- MODULE PgTypes ---------------------------------
(***************************************************************************)
(* What becomes of a value on its way into a Postgres column               *)
(* (src/drivers/postgres/src/sink.rs): COPY writes it in the binary form   *)
(* of its Arrow type, bent here and there to the column's type; an INSERT  *)
(* binds it as a parameter with a type of its own; and a staged write      *)
(* copies it into a column made for its Arrow type and selects it into     *)
(* the table from there. The server only checks lengths and ranges.        *)
(***************************************************************************)
EXTENDS SqlTypes

WritePaths == {"copy", "staged", "insert"}

\* A value: an integer with the bits it needs, a text by its length, whether it is a
\* UUID, or another value, which may be out of range or finer than a microsecond.
Bits(n) == <<"bits", n>>
Chars(n) == <<"chars", n>>
UuidText == <<"uuid", 36>>
Usual == <<"usual", 0>>
Far   == <<"far", 0>>
Fine  == <<"fine", 0>>

ValuesOf(t) ==
  CASE Kind(t) = "int"  -> {Bits(n) : n \in {8, 16, 32, 64} \cap 0..t[2]}
    [] Kind(t) = "uint" -> {Bits(8), Bits(t[2] + 1)}
    [] Kind(t) = "text" -> {Chars(8), Chars(12), Chars(16), Chars(20), UuidText}
    [] Kind(t) \in {"stamp", "stamptz"} -> {Usual} \cup (IF t[2] > 6 THEN {Fine} ELSE {Far})
    [] Kind(t) = "time" -> {Usual, Far} \cup (IF t[2] > 6 THEN {Fine} ELSE {})
    [] Kind(t) = "date" -> {Usual, Far}
    [] OTHER -> {Usual}

Integral(t) == Kind(t) \in {"int", "uint"}
Clock(t) == Kind(t) \in {"stamp", "stamptz", "time"}

\* The column's type as the writers tell it apart: from the table's catalogue, or, when
\* the sink has dropped and made the table, from the name the source gave the type.
Catalogued(T) ==
  CASE T = SInt(16) -> "int2" [] T = SInt(32) -> "int4" [] Kind(T) = "json" -> "jsonb"
    [] Kind(T) \in {"uuid", "bool", "stamp", "stamptz"} -> Kind(T)
    [] OTHER -> "other"
Named(name) ==
  CASE name \in {"smallint", "int2"} -> "int2"
    [] name \in {"integer", "int", "int4"} -> "int4"
    [] name \in {"uuid", "jsonb"} -> name
    [] OTHER -> "other"

-----------------------------------------------------------------------------
\* write_binary_value: the form a field is written in, its bytes, and whether it is still
\* the value. as i32 and as i16 keep the low bits.
Form(kind, bytes, same) == <<kind, bytes, same>>
TextForm(v) == Form("text", v[2], TRUE)
IntForm(bits, v) == Form("int", bits \div 8, v[2] <= bits)

\* from_array: the column's type matters for JSONB, UUID and the narrower integers ...
Bent(t, class) ==
  \/ t = Utf8 /\ class \in {"jsonb", "uuid"}
  \/ t = SInt(64) /\ class \in {"int4", "int2"}
  \/ t = SInt(32) /\ class = "int2"
BentForm(t, class, v) ==
  CASE class = "jsonb" -> Form("jsonb", v[2] + 1, TRUE)
    [] class = "uuid"  -> IF v = UuidText THEN Form("uuid", 16, TRUE) ELSE TextForm(v)
    [] class = "int4"  -> IntForm(32, v)
    [] class = "int2"  -> IntForm(16, v)

\* ... and for nothing else (from_array_inner). A signed form twice as wide takes an
\* unsigned integer; the widest is written as digits, eight for some.
UnsignedAsWide(t, v) == IntForm(t[2], v)
Unsigned(t, v) == IntForm(2 * t[2], v)
NumberForm(t, v) ==
  CASE Kind(t) = "int" -> IntForm(IF t[2] = 8 THEN 16 ELSE t[2], v)
    [] t = UInt(64)    -> Form("text", IF v = Bits(8) THEN 3 ELSE 8, TRUE)
    [] Kind(t) = "uint"  -> Unsigned(t, v)
    [] Kind(t) = "float" -> Form("float", t[2] \div 8, TRUE)
    [] Kind(t) = "bool"  -> Form("bool", 1, TRUE)
ClockForm(t, v) ==
  CASE Kind(t) \in {"stamp", "stamptz"} -> Form("stamp", 8, v # Fine)
    [] Kind(t) = "time" -> Form("time", 8, v # Fine)
    [] Kind(t) = "date" -> Form("date", 4, TRUE)
OwnForm(t, v) ==
  CASE Kind(t) \in {"int", "uint", "float", "bool"} -> NumberForm(t, v)
    [] Kind(t) \in {"stamp", "stamptz", "time", "date"} -> ClockForm(t, v)
    [] Kind(t) = "interval" -> Form("interval", 16, TRUE)
    [] Kind(t) = "decimal"  -> Form("numeric", 12, TRUE)
    [] Kind(t) = "binary"   -> Form("raw", 20, TRUE)
    [] Kind(t) = "fixed"    -> Form("uuid", t[2], TRUE)
    [] Kind(t) = "text"     -> TextForm(v)
    [] OTHER -> Form("text", 20, TRUE)

WireForm(t, class, v) == IF Bent(t, class) THEN BentForm(t, class, v) ELSE OwnForm(t, v)

\* The forms the server reads: each fixed type wants its length and takes it for a value.
FormOf(T) ==
  CASE Integral(T) \/ Kind(T) = "float" -> <<Kind(T), T[2] \div 8>>
    [] Kind(T) \in {"stamp", "stamptz"} -> <<"stamp", 8>> [] Kind(T) = "time" -> <<"time", 8>>
    [] Kind(T) = "date" -> <<"date", 4>>     [] Kind(T) = "bool" -> <<"bool", 1>>
    [] Kind(T) = "uuid" -> <<"uuid", 16>>    [] Kind(T) = "interval" -> <<"interval", 16>>
    [] Kind(T) = "timetz" -> <<"timetz", 12>> [] Kind(T) = "macaddr" -> <<"macaddr", 6>>
    [] Kind(T) = "json" -> <<"jsonb", 0>>    [] Kind(T) = "decimal" -> <<"numeric", 0>>
    [] Kind(T) = "inet" -> <<"inet", 0>>     [] Kind(T) = "macaddr8" -> <<"macaddr8", 8>>
    [] Kind(T) = "binary" -> <<"raw", 0>>    [] OTHER -> <<"text", 0>>

Silent == {"garbled", "null"}
Unclear == {"garbled", "refused"}
KeptAs(T, t, v) ==
  CASE Kind(T) \in {"text", "char"} -> IF v[2] <= T[2] THEN {"stored"} ELSE {"refused"}
    [] Kind(T) = "decimal" -> IF Holds(T, t) THEN {"stored"} ELSE {"cut", "refused"}
    [] v = Far -> IF Kind(T) \in {"stamp", "stamptz"} THEN {"stored", "refused"} ELSE {"refused"}
    [] OTHER -> {"stored"}

\* Eight bytes begin with no digits at all: an integer in a NUMERIC is a zero.
Received(T, form, t, v) ==
  LET own == FormOf(T)
  IN  CASE form[1] = own[1] /\ own[2] \in {0, form[2]} ->
             IF form[3] THEN KeptAs(T, t, v) ELSE IF v = Fine THEN {"cut"} ELSE Unclear
        [] own[1] = "raw" -> IF form[1] \in {"text", "uuid"} THEN {"stored"} ELSE {"garbled"}
        [] own[1] = "text" -> Unclear
        [] own[1] = "numeric" -> IF form[1] = "int" /\ form[2] = 8 THEN Unclear ELSE {"refused"}
        [] own[2] = form[2] -> Unclear
        [] OTHER -> {"refused"}

-----------------------------------------------------------------------------
\* bind_value: what is bound of a value. An instant or a time that chrono has no value
\* for is bound as NULL, and a date it cannot reach ends the task.
Parameter(t, v) ==
  CASE t = UInt(64) /\ v[2] > 64 -> "garbled"
    [] Clock(t) -> CASE v = Far -> "null" [] v = Fine -> "cut" [] OTHER -> "stored"
    [] Kind(t) = "date" /\ v = Far -> "panic"
    [] OTHER -> "stored"

\* resolve_single_column: the type it is bound as, that of the column for a UUID, JSON or
\* an instant.
ParameterType(t, class, v) ==
  CASE class = "uuid" /\ (t = Type("fixed", 16, 0) \/ v = UuidText) -> Plain("uuid")
    [] class = "jsonb" /\ t = Utf8 -> Plain("json")
    [] Kind(t) \in {"stamp", "stamptz"} -> Type(IF class \in {"stamp", "stamptz"} THEN class ELSE Kind(t), 6, 0)
    [] Integral(t) -> SInt(IF t = SInt(8) THEN 16 ELSE IF Kind(t) = "uint" /\ t # UInt(64) THEN 2 * t[2] ELSE t[2])
    [] Kind(t) = "time"   -> Time(6)
    [] Kind(t) = "fixed"  -> LargeBinary
    [] Kind(t) = "nested" -> Utf8
    [] OTHER -> t

\* The assignment casts of the server, which checks ranges and rounds.
Rounded == {"cut", "refused"}
Numeric(T) == Kind(T) \in {"int", "float", "decimal"}
Assigned(T, p, v) ==
  CASE Kind(T) = "int" /\ Kind(p) = "int" -> IF v[2] <= T[2] THEN {"stored"} ELSE {"refused"}
    [] Numeric(T) /\ Numeric(p) -> IF Holds(T, p) THEN {"stored"} ELSE Rounded \cup {"stored"}
    [] Kind(T) \in {"text", "char"} -> IF Kind(p) = "text" THEN KeptAs(T, p, v) ELSE {"stored", "refused"}
    [] Kind(T) = Kind(p) -> {"stored"}
    [] <<Kind(p), Kind(T)>> \in {<<"date", "stamp">>, <<"date", "stamptz">>, <<"time", "interval">>} -> {"stored"}
    [] <<Kind(p), Kind(T)>> \in {<<"stamp", "date">>, <<"stamptz", "date">>, <<"stamp", "time">>, <<"stamptz", "time">>,
                                 <<"stamp", "stamptz">>, <<"stamptz", "stamp">>, <<"interval", "time">>} -> {"cut"}
    [] OTHER -> {"refused"}

Then(first, second) ==
  UNION {CASE x = "stored" -> second [] x \in {"refused", "panic"} -> {x}
           [] OTHER -> {IF y = "refused" THEN y ELSE x : y \in second} : x \in first}

-----------------------------------------------------------------------------
\* align_batch: an integer for a BOOLEAN becomes one.
Aligned(t, class) == IF class = "bool" /\ Integral(t) THEN Plain("bool") ELSE t

\* build_staging_ddl: the target's type for a UUID and JSON, else the Arrow type's.
StagingType(t, T, known) == IF known /\ Kind(T) \in {"uuid", "json"} THEN T ELSE PgOfArrow(t)

Known(c) == c.how = "catalogued"
CopyClass(c) == IF Known(c) THEN Catalogued(c.into) ELSE Named(c.field.name)
ParamClass(c) == IF Known(c) THEN Catalogued(c.into) ELSE "none"

Outcome(c) ==
  LET t == Aligned(c.field.arrow, ParamClass(c))
      v == IF t = c.field.arrow THEN c.value ELSE Usual
      staging == StagingType(t, c.into, Known(c))
  IN  CASE c.path = "copy" -> Received(c.into, WireForm(t, CopyClass(c), v), t, v)
        [] c.path = "staged" ->
             Then(Received(staging, WireForm(t, CopyClass(c), v), t, v), Assigned(c.into, staging, v))
        [] c.path = "insert" ->
             Then({Parameter(t, v)}, Assigned(c.into, ParameterType(t, ParamClass(c), v), v))

\* Tables the sink has made for the columns of a source, or of a field without one ...
MadeFor(f) == Made(TypeIn(ResolveSqlType(f, "postgres")), "postgres")
Fresh(driver, fields) ==
  UNION {[algo : {"store"}, path : WritePaths, how : {"catalogued", "named"}, from : {driver}, field : {f},
          into : {MadeFor(f)}, value : ValuesOf(f.arrow)] : f \in fields}

\* ... and tables that were there, with any column for any field.
ExistingTypes ==
  {SInt(16), SInt(32), SInt(64), Float(32), Float(64), Plain("bool"), AnyNumber, Dec(10, 2), Text(10), Clob,
   LargeBinary, Plain("date"), Time(6), Stamp(6), StampTz(6), Interval(6), Plain("uuid"), Plain("json")}
Existing(fields) ==
  UNION {[algo : {"store"}, path : WritePaths, how : {"catalogued"}, from : {"other table"}, field : {f},
          into : ExistingTypes, value : ValuesOf(f.arrow)] : f \in fields}

StoreCases ==
  LET bare == {BareField(t) : t \in ArrowTypes \cup {Time(9)}}
  IN  Fresh("none", bare) \cup Existing(bare)
        \cup UNION {Fresh(c.driver, {FieldOf(c)}) : c \in SourceColumnsUsed}

\* What is written in another value's place without an error: by COPY, a whole number cut
\* to the width of an INT4 or INT2 or taken for a NUMERIC without digits, digits of an
\* unsigned one, and a text as long as the column's form; by staging, whatever has
\* sixteen bytes for a UUID; as a parameter, NULL for what chrono has no value for, and
\* an unsigned integer of the other sign.
Mistaken(c) ==
  LET t == c.field.arrow
  IN  \/ c.path = "copy" /\ t = SInt(64) /\ (Kind(c.into) = "decimal" \/ Catalogued(c.into) \in {"int2", "int4"})
      \/ c.path = "copy" /\ t = Utf8 /\ Kind(c.into) \in {"interval", "timetz", "uuid"}
      \/ c.path # "insert" /\ Kind(c.into) = "uuid" /\ (t = Utf8 \/ Kind(t) = "interval")
      \/ t = UInt(64)
      \/ c.path = "insert" /\ c.value = Far

\* Every other value is stored, rounded, or refused with an error: in the tables the sink
\* has made, and, staged or as a parameter, in any other.
NothingMistaken(c) ==
  (c.from = "other table" => c.path # "copy") /\ ~Mistaken(c) => Outcome(c) \cap Silent = {}

\* The Postgres types whose texts a table of the same type does not take back.
TextsRefused ==
  {"numeric", "interval", "timetz", "inet", "cidr", "macaddr", "macaddr8", "xml"}
InRange(c) == c.value # Far /\ (Kind(c.into) \in {"text", "char"} => c.value[2] <= c.into[2])
                /\ (Kind(c.into) = "uuid" => c.value = UuidText)

\* A Postgres table is copied into a table made of it as it is, but for those; and json
\* and hstore, made JSONB, into one that exists only.
CopiesPostgres(c) ==
  c.from = "postgres" /\ c.path = "copy" /\ InRange(c) =>
    \/ Outcome(c) = {"stored"}
    \/ c.field.name \in TextsRefused
    \/ c.field.name \in {"json", "hstore"} /\ c.how = "named"
=============================================================================
