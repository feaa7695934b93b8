---------------------------- MODULE ConnectorProofs ----------------------------
(***************************************************************************)
(* Theorems about the file sinks, the REST sink, the tokens with which     *)
(* secrets are read, reading a table or a REST API in pages while its rows *)
(* move, and the Thrift connection, for every number of batches, rows,     *)
(* pages, statements and requests and every lifetime of a token.           *)
(***************************************************************************)
EXTENDS FileSink, RestSink, RestSource, SecretFetch, DbSource, ThriftSession,
        InductionLemmas, FiniteSetTheorems, SequenceTheorems, TLAPS

(***************************************************************************)
(* The file sinks                                                          *)
(***************************************************************************)
\* Up to the end of the input the path holds what it held before; a file that is
\* renamed is whole; only a copy is ever in the middle of being written.
FileInv ==
  /\ dest \in Contents
  /\ file_pc \in {"start", "receive"} => (dest \in {"none", "old"} /\ ~upstream)
  /\ upstream => (file_pc \in {"failed", "crashed"} /\ dest \in {"none", "old"} /\ staging = "none")
  /\ (file_pc = "publish" /\ Staged) => staging = "whole"
  /\ file_pc \in {"clean", "done"} => dest = "whole"
  /\ (Renames \/ target = "object") => (dest # "partial" /\ file_pc # "copy")

LEMMA FileStep ==
  ASSUME FileInv, [FileSinkNext]_fileVars
  PROVE  FileInv'
<1> USE DEF FileInv, Contents, Staged, Renames, Go, fileVars
<1>1. CASE Start
  BY <1>1 DEF Start
<1>2. CASE TakeBatch
  BY <1>2 DEF TakeBatch
<1>3. CASE TakeFails
  BY <1>3 DEF TakeFails
<1>4. CASE EndOfInput
  BY <1>4 DEF EndOfInput
<1>5. CASE Rename
  BY <1>5 DEF Rename
<1>6. CASE PutObject
  BY <1>6 DEF PutObject
<1>7. CASE Truncate
  BY <1>7 DEF Truncate
<1>8. CASE Write
  BY <1>8 DEF Write
<1>9. CASE RemoveStaging
  BY <1>9 DEF RemoveStaging
<1>10. CASE PublishFails
  BY <1>10 DEF PublishFails
<1>11. CASE Crash
  BY <1>11 DEF Crash
<1>12. CASE UNCHANGED fileVars
  BY <1>12
<1> QED
  BY <1>1, <1>2, <1>3, <1>4, <1>5, <1>6, <1>7, <1>8, <1>9, <1>10, <1>11, <1>12 DEF FileSinkNext

LEMMA FileInvariance == FileSinkSpec => []FileInv
<1>1. FileSinkInit => FileInv
  BY DEF FileSinkInit, FileInv, Contents, Renames, Staged
<1>2. FileInv /\ [FileSinkNext]_fileVars => FileInv'
  BY FileStep
<1> QED
  BY <1>1, <1>2, PTL DEF FileSinkSpec

\* Success means the whole file is at the path; readers see the old file or the new
\* one, also after a crash, where publishing is a rename or the put of an object; and an
\* error from upstream leaves the file at the path and no staging file.
THEOREM FilesAreOldOrWhole == FileSinkSpec => []FileIsOldOrWhole
<1>1. FileInv => FileIsOldOrWhole
  BY DEF FileInv, FileIsOldOrWhole, SuccessIsWhole, OldOrWhole, FailedInputKeepsOld
<1> QED
  BY <1>1, FileInvariance, PTL

(***************************************************************************)
(* Tokens                                                                  *)
(***************************************************************************)
SecretFetchSpec == SecretFetchInit /\ [][SecretFetchNext]_secretVars

\* The lifetime of this token is not known: see TokenLives.
Misjudged(t) == t.method = "token" \/ (t.method = "cli" /\ zone > 0)

\* What is known of the clock and of the cached token: it dies at most a unit before
\* the client believes it to, since its answer took that long; and a request that is
\* out was sent when the cache called it valid, or when it had just come.
TokenInv ==
  /\ clock \in Nat /\ sent_at \in Nat /\ zone \in Int
  /\ granted.life \in Nat /\ granted.dies \in Int
  /\ token.obtained \in Nat /\ token.expires_in \in Int /\ token.dies \in Int
  /\ sent_at <= clock /\ (Waiting => clock <= sent_at + 1)
  /\ fetch_pc = "granted" =>
       (sent_at <= granted.dies - granted.life /\ granted.dies - granted.life <= clock)
  /\ token.obtained <= sent_at
  /\ \/ Misjudged(token)
     \/ token.expires_in <= 0
     \/ token.expires_in <= token.dies - token.obtained + 1
  /\ fetch_pc = "get" =>
       (token.obtained = sent_at \/ sent_at - token.obtained + Margin < token.expires_in)
  /\ TokenLives

LEMMA TokenStart == SecretFetchInit => TokenInv
BY SecretFetchAssumption
   DEF SecretFetchInit, TokenInv, NoToken, TokenLives, Waiting, Misjudged

LEMMA TokenStep ==
  ASSUME TokenInv, [SecretFetchNext]_secretVars
  PROVE  TokenInv'
<1> USE SecretFetchAssumption DEF TokenInv, TokenLives, Waiting, Misjudged, secretVars
<1>1. CASE Tick
  BY <1>1 DEF Tick
<1>2. CASE EnsureToken
  BY <1>2 DEF EnsureToken, IsValid
<1>3. CASE Grant
  BY <1>3 DEF Grant
<1>4. CASE StoreToken
  BY <1>4 DEF StoreToken, ExpiresIn
<1>5. CASE LoginFails
  BY <1>5 DEF LoginFails
<1>6. CASE Get
  BY <1>6 DEF Get
<1>7. CASE GetFails
  BY <1>7 DEF GetFails
<1>8. CASE Resolved
  BY <1>8 DEF Resolved
<1>9. CASE UNCHANGED secretVars
  BY <1>9
<1> QED
  BY <1>1, <1>2, <1>3, <1>4, <1>5, <1>6, <1>7, <1>8, <1>9 DEF SecretFetchNext, Fetching

\* With a margin of at least two units no request is refused for a token that the
\* cache called valid, whatever lifetimes the servers grant, if the client knows them.
THEOREM CachedTokensLive == SecretFetchSpec => []TokenLives
<1>1. TokenInv /\ [SecretFetchNext]_secretVars => TokenInv'
  BY TokenStep
<1>2. TokenInv => TokenLives
  BY DEF TokenInv
<1> QED
  BY <1>1, <1>2, TokenStart, PTL DEF SecretFetchSpec

(***************************************************************************)
(* The REST sink                                                           *)
(***************************************************************************)
\* A set of row numbers that is not empty has a first one.
LEMMA MinInside ==
  ASSUME NEW S \in SUBSET Nat, S # {}
  PROVE  Min(S) \in S
<1>1. PICK x \in S : \A y \in S : x <= y
  BY LeastNumber
<1> QED BY <1>1 DEF Min

LEMMA TimesMonotonic ==
  ASSUME NEW a \in Nat, NEW b \in Nat, NEW c \in Nat, a <= b
  PROVE  c * a <= c * b
<1>1. PICK d \in Nat : b = a + d
  <2>1. b - a \in Nat /\ b = a + (b - a)
    OBVIOUS
  <2> QED
    BY <2>1
<1>2. c * b = c * a + c * d
  BY <1>1
<1>3. c * d \in Nat /\ c * a \in Nat
  OBVIOUS
<1> QED
  BY <1>2, <1>3

\* The rows of the batches received, and of the next one.
LEMMA RowsFollow ==
  ASSUME NEW n \in Nat, n < MaxBatches
  PROVE  /\ n * Batch \in Nat /\ (n + 1) * Batch = n * Batch + Batch
         /\ RowsOf(n + 1) = (n * Batch + 1)..(n * Batch + Batch)
         /\ 1..(n * Batch + Batch) \subseteq AllRows
<1> USE RestSinkAssumption
<1>1. n * Batch \in Nat /\ (n + 1) * Batch = n * Batch + Batch
  OBVIOUS
<1>2. Batch * (n + 1) <= Batch * MaxBatches
  BY TimesMonotonic
<1>3. Batch * (n + 1) = n * Batch + Batch
  OBVIOUS
<1>4. Batch * MaxBatches \in Nat
  OBVIOUS
<1>5. ((n + 1) - 1) * Batch = n * Batch
  OBVIOUS
<1>6. 1..(n * Batch + Batch) \subseteq AllRows
  BY <1>1, <1>2, <1>3, <1>4 DEF AllRows
<1> QED
  BY <1>1, <1>5, <1>6 DEF RowsOf

\* Every row received is taken once, left out, refused or still to send; one that
\* is still to send or has not come is not taken.
RestSinkInv ==
  /\ sink \in SinkOptions /\ arrived \in 0..MaxBatches
  /\ taken \in [AllRows -> {0, 1}]
  /\ unsent_rows \subseteq 1..(arrived * Batch)
  /\ 1..(arrived * Batch) \subseteq AllRows
  /\ \A r \in 1..(arrived * Batch) :
       taken[r] = 1 \/ r \in nulls \/ r \in refused \/ r \in unsent_rows
  /\ sink_result # "error" => \A r \in AllRows : (r \in unsent_rows \/ r > arrived * Batch) => taken[r] = 0
  /\ sink_result # "error" /\ ~pending => unsent_rows = {}
  /\ sink_result # "error" /\ pending /\ sink.mode = "per_row" => unsent_rows # {}
  /\ sink_result = "done" => ~pending

LEMMA RequestIsUnsent ==
  ASSUME RestSinkInv, sink_result = "sending", pending
  PROVE  Request \subseteq unsent_rows /\ (sink.mode = "batch" => Request = unsent_rows)
<1>1. arrived * Batch \in Nat /\ unsent_rows \subseteq Nat
  BY RestSinkAssumption DEF RestSinkInv
<1>2. CASE sink.mode = "batch"
  BY <1>2 DEF Request
<1>3. CASE sink.mode = "per_row"
  <2>1. Min(unsent_rows) \in unsent_rows
    BY <1>1, <1>3, MinInside DEF RestSinkInv
  <2> QED
    BY <1>3, <2>1 DEF Request
<1> QED
  BY <1>2, <1>3 DEF RestSinkInv, SinkOptions

LEMMA RestSinkStep ==
  ASSUME RestSinkInv, [RestSinkNext]_sinkVars
  PROVE  RestSinkInv'
<1> USE RestSinkAssumption
<1>1. CASE Receive
  <2>1. arrived < MaxBatches /\ arrived \in Nat /\ arrived' = arrived + 1
    BY <1>1 DEF Receive, RestSinkInv
  <2>2. /\ arrived * Batch \in Nat /\ arrived' * Batch = arrived * Batch + Batch
        /\ RowsOf(arrived') = (arrived * Batch + 1)..(arrived * Batch + Batch)
        /\ 1..(arrived * Batch + Batch) \subseteq AllRows
    BY <2>1, RowsFollow
  <2>3. PICK missing \in SUBSET RowsOf(arrived') :
          nulls' = nulls \cup missing /\ unsent_rows' = RowsOf(arrived') \ missing
    BY <1>1 DEF Receive
  <2>4. unsent_rows = {} /\ sink_result = "sending"
    BY <1>1 DEF Receive, RestSinkInv
  <2>5. \A r \in AllRows : r > arrived * Batch => taken[r] = 0
    BY <2>4 DEF RestSinkInv
  <2>6. \A r \in AllRows : r \in Nat
    BY DEF AllRows
  <2>7. UNCHANGED <<sink, taken, refused, sink_result>> /\ pending' = (sink.mode = "batch" \/ unsent_rows' # {})
    BY <1>1 DEF Receive
  <2>8. \A r \in 1..(arrived' * Batch) :
          taken'[r] = 1 \/ r \in nulls' \/ r \in refused' \/ r \in unsent_rows'
    <3> TAKE r \in 1..(arrived' * Batch)
    <3>1. CASE r \in 1..(arrived * Batch)
      BY <3>1, <2>3, <2>4, <2>7 DEF RestSinkInv
    <3>2. CASE r \notin 1..(arrived * Batch)
      BY <3>2, <2>2, <2>3
    <3> QED
      BY <3>1, <3>2
  <2>9. unsent_rows' \subseteq 1..(arrived' * Batch) /\ 1..(arrived' * Batch) \subseteq AllRows
    BY <2>2, <2>3
  <2>10. \A r \in AllRows : (r \in unsent_rows' \/ r > arrived' * Batch) => taken'[r] = 0
    BY <2>2, <2>3, <2>5, <2>6, <2>7
  <2>11. arrived' \in 0..MaxBatches
    BY <2>1
  <2> QED
    BY <2>4, <2>7, <2>8, <2>9, <2>10, <2>11 DEF RestSinkInv, SinkOptions
<1>2. CASE Send
  <2>0. sink_result = "sending" /\ pending
    BY <1>2 DEF Send
  <2>1. Request \subseteq unsent_rows /\ (sink.mode = "batch" => Request = unsent_rows)
    BY <2>0, RequestIsUnsent
  <2>2. \A r \in Request \cap AllRows : taken[r] = 0
    BY <2>0, <2>1 DEF RestSinkInv
  <2>3. taken' = [r \in AllRows |-> IF r \in Request THEN 1 ELSE taken[r]]
    BY <1>2, <2>2 DEF Send, Take
  <2>4. unsent_rows' = unsent_rows \ Request /\ pending' = (unsent_rows' # {})
         /\ UNCHANGED <<sink, arrived, nulls, refused, sink_result>>
    BY <1>2 DEF Send, CountSent
  <2>5. taken' \in [AllRows -> {0, 1}] /\ unsent_rows' \subseteq 1..(arrived' * Batch)
    BY <2>3, <2>4 DEF RestSinkInv
  <2>6. \A r \in 1..(arrived' * Batch) :
          taken'[r] = 1 \/ r \in nulls' \/ r \in refused' \/ r \in unsent_rows'
    <3> TAKE r \in 1..(arrived' * Batch)
    <3>1. r \in 1..(arrived * Batch) /\ r \in AllRows
      BY <2>4 DEF RestSinkInv
    <3> QED
      BY <3>1, <2>3, <2>4 DEF RestSinkInv
  <2>7. \A r \in AllRows : (r \in unsent_rows' \/ r > arrived' * Batch) => taken'[r] = 0
    <3> TAKE r \in AllRows
    <3>1. r \in Request => r <= arrived * Batch
      BY <2>1 DEF RestSinkInv
    <3>2. arrived * Batch \in Nat /\ r \in Nat
      BY DEF RestSinkInv, AllRows
    <3> QED
      BY <3>1, <3>2, <2>0, <2>3, <2>4 DEF RestSinkInv
  <2> QED
    BY <2>0, <2>4, <2>5, <2>6, <2>7 DEF RestSinkInv
<1>3. CASE SendRefused
  <2>1. Request \subseteq unsent_rows
    BY <1>3, RequestIsUnsent DEF SendRefused
  <2>2. CASE sink.allow_non_2xx
    <3>1. unsent_rows' = unsent_rows \ Request /\ pending' = (unsent_rows' # {}) /\ refused' = refused \cup Request
           /\ UNCHANGED <<sink, arrived, nulls, taken, sink_result>>
      BY <1>3, <2>2 DEF SendRefused, CountSent
    <3> QED
      BY <1>3, <2>1, <3>1 DEF RestSinkInv, SendRefused
  <2>3. CASE ~sink.allow_non_2xx
    <3>1. sink_result' = "error" /\ refused' = refused \cup Request
           /\ UNCHANGED <<unsent_rows, pending, sink, arrived, nulls, taken>>
      BY <1>3, <2>3 DEF SendRefused
    <3> QED
      BY <3>1 DEF RestSinkInv
  <2> QED
    BY <2>2, <2>3
<1>4. CASE SendBreaks
  <2>1. Request \subseteq unsent_rows
    BY <1>4, RequestIsUnsent DEF SendBreaks
  <2>2. sink_result' = "error" /\ UNCHANGED <<sink, arrived, nulls, unsent_rows, pending, refused>>
    BY <1>4 DEF SendBreaks
  <2>3. taken' \in [AllRows -> {0, 1}] /\ \A r \in AllRows : taken'[r] \in {taken[r], 1}
    <3>1. CASE UNCHANGED taken
      BY <3>1 DEF RestSinkInv
    <3>2. CASE Take(Request)
      <4>1. sink_result = "sending"
        BY <1>4 DEF SendBreaks
      <4>2. \A r \in Request \cap AllRows : taken[r] = 0
        BY <2>1, <4>1 DEF RestSinkInv
      <4>3. taken' = [r \in AllRows |-> IF r \in Request THEN 1 ELSE taken[r]]
        BY <3>2, <4>2 DEF Take
      <4> QED
        BY <4>3 DEF RestSinkInv
    <3> QED
      BY <1>4, <3>1, <3>2 DEF SendBreaks
  <2> QED
    BY <2>2, <2>3 DEF RestSinkInv
<1>5. CASE Finish
  BY <1>5 DEF Finish, RestSinkInv
<1>6. CASE UNCHANGED sinkVars
  BY <1>6 DEF sinkVars, RestSinkInv
<1> QED
  BY <1>1, <1>2, <1>3, <1>4, <1>5, <1>6 DEF RestSinkNext

\* The endpoint takes no row twice, and after a run without an error it has taken
\* every row that has a body and was not refused.
THEOREM RowsAreSentOnce == RestSinkSpec => []EachRowOnce
<1>1. RestSinkInit => RestSinkInv
  BY RestSinkAssumption DEF RestSinkInit, RestSinkInv
<1>2. RestSinkInv /\ [RestSinkNext]_sinkVars => RestSinkInv'
  BY RestSinkStep
<1>3. RestSinkInv => EachRowOnce
  BY DEF RestSinkInv, EachRowOnce
<1> QED
  BY <1>1, <1>2, <1>3, PTL DEF RestSinkSpec

(***************************************************************************)
(* Reading a table in pages                                                *)
(***************************************************************************)
\* A bounded set of numbers that is not empty has a last one.
LEMMA MaxInside ==
  ASSUME NEW S \in SUBSET Nat, S # {}, NEW bound \in Nat, \A s \in S : s <= bound
  PROVE  Max(S) \in S /\ \A s \in S : s <= Max(S)
<1> DEFINE Above == {n \in Nat : \A s \in S : s <= n}
<1>1. PICK m \in Above : \A n \in Above : m <= n
  BY LeastNumber
<1>2. m \in S
  <2> SUFFICES ASSUME m \notin S PROVE FALSE
    OBVIOUS
  <2>1. m \in Nat /\ \A s \in S : s \in Nat /\ s <= m /\ s # m
    BY <1>1
  <2> PICK s0 \in S : TRUE
    OBVIOUS
  <2>2. m - 1 \in Nat
    BY <2>1
  <2>3. \A s \in S : s <= m - 1
    BY <2>1, <2>2
  <2>4. m - 1 \in Above /\ ~(m <= m - 1)
    BY <2>1, <2>2, <2>3
  <2> QED BY <1>1, <2>4
<1>3. \A s \in S : s \in Nat /\ m >= s
  BY <1>1
<1> QED BY <1>2, <1>3 DEF Max

\* Among finitely many rows there are n that come first.
LEMMA LowestExist ==
  ASSUME NEW rows, IsFiniteSet(rows), NEW f, \A r \in rows : f[r] \in Nat,
         NEW n \in 0..Cardinality(rows)
  PROVE  \E p \in SUBSET rows : Cardinality(p) = n /\ \A r \in p, o \in rows \ p : f[r] <= f[o]
<1> DEFINE N == Cardinality(rows)
           Low(p) == \A r \in p, o \in rows \ p : f[r] <= f[o]
           S == {k \in 0..N : \E p \in SUBSET rows : Cardinality(p) = k /\ Low(p)}
<1>1. N \in Nat
  BY FS_CardinalityType
<1>2. 0 \in S
  <2>1. {} \in SUBSET rows /\ Cardinality({}) = 0 /\ Low({})
    BY FS_EmptySet
  <2>2. 0 \in 0..N
    BY <1>1
  <2> QED BY <2>1, <2>2
<1>3. ASSUME NEW k \in 0..N, k < N, k \in S PROVE k + 1 \in S
  <2>1. PICK p \in SUBSET rows : Cardinality(p) = k /\ Low(p)
    BY <1>3
  <2>2. rows \ p # {} /\ IsFiniteSet(p)
    BY <1>1, <1>3, <2>1, FS_Subset
  <2> DEFINE places == {f[r] : r \in rows \ p}
  <2>3. PICK m \in places : \A x \in places : m <= x
    <3>1. places \in SUBSET Nat /\ places # {}
      BY <2>2
    <3> QED BY <3>1, LeastNumber
  <2>4. PICK r \in rows \ p : m = f[r]
    BY <2>3
  <2>5. Cardinality(p \cup {r}) = k + 1 /\ p \cup {r} \in SUBSET rows
    BY <2>1, <2>2, <2>4, FS_AddElement
  <2>6. Low(p \cup {r})
    <3>1. \A o \in rows \ (p \cup {r}) : f[o] \in places
      OBVIOUS
    <3>2. ASSUME NEW a \in p \cup {r}, NEW o \in rows \ (p \cup {r}) PROVE f[a] <= f[o]
      BY <2>1, <2>3, <2>4, <3>1
    <3> QED BY <3>2
  <2>7. k + 1 \in 0..N
    BY <1>1, <1>3
  <2> HIDE DEF Low
  <2> QED BY <2>5, <2>6, <2>7
<1> HIDE DEF S
<1>4. 0..N \subseteq S
  BY <1>1, <1>2, <1>3, UpTo
<1> QED BY <1>4 DEF S

LEMMA MinOfTwo ==
  ASSUME NEW a \in Nat, NEW b \in Nat
  PROVE  Min({a, b}) = IF a <= b THEN a ELSE b
<1>1. {a, b} \in SUBSET Nat /\ {a, b} # {}
  OBVIOUS
<1>2. Min({a, b}) \in {a, b} /\ \A y \in {a, b} : Min({a, b}) <= y
  <2>1. \E x \in {a, b} : \A y \in {a, b} : x <= y
    OBVIOUS
  <2> QED BY <2>1 DEF Min
<1> QED BY <1>1, <1>2

\* A page that is shorter than asked for holds everything.
LEMMA PageFacts ==
  ASSUME NEW rows, IsFiniteSet(rows), NEW n \in Nat, NEW page \in FirstOf(rows, n)
  PROVE  /\ page \subseteq rows /\ IsFiniteSet(page) /\ Cardinality(page) \in Nat
         /\ Cardinality(page) <= n
         /\ Cardinality(page) < n => page = rows
         /\ \A r \in page, other \in rows \ page : Place(r) <= Place(other)
<1>1. /\ page \in SUBSET rows /\ Cardinality(page) = Min({n, Cardinality(rows)})
      /\ \A r \in page, other \in rows \ page : Place(r) <= Place(other)
  BY DEF FirstOf
<1>2. Cardinality(rows) \in Nat /\ IsFiniteSet(page)
  BY <1>1, FS_CardinalityType, FS_Subset
<1>3. Cardinality(page) \in Nat
  BY <1>2, FS_CardinalityType
<1>4. Cardinality(page) = IF n <= Cardinality(rows) THEN n ELSE Cardinality(rows)
  BY <1>1, <1>2, MinOfTwo
<1>5. Cardinality(page) < n => page = rows
  BY <1>1, <1>2, <1>4, FS_Subset
<1> QED BY <1>1, <1>2, <1>3, <1>4, <1>5

LEMMA PlaceType ==
  ASSUME ReadTypeOK, NEW r \in DOMAIN table
  PROVE  /\ table[r] \in Nat /\ table[r] < AfterAll
         /\ Place(r) \in Int /\ Place(r) + 1 \in Nat /\ Place(r) <= AfterAll
<1>1. table[r] \in 0..AfterAll - 1
  BY DEF ReadTypeOK
<1>2. AfterAll \in Nat
  BY DbSourceAssumption DEF AfterAll
<1> QED BY <1>1, <1>2 DEF Place, NoKey

LEMMA FirstOfExists ==
  ASSUME ReadTypeOK, NEW rows \in SUBSET DOMAIN table, IsFiniteSet(rows), NEW n \in Nat
  PROVE  FirstOf(rows, n) # {}
<1> DEFINE f == [r \in rows |-> Place(r) + 1]
           m == IF n <= Cardinality(rows) THEN n ELSE Cardinality(rows)
<1>1. Cardinality(rows) \in Nat
  BY FS_CardinalityType
<1>2. m \in 0..Cardinality(rows) /\ m = Min({n, Cardinality(rows)})
  BY <1>1, MinOfTwo
<1>3. \A r \in rows : f[r] = Place(r) + 1 /\ f[r] \in Nat /\ Place(r) \in Int
  BY PlaceType
<1> HIDE DEF f, m
<1>4. PICK p \in SUBSET rows : Cardinality(p) = m /\ \A r \in p, o \in rows \ p : f[r] <= f[o]
  BY <1>2, <1>3, LowestExist
<1>5. \A r \in p, o \in rows \ p : Place(r) <= Place(o)
  <2> SUFFICES ASSUME NEW r \in p, NEW o \in rows \ p PROVE Place(r) <= Place(o)
    OBVIOUS
  <2>1. f[r] = Place(r) + 1 /\ f[o] = Place(o) + 1 /\ Place(r) \in Int /\ Place(o) \in Int /\ f[r] <= f[o]
    BY <1>3, <1>4
  <2> QED BY <2>1
<1>6. p \in FirstOf(rows, n)
  BY <1>2, <1>4, <1>5 DEF FirstOf
<1> QED BY <1>6

LEMMA TableIsFinite ==
  ASSUME ReadTypeOK
  PROVE  /\ IsFiniteSet(RowIds) /\ IsFiniteSet(DOMAIN table) /\ DOMAIN table \subseteq RowIds
         /\ Settled \subseteq DOMAIN table /\ Settled \subseteq 1..TableRows
         /\ TableRows + added \in Nat /\ \A r \in DOMAIN table : r \in 1..TableRows + added
<1>1. TableRows + added \in Nat /\ TableRows \in Nat /\ added \in Nat
  BY DbSourceAssumption DEF ReadTypeOK
<1>2. IsFiniteSet(RowIds)
  BY <1>1, FS_Interval DEF RowIds
<1>3. DOMAIN table = RowIds \ removed /\ DOMAIN table \in SUBSET RowIds
  BY DEF ReadTypeOK
<1>4. IsFiniteSet(DOMAIN table)
  BY <1>2, <1>3, FS_Subset
<1>5. 1..TableRows \subseteq RowIds
  BY <1>1 DEF RowIds
<1> QED BY <1>1, <1>2, <1>3, <1>4, <1>5 DEF Settled, RowIds

LEMMA AppendToQueue ==
  ASSUME NEW S, NEW q \in Seq(SUBSET S), NEW page \in SUBSET S
  PROVE  /\ Append(q, page) \in Seq(SUBSET S) /\ Len(Append(q, page)) = Len(q) + 1 /\ Len(q) \in Nat
         /\ Append(q, page)[Len(q) + 1] = page
         /\ Batched(Append(q, page)) = Batched(q) \cup page
         /\ HasError(Append(q, page)) <=> HasError(q) \/ page = {}
<1> DEFINE longer == Append(q, page)
<1>a. /\ longer \in Seq(SUBSET S) /\ Len(longer) = Len(q) + 1
      /\ longer[Len(q) + 1] = page /\ \A i \in 1..Len(q) : longer[i] = q[i]
  BY AppendProperties
<1>b. Len(q) \in Nat /\ DOMAIN longer = 1..Len(longer) /\ DOMAIN q = 1..Len(q)
  BY <1>a, LenProperties
<1>1. /\ longer \in Seq(SUBSET S) /\ Len(longer) = Len(q) + 1 /\ Len(q) \in Nat
      /\ longer[Len(q) + 1] = page /\ \A i \in 1..Len(q) : longer[i] = q[i]
      /\ DOMAIN longer = 1..Len(longer) /\ DOMAIN q = 1..Len(q)
  BY <1>a, <1>b
<1> HIDE DEF longer
<1>2. DOMAIN longer = DOMAIN q \cup {Len(q) + 1}
  BY <1>1
<1>3. Batched(longer) = Batched(q) \cup page
  BY <1>1, <1>2 DEF Batched
<1>4. HasError(longer) <=> HasError(q) \/ page = {}
  BY <1>1, <1>2 DEF HasError
<1> QED BY <1>1, <1>3, <1>4 DEF longer

LEMMA TailOfQueue ==
  ASSUME NEW S, NEW q \in Seq(SUBSET S), q # <<>>
  PROVE  /\ Tail(q) \in Seq(SUBSET S) /\ Head(q) \in SUBSET S
         /\ Batched(q) = Head(q) \cup Batched(Tail(q))
         /\ HasError(q) <=> Head(q) = {} \/ HasError(Tail(q))
<1> DEFINE t == Tail(q)
           h == Head(q)
<1>1. /\ t \in Seq(SUBSET S) /\ h \in SUBSET S /\ h = q[1] /\ Len(q) \in Nat /\ Len(q) >= 1
      /\ DOMAIN t = 1..Len(q) - 1 /\ DOMAIN q = 1..Len(q) /\ \A i \in 1..Len(q) - 1 : t[i] = q[i + 1]
  BY HeadTailProperties, LenProperties
<1> HIDE DEF t, h
<1>2. \A i \in DOMAIN q : i = 1 \/ (i - 1 \in DOMAIN t /\ t[i - 1] = q[i])
  BY <1>1
<1>3. \A i \in DOMAIN t : i + 1 \in DOMAIN q /\ t[i] = q[i + 1]
  BY <1>1
<1>4. Batched(q) = h \cup Batched(t)
  BY <1>1, <1>2, <1>3 DEF Batched
<1>5. HasError(q) <=> h = {} \/ HasError(t)
  BY <1>1, <1>2, <1>3 DEF HasError
<1> QED BY <1>1, <1>4, <1>5 DEF t, h

\* What a step that neither reads nor writes rows leaves as it is.
LEMMA SameRows ==
  ASSUME ReadInv, UNCHANGED <<reader, tableVars, cursorVars>>, Fetched' = Fetched
  PROVE  /\ BehindCursor' /\ FromStatement' /\ FromOffset'
         /\ (\A r \in Settled : Given(r, Fetched))' <=> (\A r \in Settled : Given(r, Fetched))
<1>1. /\ reader' = reader /\ table' = table /\ added' = added /\ removed' = removed
      /\ last' = last /\ skipped' = skipped /\ remaining' = remaining
  BY DEF tableVars, cursorVars
<1>2. \A r : Given(r, Fetched)' <=> Given(r, Fetched)
  BY <1>1 DEF Given, Alike
<1>3. Repeats' = Repeats
  BY <1>1 DEF Repeats, NullRows
<1>4. Settled' = Settled
  BY <1>1 DEF Settled
<1>5. BehindCursor' 
  BY <1>1, <1>2, <1>3, <1>4 DEF ReadInv, BehindCursor
<1>6. FromStatement'
  BY <1>1, <1>4 DEF ReadInv, FromStatement
<1>7. FromOffset'
  BY <1>1, <1>4 DEF ReadInv, FromOffset, Before
<1> QED BY <1>2, <1>4, <1>5, <1>6, <1>7

LEMMA ReadEnd ==
  ASSUME ReadInv, QueryFails \/ SendFails \/ HangUp \/ EndOfStream \/ PipelineTakes
  PROVE  ReadInv'
<1>1. /\ UNCHANGED <<reader, tableVars, cursorVars>>
      /\ reader' = reader /\ table' = table /\ added' = added /\ removed' = removed
      /\ last' = last /\ skipped' = skipped /\ remaining' = remaining
  BY DEF QueryFails, SendFails, HangUp, EndOfStream, PipelineTakes, tableVars, cursorVars
<1>2. RowIds' = RowIds
  BY <1>1 DEF RowIds
<1>3. ReadTypeOK
  BY DEF ReadInv
<1>4. CASE QueryFails
  <2>1. {} \in SUBSET RowIds /\ queue \in Seq(SUBSET RowIds)
    BY <1>3 DEF ReadTypeOK
  <2>2. queue' = Append(queue, {}) /\ got' = got /\ src_pc' = "ended" /\ outcome' = outcome
    BY <1>4 DEF QueryFails
  <2>7. queue' \in Seq(SUBSET RowIds) /\ Batched(queue') = Batched(queue) \cup {} /\ HasError(queue')
    BY <2>1, <2>2, AppendToQueue
  <2>3. Fetched' = Fetched
    BY <2>2, <2>7 DEF Fetched
  <2>4. ReadTypeOK'
    BY <1>1, <1>2, <1>3, <2>2, <2>7 DEF ReadTypeOK
  <2>5. Ending'
    BY <1>4, <2>2 DEF Ending, ReadInv, QueryFails, Reading
  <2>6. EndReached'
    BY <2>7 DEF EndReached
  <2> QED BY <1>1, <2>3, <2>4, <2>5, <2>6, SameRows DEF ReadInv
<1>5. CASE SendFails
  <2>1. queue' = queue /\ got' = got /\ src_pc' = "ended" /\ outcome' = "dropped" /\ outcome = "dropped"
    BY <1>5 DEF SendFails
  <2>2. Fetched' = Fetched
    BY <2>1 DEF Fetched
  <2>3. ReadTypeOK'
    BY <1>1, <1>2, <1>3, <2>1 DEF ReadTypeOK
  <2> QED BY <1>1, <2>1, <2>2, <2>3, SameRows DEF ReadInv, Ending, EndReached
<1>6. CASE HangUp
  <2>1. queue' = queue /\ got' = got /\ src_pc' = src_pc /\ outcome' = "dropped"
    BY <1>6 DEF HangUp
  <2>2. Fetched' = Fetched
    BY <2>1 DEF Fetched
  <2>3. ReadTypeOK'
    BY <1>1, <1>2, <1>3, <2>1 DEF ReadTypeOK
  <2> QED BY <1>1, <2>1, <2>2, <2>3, SameRows DEF ReadInv, Ending, EndReached
<1>7. CASE EndOfStream
  <2>1. queue' = queue /\ queue = <<>> /\ got' = got /\ src_pc' = src_pc /\ src_pc = "ended"
        /\ outcome = "reading" /\ outcome' = "whole"
    BY <1>7 DEF EndOfStream
  <2>2. Fetched' = Fetched
    BY <2>1 DEF Fetched
  <2>3. ReadTypeOK'
    BY <1>1, <1>2, <1>3, <2>1 DEF ReadTypeOK
  <2>4. EndReached'
    BY <1>1, <2>1, <2>2, SameRows DEF ReadInv, EndReached
  <2> QED BY <1>1, <2>1, <2>2, <2>3, <2>4, SameRows DEF ReadInv, Ending
<1>8. CASE PipelineTakes
  <2>1. /\ queue # <<>> /\ queue' = Tail(queue) /\ outcome = "reading" /\ src_pc' = src_pc
        /\ IF Head(queue) = {} THEN outcome' = "failed" /\ got' = got
           ELSE got' = got \cup Head(queue) /\ outcome' = outcome
    BY <1>8 DEF PipelineTakes
  <2>2. queue \in Seq(SUBSET RowIds) /\ got \subseteq RowIds
    BY <1>3 DEF ReadTypeOK
  <2>3. /\ queue' \in Seq(SUBSET RowIds) /\ Head(queue) \in SUBSET RowIds
        /\ Batched(queue) = Head(queue) \cup Batched(queue')
        /\ HasError(queue) <=> Head(queue) = {} \/ HasError(queue')
    BY <2>1, <2>2, TailOfQueue
  <2>7. got' = got \cup Head(queue)
    BY <2>1
  <2>8. got' \subseteq RowIds /\ Fetched' = Fetched
    BY <2>2, <2>3, <2>7 DEF Fetched
  <2>4. ReadTypeOK'
    BY <1>1, <1>2, <1>3, <2>1, <2>3, <2>8 DEF ReadTypeOK
  <2>5. EndReached'
    BY <1>1, <2>1, <2>3, <2>8, SameRows DEF ReadInv, EndReached
  <2>6. Ending'
    BY <2>1, <2>3 DEF ReadInv, Ending
  <2> QED BY <1>1, <2>4, <2>5, <2>6, <2>8, SameRows DEF ReadInv
<1> QED BY <1>4, <1>5, <1>6, <1>7, <1>8

\* What was given stays given, as long as nobody writes to the table.
LEMMA GivenStays ==
  ASSUME UNCHANGED <<reader, table, removed>>, Fetched \subseteq Fetched', NEW r, Given(r, Fetched)
  PROVE  Given(r, Fetched)'
BY DEF Given, Alike

\* Handing a page on, as each of the three ways to fetch one does.
LEMMA PageDelivered ==
  ASSUME ReadInv, Reading, NEW page \in SUBSET RowIds, Deliver(page), UNCHANGED <<reader, added, got, outcome>>
  PROVE  /\ queue' \in Seq(SUBSET RowIds) /\ src_pc' \in {"fetching", "ended"} /\ RowIds' = RowIds
         /\ Ending' /\ Fetched \subseteq Fetched' /\ Fetched' \subseteq Fetched \cup page
         /\ Fetched' = Fetched \/ (Fetched' = Fetched \cup page /\ Len(queue') = Len(queue) + 1 /\ queue'[Len(queue')] = page)
         /\ Len(queue') > Len(queue) => queue'[Len(queue')] = page
         /\ reader.unreadable_row = 0 =>
              Fetched' = Fetched \cup page /\ (src_pc' = "ended" => Cardinality(page) < PageRows)
<1>1. queue \in Seq(SUBSET RowIds) /\ Len(queue) \in Nat /\ got \subseteq RowIds
  BY LenProperties DEF ReadInv, ReadTypeOK
<1>2. ~HasError(queue) /\ outcome' = "reading"
  BY DEF ReadInv, Ending, Reading, HasError
<1>3. RowIds' = RowIds
  BY DEF RowIds
<1>4. CASE page = {} \/ reader.unreadable_row \in page
  <2>1. queue' = queue /\ src_pc' = "ended"
    BY <1>4 DEF Deliver
  <2>2. Fetched' = Fetched
    BY <2>1 DEF Fetched
  <2>3. reader.unreadable_row = 0 => page = {}
    BY <1>4, TableIsFinite DEF RowIds, ReadInv
  <2>4. page = {} => Cardinality(page) < PageRows
    BY FS_EmptySet, DbSourceAssumption
  <2> QED BY <1>1, <1>2, <1>3, <2>1, <2>2, <2>3, <2>4 DEF Ending, HasError
<1>5. CASE ~(page = {} \/ reader.unreadable_row \in page)
  <2>1. queue' = Append(queue, page) /\ src_pc' = IF Short(page) THEN "ended" ELSE "fetching"
    BY <1>5 DEF Deliver
  <2>2. /\ queue' \in Seq(SUBSET RowIds) /\ Len(queue') = Len(queue) + 1 /\ queue'[Len(queue) + 1] = page
        /\ Batched(queue') = Batched(queue) \cup page /\ ~HasError(queue')
    BY <1>1, <1>2, <1>5, <2>1, AppendToQueue
  <2>3. Fetched' = Fetched \cup page
    BY <2>2 DEF Fetched
  <2>4. Ending'
    BY <1>2, <2>2 DEF Ending, HasError
  <2> QED BY <1>1, <1>3, <2>1, <2>2, <2>3, <2>4 DEF Short
<1> QED BY <1>4, <1>5

\* The cursor after a page: the highest key of it, if there is one.
LEMMA CursorFacts ==
  ASSUME ReadTypeOK, reader.readable, NEW page \in SUBSET AboveCursor, page # {}
  PROVE  LET c == CursorAfter(page) IN
         /\ c \in Nat /\ last <= c
         /\ c = last \/ \E p \in page : table[p] = c
         /\ \/ \A r \in page : table[r] <= c
            \/ reader.driver = "postgres" /\ \E p \in page : table[p] = NoKey
<1> DEFINE c == CursorAfter(page)
<1>1. \A r \in page : /\ table[r] \in Nat /\ table[r] <= AfterAll /\ Place(r) \in Int /\ Place(r) + 1 \in Nat
                      /\ Place(r) <= AfterAll /\ (last # NoKey => table[r] > last) /\ r \in DOMAIN table
  <2> TAKE r \in page
  <2>1. r \in DOMAIN table /\ (last = NoKey \/ table[r] > last)
    BY DEF AboveCursor
  <2>2. AfterAll \in Nat
    BY DbSourceAssumption DEF AfterAll
  <2> QED BY <2>1, <2>2, PlaceType
<1>2. last \in Nat /\ AfterAll \in Nat
  BY DbSourceAssumption DEF ReadTypeOK, AfterAll
<1>3. CASE reader.driver = "oracle"
  <2>1. c = IF Keys(page) = {} THEN NoKey ELSE Max(Keys(page))
    BY <1>3 DEF CursorAfter
  <2>2. CASE Keys(page) = {}
    <3>1. \A r \in page : table[r] = NoKey
      BY <2>2 DEF Keys
    <3>2. last = NoKey
      BY <1>1, <1>2, <3>1 DEF NoKey
    <3> QED BY <1>2, <2>1, <2>2, <3>1, <3>2 DEF NoKey
  <2>3. CASE Keys(page) # {}
    <3>1. Keys(page) \in SUBSET Nat /\ \A k \in Keys(page) : k <= AfterAll
      BY <1>1 DEF Keys
    <3>2. Max(Keys(page)) \in Keys(page) /\ \A k \in Keys(page) : k <= Max(Keys(page))
      BY <1>2, <2>3, <3>1, MaxInside
    <3>3. PICK p \in page : table[p] = c
      BY <2>1, <2>3, <3>2 DEF Keys
    <3>4. \A r \in page : table[r] = NoKey \/ table[r] \in Keys(page)
      BY DEF Keys
    <3>5. c \in Nat /\ \A r \in page : table[r] <= c
      BY <1>1, <2>1, <2>3, <3>1, <3>2, <3>3, <3>4 DEF NoKey
    <3>6. last <= c
      BY <1>1, <1>2, <3>3, <3>5 DEF NoKey
    <3> QED BY <3>3, <3>5, <3>6
  <2> QED BY <2>2, <2>3
<1>4. CASE reader.driver # "oracle"
  <2> DEFINE lastRow == CHOOSE r \in page : \A other \in page : Place(other) <= Place(r)
  <2>1. lastRow \in page /\ \A other \in page : Place(other) <= Place(lastRow)
    <3> DEFINE places == {Place(r) + 1 : r \in page}
    <3>1. places \in SUBSET Nat /\ places # {} /\ \A x \in places : x <= AfterAll + 1
      BY <1>1, <1>2
    <3>2. AfterAll + 1 \in Nat
      BY <1>2
    <3>3. Max(places) \in places /\ \A x \in places : x <= Max(places)
      BY <3>1, <3>2, MaxInside
    <3>4. PICK r \in page : Max(places) = Place(r) + 1
      BY <3>3
    <3>5. \A other \in page : Place(other) + 1 <= Place(r) + 1
      BY <3>3, <3>4
    <3>6. \A other \in page : Place(other) <= Place(r)
      BY <1>1, <3>5
    <3> QED BY <3>6
  <2>2. c = IF table[lastRow] = NoKey THEN last ELSE table[lastRow]
    BY <1>4 DEF CursorAfter
  <2> HIDE DEF lastRow, c
  <2>3. CASE table[lastRow] # NoKey
    <3>1. c = table[lastRow] /\ c \in Nat /\ Place(lastRow) = c
      BY <1>1, <2>1, <2>2, <2>3 DEF Place
    <3>2. \A r \in page : table[r] <= c
      BY <1>1, <2>1, <3>1 DEF Place, NoKey
    <3>3. last <= c
      BY <1>1, <1>2, <2>1, <3>1 DEF NoKey
    <3> QED BY <2>1, <3>1, <3>2, <3>3 DEF c
  <2>4. CASE table[lastRow] = NoKey
    <3>1. c = last /\ last = NoKey
      BY <1>1, <1>2, <2>1, <2>2, <2>4 DEF NoKey
    <3>2. CASE reader.driver = "postgres"
      BY <1>2, <2>1, <2>4, <3>1, <3>2 DEF c
    <3>3. CASE reader.driver # "postgres"
      <4>1. ~Threaded
        BY <1>4, <3>3 DEF Threaded
      <4>2. Place(lastRow) = -1
        BY <2>4, <4>1 DEF Place
      <4>3. \A r \in page : table[r] = NoKey
        BY <1>1, <2>1, <4>2 DEF Place, NoKey
      <4> QED BY <1>2, <3>1, <4>3 DEF c, NoKey
    <3> QED BY <3>2, <3>3
  <2> QED BY <2>3, <2>4
<1> QED BY <1>3, <1>4

\* A page of the rows above the cursor leaves no row with a key behind the cursor.
LEMMA ReadKeyset ==
  ASSUME ReadInv, FetchKeyset
  PROVE  /\ ReadInv'
         /\ Len(queue') > Len(queue) /\ last # NoKey /\ ~Repeats => queue'[Len(queue')] \cap Fetched = {}
<1>1. /\ ReadTypeOK /\ Reading /\ reader.mode = "keyset"
      /\ reader' = reader /\ table' = table /\ added' = added /\ removed' = removed
      /\ skipped' = skipped /\ remaining' = remaining /\ got' = got /\ outcome' = outcome
  BY DEF FetchKeyset, tableVars, ReadInv
<1>2. PICK page \in FirstOf(AboveCursor, PageRows) :
        Deliver(page) /\ last' = IF page = {} THEN last ELSE CursorAfter(page)
  BY DEF FetchKeyset
<1>3. /\ IsFiniteSet(DOMAIN table) /\ DOMAIN table \subseteq RowIds /\ Settled \subseteq DOMAIN table
      /\ AboveCursor \in SUBSET DOMAIN table /\ IsFiniteSet(AboveCursor) /\ PageRows \in Nat
  BY <1>1, TableIsFinite, FS_Subset, DbSourceAssumption DEF AboveCursor
<1>4. /\ page \subseteq AboveCursor /\ page \in SUBSET RowIds /\ page \subseteq DOMAIN table
      /\ Cardinality(page) < PageRows => page = AboveCursor
      /\ \A r \in page, other \in AboveCursor \ page : Place(r) <= Place(other)
  <2>1. /\ page \subseteq AboveCursor
        /\ Cardinality(page) < PageRows => page = AboveCursor
        /\ \A r \in page, other \in AboveCursor \ page : Place(r) <= Place(other)
    BY <1>2, <1>3, PageFacts
  <2> QED BY <1>3, <2>1
<1>5. /\ queue' \in Seq(SUBSET RowIds) /\ src_pc' \in {"fetching", "ended"} /\ RowIds' = RowIds
      /\ Ending' /\ Fetched \subseteq Fetched' /\ Fetched' \subseteq Fetched \cup page
      /\ Fetched' = Fetched \/ Fetched' = Fetched \cup page
      /\ Len(queue') > Len(queue) => queue'[Len(queue')] = page
      /\ reader.unreadable_row = 0 =>
           Fetched' = Fetched \cup page /\ (src_pc' = "ended" => Cardinality(page) < PageRows)
  BY <1>1, <1>2, <1>4, PageDelivered
<1>6. last \in Nat /\ (last # NoKey => reader.readable)
  BY <1>1 DEF ReadInv, ReadTypeOK, BehindCursor
<1>7. \A r \in DOMAIN table : table[r] \in Nat
  BY <1>1, PlaceType
<1>8. /\ last' \in Nat /\ last <= last' /\ (last' # NoKey => reader.readable)
      /\ last' = last \/ \E p \in page : table[p] = last'
      /\ reader.readable => \/ \A r \in page : table[r] <= last'
                            \/ reader.driver = "postgres" /\ \E p \in page : table[p] = NoKey
  <2>1. CASE page = {}
    BY <1>2, <1>6, <2>1
  <2>2. CASE page # {} /\ ~reader.readable
    BY <1>2, <1>6, <2>2 DEF CursorAfter
  <2>3. CASE page # {} /\ reader.readable
    <3>1. page \in SUBSET AboveCursor
      BY <1>4
    <3> QED BY <1>1, <1>2, <2>3, <3>1, CursorFacts
  <2> QED BY <2>1, <2>2, <2>3
<1>9. ReadTypeOK'
  BY <1>1, <1>5, <1>8 DEF ReadTypeOK
<1>10. ASSUME NEW r \in Settled, reader.unreadable_row = 0, r \notin page, table[r] # NoKey,
              last # NoKey /\ table[r] <= last
       PROVE  Given(r, Fetched)'
  <2>1. Given(r, Fetched)
    BY <1>1, <1>10 DEF ReadInv, BehindCursor
  <2> QED BY <1>1, <1>5, <2>1, GivenStays
<1>11. Settled' = Settled
  BY <1>1 DEF Settled
<1>12. BehindCursor'
  <2>1. ASSUME last' # NoKey, reader.unreadable_row = 0, NEW r \in Settled, table[r] <= last' PROVE Given(r, Fetched)'
    <3>1. CASE table[r] = NoKey \/ r \in page
      BY <1>1, <1>5, <2>1, <3>1 DEF Given
    <3>2. CASE last # NoKey /\ table[r] <= last /\ table[r] # NoKey /\ r \notin page
      BY <1>10, <2>1, <3>2
    <3>3. CASE (last = NoKey \/ ~(table[r] <= last)) /\ table[r] # NoKey /\ r \notin page
      <4>1. r \in DOMAIN table /\ table[r] \in Nat
        BY <1>3, <1>7
      <4>2. r \in AboveCursor \ page
        BY <1>6, <3>3, <4>1 DEF AboveCursor
      <4>3. PICK p \in page : table[p] = last'
        BY <1>6, <1>8, <2>1, <3>3, <4>1
      <4>4. Place(p) = table[p] /\ Place(r) = table[r] /\ Place(p) <= Place(r)
        BY <1>4, <2>1, <3>3, <4>2, <4>3 DEF Place
      <4>5. table[p] = table[r] /\ p # r /\ p \in DOMAIN table /\ p \in Fetched'
        BY <1>4, <1>5, <1>8, <2>1, <3>3, <4>1, <4>3, <4>4
      <4> QED BY <1>1, <4>5 DEF Given, Alike
    <3> QED BY <3>1, <3>2, <3>3
  <2>2. ASSUME reader.readable, ~Repeats', NEW r \in DOMAIN table \cap Fetched' PROVE table[r] <= last'
    <3>1. ~Repeats
      BY <1>1, <1>5, <2>2 DEF Repeats, NullRows
    <3>2. CASE r \in Fetched
      <4>1. table[r] <= last
        BY <1>1, <2>2, <3>1, <3>2 DEF ReadInv, BehindCursor
      <4> QED BY <1>6, <1>7, <1>8, <4>1
    <3>3. CASE r \notin Fetched
      <4>1. r \in page /\ page \subseteq Fetched'
        BY <1>5, <2>2, <3>3
      <4>2. ~(reader.driver = "postgres" /\ \E p \in page : table[p] = NoKey)
        BY <1>1, <1>4, <2>2, <4>1 DEF Repeats, NullRows
      <4> QED BY <1>8, <2>2, <4>1, <4>2
    <3> QED BY <3>2, <3>3
  <2> QED BY <1>1, <1>8, <1>11, <2>1, <2>2 DEF BehindCursor
<1>13. FromStatement'
  BY <1>1 DEF ReadInv, FromStatement
<1>14. FromOffset'
  BY <1>1 DEF FromOffset
<1>15. EndReached'
  <2> SUFFICES ASSUME src_pc' = "ended", reader.unreadable_row = 0, NEW r \in Settled PROVE Given(r, Fetched)'
    BY <1>1, <1>11 DEF EndReached
  <2>1. page = AboveCursor /\ Fetched' = Fetched \cup page
    BY <1>4, <1>5
  <2>2. CASE table[r] = NoKey \/ r \in page
    BY <1>1, <2>1, <2>2 DEF Given
  <2>3. CASE table[r] # NoKey /\ r \notin page
    <3>1. last # NoKey /\ table[r] <= last
      BY <1>3, <1>6, <1>7, <2>1, <2>3 DEF AboveCursor
    <3> QED BY <1>10, <2>3, <3>1
  <2> QED BY <2>2, <2>3
<1>16. ASSUME Len(queue') > Len(queue), last # NoKey, ~Repeats PROVE queue'[Len(queue')] \cap Fetched = {}
  <2>1. \A r \in page : table[r] > last /\ r \in DOMAIN table
    BY <1>4, <1>16 DEF AboveCursor
  <2>2. \A r \in DOMAIN table \cap Fetched : table[r] <= last
    BY <1>1, <1>6, <1>16 DEF ReadInv, BehindCursor
  <2>3. \A r \in page : r \notin Fetched
    BY <1>6, <1>7, <2>1, <2>2
  <2> QED BY <1>5, <1>16, <2>3
<1> QED BY <1>5, <1>9, <1>12, <1>13, <1>14, <1>15, <1>16 DEF ReadInv

LEMMA ReadOpen ==
  ASSUME ReadInv, OpenStatement
  PROVE  ReadInv' /\ queue' = queue
<1>1. /\ ReadTypeOK /\ ~remaining.open /\ reader.mode = "scan" /\ reader.driver # "mssql"
      /\ reader' = reader /\ table' = table /\ added' = added /\ removed' = removed
      /\ last' = last /\ skipped' = skipped /\ got' = got /\ outcome' = outcome
      /\ queue' = queue /\ src_pc' = src_pc /\ src_pc = "fetching"
      /\ remaining' = [open |-> TRUE, rows |-> DOMAIN table]
  BY DEF OpenStatement, tableVars, ReadInv, Reading
<1>2. RowIds' = RowIds /\ Fetched' = Fetched /\ Settled' = Settled
  BY <1>1 DEF RowIds, Fetched, Settled
<1>3. DOMAIN table \subseteq RowIds /\ Settled \subseteq DOMAIN table
  BY <1>1, TableIsFinite
<1>4. ReadTypeOK'
  BY <1>1, <1>2, <1>3 DEF ReadTypeOK
<1>5. Fetched = {}
  BY <1>1 DEF ReadInv, FromStatement
<1>6. FromStatement'
  BY <1>1, <1>2, <1>3, <1>5 DEF FromStatement
<1>7. BehindCursor'
  BY <1>1 DEF ReadInv, BehindCursor
<1>8. FromOffset'
  BY <1>1 DEF ReadInv, FromOffset
<1>9. Ending' /\ EndReached'
  BY <1>1 DEF ReadInv, Ending, EndReached
<1> QED BY <1>1, <1>4, <1>6, <1>7, <1>8, <1>9 DEF ReadInv

LEMMA ReadOn ==
  ASSUME ReadInv, FetchOn
  PROVE  /\ ReadInv'
         /\ Len(queue') > Len(queue) => queue'[Len(queue')] \cap Fetched = {}
<1> DEFINE rows == remaining.rows
           Lowest(p) == Cardinality(p) = PageRows /\ \A r \in p, o \in rows \ p : r < o
           page == IF Cardinality(rows) <= PageRows THEN rows ELSE CHOOSE p \in SUBSET rows : Lowest(p)
<1>1. /\ ReadTypeOK /\ Reading /\ remaining.open
      /\ reader' = reader /\ table' = table /\ added' = added /\ removed' = removed
      /\ last' = last /\ skipped' = skipped /\ got' = got /\ outcome' = outcome
  BY DEF FetchOn, tableVars, ReadInv
<1>2. Deliver(page) /\ remaining' = [remaining EXCEPT !.rows = rows \ page]
  BY DEF FetchOn, RestAfter
<1>3. /\ reader.mode = "scan" /\ reader.driver # "mssql" /\ rows \cap Fetched = {}
      /\ reader.unreadable_row = 0 => Settled \subseteq rows \cup Fetched
  BY <1>1 DEF ReadInv, FromStatement
<1>4. rows \subseteq RowIds /\ IsFiniteSet(rows) /\ Cardinality(rows) \in Nat /\ PageRows \in Nat
  <2>1. rows \subseteq RowIds /\ PageRows \in Nat
    BY <1>1, DbSourceAssumption DEF ReadTypeOK
  <2> QED BY <1>1, <2>1, TableIsFinite, FS_Subset, FS_CardinalityType
<1>5. page \in SUBSET rows /\ (page = rows \/ Cardinality(page) = PageRows)
  <2>1. CASE Cardinality(rows) <= PageRows
    BY <2>1
  <2>2. CASE ~(Cardinality(rows) <= PageRows)
    <3> DEFINE f == [r \in rows |-> r]
    <3>1. PageRows \in 0..Cardinality(rows) /\ \A r \in rows : r \in Nat /\ f[r] = r
      BY <1>4, <2>2 DEF RowIds
    <3> HIDE DEF f
    <3>2. PICK p \in SUBSET rows : Cardinality(p) = PageRows /\ \A r \in p, o \in rows \ p : f[r] <= f[o]
      BY <1>4, <3>1, LowestExist
    <3>3. \A r \in p, o \in rows \ p : r < o
      <4> SUFFICES ASSUME NEW r \in p, NEW o \in rows \ p PROVE r < o
        OBVIOUS
      <4>1. r \in Nat /\ o \in Nat /\ f[r] = r /\ f[o] = o /\ f[r] <= f[o] /\ r # o
        BY <3>1, <3>2
      <4> QED BY <4>1
    <3>4. \E q \in SUBSET rows : Lowest(q)
      BY <3>2, <3>3
    <3> QED BY <2>2, <3>4
  <2> QED BY <2>1, <2>2
<1> HIDE DEF page
<1>6. /\ queue' \in Seq(SUBSET RowIds) /\ src_pc' \in {"fetching", "ended"} /\ RowIds' = RowIds
      /\ Ending' /\ Fetched \subseteq Fetched' /\ Fetched' \subseteq Fetched \cup page
      /\ Len(queue') > Len(queue) => queue'[Len(queue')] = page
      /\ reader.unreadable_row = 0 =>
           Fetched' = Fetched \cup page /\ (src_pc' = "ended" => Cardinality(page) < PageRows)
  <2>1. page \in SUBSET RowIds
    BY <1>4, <1>5
  <2> QED BY <1>1, <1>2, <2>1, PageDelivered
<1>7. /\ remaining' \in [open : BOOLEAN, rows : SUBSET RowIds]
      /\ remaining'.rows = rows \ page /\ remaining'.open = remaining.open
  BY <1>1, <1>2, <1>4 DEF ReadTypeOK
<1>8. ReadTypeOK'
  BY <1>1, <1>6, <1>7 DEF ReadTypeOK
<1>9. Settled' = Settled
  BY <1>1 DEF Settled
<1>10. FromStatement'
  BY <1>1, <1>3, <1>5, <1>6, <1>7, <1>9 DEF FromStatement
<1>11. BehindCursor'
  BY <1>1, <1>3 DEF ReadInv, BehindCursor
<1>12. FromOffset'
  BY <1>1, <1>3 DEF ReadInv, FromOffset
<1>13. EndReached'
  <2> SUFFICES ASSUME src_pc' = "ended", reader.unreadable_row = 0, NEW r \in Settled PROVE Given(r, Fetched)'
    BY <1>1, <1>9 DEF EndReached
  <2>1. page = rows
    BY <1>4, <1>5, <1>6
  <2> QED BY <1>3, <1>6, <2>1 DEF Given
<1>14. Len(queue') > Len(queue) => queue'[Len(queue')] \cap Fetched = {}
  BY <1>3, <1>5, <1>6
<1> QED BY <1>6, <1>8, <1>10, <1>11, <1>12, <1>13, <1>14 DEF ReadInv

\* The rows SQL Server skips are those before which fewer than that many come.
LEMMA Skipped ==
  ASSUME ReadTypeOK, FromOffset, reader.mode = "scan", NEW before \in FirstOf(DOMAIN table, skipped),
         NEW r \in DOMAIN table
  PROVE  /\ IsFiniteSet(Before(r)) /\ Cardinality(Before(r)) \in Nat
         /\ r \in before => Cardinality(Before(r)) < skipped
         /\ r \notin before => /\ before \subseteq Before(r) /\ Cardinality(before) = skipped
                               /\ Cardinality(Before(r)) >= skipped
<1>1. IsFiniteSet(DOMAIN table) /\ skipped \in Nat
  BY TableIsFinite DEF ReadTypeOK
<1>2. /\ before \subseteq DOMAIN table /\ IsFiniteSet(before) /\ Cardinality(before) \in Nat
      /\ Cardinality(before) <= skipped
      /\ (Cardinality(before) < skipped => before = DOMAIN table)
      /\ \A x \in before, o \in DOMAIN table \ before : Place(x) <= Place(o)
  BY <1>1, PageFacts
<1>3. \A x \in DOMAIN table : Place(x) = table[x] /\ table[x] \in Nat
  BY PlaceType DEF FromOffset, Place
<1>4. Before(r) \in SUBSET DOMAIN table
  BY DEF Before
<1>5. IsFiniteSet(Before(r)) /\ Cardinality(Before(r)) \in Nat
  BY <1>1, <1>4, FS_Subset, FS_CardinalityType
<1>6. ASSUME r \in before PROVE Cardinality(Before(r)) < skipped
  <2>1. Before(r) \subseteq before \ {r}
    <3> SUFFICES ASSUME NEW o \in Before(r) PROVE o \in before /\ o # r
      OBVIOUS
    <3>1. o \in DOMAIN table /\ table[o] < table[r] /\ table[o] \in Nat /\ table[r] \in Nat
      BY <1>3 DEF Before
    <3>2. o \notin before => table[r] <= table[o]
      BY <1>2, <1>3, <1>6, <3>1
    <3> QED BY <3>1, <3>2
  <2>2. IsFiniteSet(before \ {r}) /\ Cardinality(before \ {r}) = Cardinality(before) - 1
    BY <1>2, <1>6, FS_RemoveElement
  <2>3. Cardinality(Before(r)) <= Cardinality(before \ {r})
    BY <2>1, <2>2, FS_Subset
  <2> QED BY <1>1, <1>2, <1>5, <2>2, <2>3
<1>7. ASSUME r \notin before
      PROVE  before \subseteq Before(r) /\ Cardinality(before) = skipped /\ Cardinality(Before(r)) >= skipped
  <2>1. Cardinality(before) = skipped
    BY <1>1, <1>2, <1>7
  <2>2. before \subseteq Before(r)
    <3> SUFFICES ASSUME NEW x \in before PROVE x \in Before(r)
      OBVIOUS
    <3>1. x \in DOMAIN table /\ table[x] <= table[r] /\ x # r
      BY <1>2, <1>3, <1>7
    <3>2. table[x] # table[r]
      BY <3>1 DEF FromOffset
    <3> QED BY <1>3, <3>1, <3>2 DEF Before
  <2>3. Cardinality(before) <= Cardinality(Before(r))
    BY <1>5, <2>2, FS_Subset
  <2> QED BY <1>1, <1>5, <2>1, <2>2, <2>3
<1> QED BY <1>5, <1>6, <1>7

\* What a page behind the skipped rows adds to them.
LEMMA SkippedAfter ==
  ASSUME ReadTypeOK, FromOffset, reader.mode = "scan", NEW before \in FirstOf(DOMAIN table, skipped),
         NEW page \in FirstOf(DOMAIN table \ before, PageRows), NEW r \in DOMAIN table
  PROVE  /\ page \subseteq DOMAIN table \ before /\ Cardinality(page) \in Nat
         /\ Cardinality(page) < PageRows => page = DOMAIN table \ before
         /\ r \in page => Cardinality(Before(r)) < skipped + Cardinality(page)
         /\ r \notin before \cup page => Cardinality(Before(r)) >= skipped + Cardinality(page)
<1>1. IsFiniteSet(DOMAIN table) /\ skipped \in Nat /\ PageRows \in Nat
  BY TableIsFinite, DbSourceAssumption DEF ReadTypeOK
<1>2. /\ before \subseteq DOMAIN table /\ IsFiniteSet(before) /\ Cardinality(before) \in Nat
      /\ Cardinality(before) <= skipped
  BY <1>1, PageFacts
<1>3. IsFiniteSet(DOMAIN table \ before)
  BY <1>1, FS_Difference
<1>4. /\ page \subseteq DOMAIN table \ before /\ IsFiniteSet(page) /\ Cardinality(page) \in Nat
      /\ (Cardinality(page) < PageRows => page = DOMAIN table \ before)
      /\ \A x \in page, o \in (DOMAIN table \ before) \ page : Place(x) <= Place(o)
  BY <1>1, <1>3, PageFacts
<1>5. \A x \in DOMAIN table : Place(x) = table[x] /\ table[x] \in Nat
  BY PlaceType DEF FromOffset, Place
<1>6. IsFiniteSet(Before(r)) /\ Cardinality(Before(r)) \in Nat
  BY Skipped
<1>7. IsFiniteSet(before \cup page) /\ Cardinality(before \cup page) = Cardinality(before) + Cardinality(page)
  <2>1. before \cap page = {}
    BY <1>4
  <2>2. Cardinality(before \cup page) = Cardinality(before) + Cardinality(page) - Cardinality(before \cap page)
    BY <1>2, <1>4, FS_Union
  <2>3. IsFiniteSet(before \cup page)
    BY <1>2, <1>4, FS_Union
  <2>4. Cardinality(before \cap page) = 0
    BY <2>1, FS_EmptySet
  <2> QED BY <1>2, <1>4, <2>2, <2>3, <2>4
<1>8. ASSUME r \in page PROVE Cardinality(Before(r)) < skipped + Cardinality(page)
  <2>1. Before(r) \subseteq (before \cup page) \ {r}
    <3> SUFFICES ASSUME NEW o \in Before(r) PROVE o \in before \cup page /\ o # r
      OBVIOUS
    <3>1. o \in DOMAIN table /\ table[o] < table[r] /\ table[o] \in Nat /\ table[r] \in Nat
      BY <1>5 DEF Before
    <3>2. o \notin before \cup page => table[r] <= table[o]
      BY <1>4, <1>5, <1>8, <3>1
    <3> QED BY <3>1, <3>2
  <2>2. /\ IsFiniteSet((before \cup page) \ {r})
        /\ Cardinality((before \cup page) \ {r}) = Cardinality(before \cup page) - 1
    BY <1>7, <1>8, FS_RemoveElement
  <2>3. Cardinality(Before(r)) <= Cardinality((before \cup page) \ {r})
    BY <2>1, <2>2, FS_Subset
  <2> QED BY <1>1, <1>2, <1>4, <1>6, <1>7, <2>2, <2>3
<1>9. ASSUME r \notin before \cup page PROVE Cardinality(Before(r)) >= skipped + Cardinality(page)
  <2>1. before \subseteq Before(r) /\ Cardinality(before) = skipped
    BY <1>9, Skipped
  <2>2. page \subseteq Before(r)
    <3> SUFFICES ASSUME NEW x \in page PROVE x \in Before(r)
      OBVIOUS
    <3>1. x \in DOMAIN table /\ table[x] <= table[r] /\ x # r
      BY <1>4, <1>5, <1>9
    <3>2. table[x] # table[r]
      BY <3>1 DEF FromOffset
    <3> QED BY <1>5, <3>1, <3>2 DEF Before
  <2>3. Cardinality(before \cup page) <= Cardinality(Before(r))
    BY <1>6, <2>1, <2>2, FS_Subset
  <2> QED BY <1>6, <1>7, <2>1, <2>3
<1> QED BY <1>4, <1>8, <1>9

LEMMA ReadOffset ==
  ASSUME ReadInv, FetchOffset
  PROVE  /\ ReadInv'
         /\ Len(queue') > Len(queue) /\ added = 0 => queue'[Len(queue')] \cap Fetched = {}
<1> DEFINE before == CHOOSE skip \in FirstOf(DOMAIN table, skipped) : TRUE
<1>1. /\ ReadTypeOK /\ FromOffset /\ Reading /\ reader.mode = "scan" /\ reader.driver = "mssql"
      /\ reader' = reader /\ table' = table /\ added' = added /\ removed' = removed
      /\ last' = last /\ remaining' = remaining /\ got' = got /\ outcome' = outcome
      /\ reader.unreadable_row = 0
  BY DEF FetchOffset, tableVars, ReadInv, ReadTypeOK
<1>2. PICK page \in FirstOf(DOMAIN table \ before, PageRows) :
        Deliver(page) /\ skipped' = skipped + Cardinality(page)
  BY DEF FetchOffset
<1>3. before \in FirstOf(DOMAIN table, skipped)
  <2>1. FirstOf(DOMAIN table, skipped) # {}
    BY <1>1, TableIsFinite, FirstOfExists DEF ReadTypeOK
  <2> QED BY <2>1
<1> HIDE DEF before
<1>4. IsFiniteSet(DOMAIN table) /\ DOMAIN table \subseteq RowIds /\ Settled \subseteq DOMAIN table /\ skipped \in Nat
  BY <1>1, TableIsFinite DEF ReadTypeOK
<1>5. /\ page \subseteq DOMAIN table \ before /\ Cardinality(page) \in Nat
      /\ Cardinality(page) < PageRows => page = DOMAIN table \ before
  <2>1. IsFiniteSet(DOMAIN table \ before) /\ PageRows \in Nat
    BY <1>4, FS_Difference, DbSourceAssumption
  <2>2. page \in FirstOf(DOMAIN table \ before, PageRows)
    BY <1>2
  <2> QED BY <2>1, <2>2, PageFacts
<1>6. \A r \in DOMAIN table :
        /\ Cardinality(Before(r)) \in Nat
        /\ r \in before => Cardinality(Before(r)) < skipped
        /\ r \notin before => Cardinality(Before(r)) >= skipped
        /\ r \in page => Cardinality(Before(r)) < skipped + Cardinality(page)
        /\ r \notin before \cup page => Cardinality(Before(r)) >= skipped + Cardinality(page)
  BY <1>1, <1>3, Skipped, SkippedAfter
<1>7. /\ queue' \in Seq(SUBSET RowIds) /\ src_pc' \in {"fetching", "ended"} /\ RowIds' = RowIds
      /\ Ending' /\ Fetched' = Fetched \cup page
      /\ Len(queue') > Len(queue) => queue'[Len(queue')] = page
      /\ src_pc' = "ended" => Cardinality(page) < PageRows
  <2>1. page \in SUBSET RowIds
    BY <1>4, <1>5
  <2> QED BY <1>1, <1>2, <2>1, PageDelivered
<1>8. ReadTypeOK'
  BY <1>1, <1>2, <1>4, <1>5, <1>7 DEF ReadTypeOK
<1>9. Settled' = Settled /\ \A r : Before(r)' = Before(r)
  BY <1>1 DEF Settled, Before
<1>10. FromOffset'
  <2>1. ASSUME removed = {}, NEW r \in Settled, r \notin Fetched' PROVE Cardinality(Before(r)) >= skipped'
    <3>1. r \in DOMAIN table /\ r \notin page /\ Cardinality(Before(r)) >= skipped
      BY <1>1, <1>4, <1>7, <2>1 DEF FromOffset
    <3>2. r \notin before
      BY <1>4, <1>6, <3>1
    <3> QED BY <1>2, <1>6, <3>1, <3>2
  <2>2. ASSUME added = 0, NEW r \in DOMAIN table \cap Fetched' PROVE Cardinality(Before(r)) < skipped'
    <3>1. CASE r \in Fetched
      <4>1. Cardinality(Before(r)) < skipped
        BY <1>1, <2>2, <3>1 DEF FromOffset
      <4> QED BY <1>2, <1>4, <1>5, <1>6, <4>1
    <3>2. CASE r \in page
      BY <1>2, <1>6, <3>2
    <3> QED BY <1>7, <2>2, <3>1, <3>2
  <2> QED BY <1>1, <1>9, <2>1, <2>2 DEF FromOffset
<1>11. BehindCursor' /\ FromStatement'
  BY <1>1 DEF ReadInv, BehindCursor, FromStatement
<1>12. EndReached'
  <2> SUFFICES ASSUME src_pc' = "ended", removed = {}, NEW r \in Settled PROVE r \in Fetched'
    BY <1>1, <1>9 DEF EndReached, Given
  <2>1. r \in DOMAIN table /\ (r \in page \/ r \in before)
    BY <1>4, <1>5, <1>7
  <2>2. r \in before => r \in Fetched
    BY <1>1, <1>4, <1>6, <2>1 DEF FromOffset
  <2> QED BY <1>7, <2>1, <2>2
<1>13. ASSUME Len(queue') > Len(queue), added = 0 PROVE queue'[Len(queue')] \cap Fetched = {}
  <2>1. \A r \in page : r \notin Fetched
    BY <1>1, <1>4, <1>5, <1>6, <1>13 DEF FromOffset
  <2> QED BY <1>7, <1>13, <2>1
<1> QED BY <1>7, <1>8, <1>10, <1>11, <1>12, <1>13 DEF ReadInv

\* A new row is none of the settled ones, and makes room for none of them to be missed.
LEMMA WhileInserted ==
  ASSUME ReadInv, InsertRow
  PROVE  ReadInv'
<1>1. /\ ReadTypeOK /\ FromOffset /\ src_pc = "fetching" /\ added' = added + 1
      /\ reader' = reader /\ removed' = removed /\ src_pc' = src_pc
      /\ last' = last /\ skipped' = skipped /\ remaining' = remaining /\ queue' = queue /\ got' = got /\ outcome' = outcome
  BY DEF InsertRow, cursorVars, ReadInv
<1> DEFINE new == TableRows + added'
<1>2. PICK k \in NewKeys : table' = [r \in DOMAIN table \cup {new} |-> IF r \in DOMAIN table THEN table[r] ELSE k]
  BY DEF InsertRow
<1>a. TableRows \in Nat /\ added \in Nat /\ removed \subseteq RowIds /\ DOMAIN table = RowIds \ removed
  BY <1>1, DbSourceAssumption DEF ReadTypeOK
<1>b. new = TableRows + added + 1
  BY <1>1, <1>a
<1>3. /\ TableRows \in Nat /\ added \in Nat /\ removed \subseteq RowIds /\ DOMAIN table = RowIds \ removed
      /\ new = TableRows + added + 1
  BY <1>a, <1>b
<1>4. /\ RowIds' = RowIds \cup {new} /\ new \notin RowIds /\ new \notin 1..TableRows
  BY <1>1, <1>3 DEF RowIds
<1> HIDE DEF new
<1>5. /\ DOMAIN table' = DOMAIN table \cup {new} /\ new \notin DOMAIN table /\ table'[new] = k
      /\ \A r \in DOMAIN table : table'[r] = table[r]
  BY <1>2, <1>3, <1>4
<1>6. k \in 0..AfterAll - 1 /\ k # NoKey /\ (reader.mode = "scan" => \A r \in DOMAIN table : table[r] # k)
  <2>1. k \in {3, 2 * TableRows + 1}
    BY <1>2 DEF NewKeys
  <2>2. k \in 0..AfterAll - 1 /\ k # NoKey
    BY <1>3, <2>1 DEF AfterAll, NoKey
  <2> QED BY <1>2, <2>2 DEF NewKeys
<1>7. Settled' = Settled /\ Settled \subseteq DOMAIN table /\ IsFiniteSet(DOMAIN table) /\ Fetched' = Fetched /\ Fetched \subseteq RowIds
  <2>1. got \subseteq RowIds /\ Batched(queue) \subseteq RowIds
    <3>1. got \subseteq RowIds /\ queue \in Seq(SUBSET RowIds)
      BY <1>1 DEF ReadTypeOK
    <3>2. \A i \in DOMAIN queue : queue[i] \in SUBSET RowIds
      BY <3>1, LenProperties, ElementOfSeq
    <3> QED BY <3>1, <3>2 DEF Batched
  <2> QED BY <1>1, <2>1, TableIsFinite DEF Settled, Fetched
<1>8. ReadTypeOK'
  <2>1. queue \in Seq(SUBSET RowIds')
    <3>1. queue \in Seq(SUBSET RowIds) /\ SUBSET RowIds \subseteq SUBSET RowIds'
      BY <1>1, <1>4 DEF ReadTypeOK
    <3> QED BY <3>1
  <2>2. remaining \in [open : BOOLEAN, rows : SUBSET RowIds']
    BY <1>1, <1>4 DEF ReadTypeOK
  <2>3. table' \in [DOMAIN table' -> 0..AfterAll - 1]
    <3>1. \A r \in DOMAIN table : table[r] \in 0..AfterAll - 1
      BY <1>1 DEF ReadTypeOK
    <3>2. \A r \in DOMAIN table' : table'[r] \in 0..AfterAll - 1
      BY <1>5, <1>6, <3>1
    <3>3. table' = [r \in DOMAIN table' |-> table'[r]]
      BY <1>2, <1>5
    <3> QED BY <3>2, <3>3
  <2>4. DOMAIN table' = RowIds' \ removed
    BY <1>3, <1>4, <1>5
  <2>5. AfterAll' = AfterAll
    BY DEF AfterAll
  <2> QED BY <1>1, <1>3, <1>4, <2>1, <2>2, <2>3, <2>4, <2>5 DEF ReadTypeOK
<1>9. Ending' /\ EndReached'
  BY <1>1 DEF ReadInv, Ending, EndReached
<1>10. BehindCursor'
  <2>1. ASSUME NEW r \in Settled, Given(r, Fetched) PROVE Given(r, Fetched)'
    <3>1. r \in DOMAIN table /\ table'[r] = table[r] /\ Alike(r) \subseteq Alike(r)'
      BY <1>5, <1>7 DEF Alike
    <3> QED BY <1>1, <1>7, <2>1, <3>1 DEF Given
  <2>2. Repeats => Repeats'
    <3>1. NullRows \subseteq NullRows'
      BY <1>5 DEF NullRows
    <3> QED BY <1>1, <1>7, <3>1 DEF Repeats
  <2>3. ASSUME NEW r \in DOMAIN table' \cap Fetched PROVE r \in DOMAIN table \cap Fetched /\ table'[r] = table[r]
    BY <1>4, <1>5, <1>7, <2>3
  <2>4. \A r \in Settled : table'[r] = table[r]
    BY <1>5, <1>7
  <2>5. BehindCursor
    BY DEF ReadInv
  <2> QED BY <1>1, <1>7, <2>1, <2>2, <2>3, <2>4, <2>5 DEF BehindCursor
<1>11. FromStatement'
  BY <1>1, <1>7 DEF ReadInv, FromStatement
<1>12. FromOffset'
  <2> SUFFICES ASSUME reader.mode = "scan" PROVE FromOffset'
    BY <1>1 DEF FromOffset
  <2>1. \A r, other \in DOMAIN table : table[r] # NoKey /\ (table[r] = table[other] => r = other)
    BY <1>1 DEF FromOffset
  <2>2. \A r, other \in DOMAIN table' : table'[r] # NoKey /\ (table'[r] = table'[other] => r = other)
    BY <1>5, <1>6, <2>1
  <2>3. ASSUME NEW r \in Settled PROVE Cardinality(Before(r)') >= Cardinality(Before(r)) /\ Cardinality(Before(r)) \in Nat /\ Cardinality(Before(r)') \in Nat
    <3>1. Before(r) \subseteq Before(r)' /\ Before(r)' \subseteq DOMAIN table \cup {new}
      BY <1>5, <1>7 DEF Before
    <3>2. IsFiniteSet(Before(r)')
      BY <1>7, <3>1, FS_AddElement, FS_Subset
    <3> QED BY <3>1, <3>2, FS_Subset, FS_CardinalityType
  <2>4. ASSUME reader.driver = "mssql", removed = {}, NEW r \in Settled, r \notin Fetched PROVE Cardinality(Before(r)') >= skipped
    <3>1. Cardinality(Before(r)) >= skipped /\ skipped \in Nat
      BY <1>1, <2>4 DEF FromOffset, ReadTypeOK
    <3> QED BY <2>3, <3>1
  <2>5. added' # 0
    BY <1>1, <1>3
  <2> QED BY <1>1, <1>7, <2>2, <2>4, <2>5 DEF FromOffset
<1> QED BY <1>8, <1>9, <1>10, <1>11, <1>12 DEF ReadInv

LEMMA WhileDeleted ==
  ASSUME ReadInv, DeleteRow
  PROVE  ReadInv'
<1>1. /\ ReadTypeOK /\ FromOffset /\ src_pc = "fetching"
      /\ reader' = reader /\ added' = added /\ src_pc' = src_pc
      /\ last' = last /\ skipped' = skipped /\ remaining' = remaining /\ queue' = queue /\ got' = got /\ outcome' = outcome
  BY DEF DeleteRow, cursorVars, ReadInv
<1>2. PICK gone \in DOMAIN table :
        removed' = removed \cup {gone} /\ table' = [other \in DOMAIN table \ {gone} |-> table[other]]
  BY DEF DeleteRow
<1>3. RowIds' = RowIds /\ removed \subseteq RowIds /\ DOMAIN table = RowIds \ removed /\ Fetched' = Fetched
  BY <1>1 DEF RowIds, ReadTypeOK, Fetched
<1>4. DOMAIN table' = DOMAIN table \ {gone} /\ \A r \in DOMAIN table' : table'[r] = table[r]
  BY <1>2
<1>5. /\ Settled \subseteq DOMAIN table /\ Settled' \subseteq Settled /\ Settled' \subseteq DOMAIN table'
      /\ IsFiniteSet(DOMAIN table)
  BY <1>1, <1>2, <1>4, TableIsFinite DEF Settled
<1>6. ReadTypeOK'
  <2>1. \A r \in DOMAIN table : table[r] \in 0..AfterAll - 1
    BY <1>1 DEF ReadTypeOK
  <2>2. table' \in [DOMAIN table' -> 0..AfterAll - 1] /\ AfterAll' = AfterAll
    BY <1>2, <1>4, <2>1 DEF AfterAll
  <2>3. DOMAIN table' = RowIds' \ removed' /\ removed' \subseteq RowIds
    BY <1>2, <1>3, <1>4
  <2> QED BY <1>1, <1>3, <2>2, <2>3 DEF ReadTypeOK
<1>7. Ending' /\ EndReached'
  BY <1>1 DEF ReadInv, Ending, EndReached
<1>8. BehindCursor'
  <2>1. ASSUME NEW r \in Settled', Given(r, Fetched) PROVE Given(r, Fetched)'
    <3>1. r \in DOMAIN table' /\ table'[r] = table[r] /\ Alike(r) \subseteq Alike(r)' \cup {gone}
      BY <1>4, <1>5 DEF Alike
    <3>2. Alike(r) \cup removed \subseteq Alike(r)' \cup removed'
      BY <1>2, <3>1
    <3>3. removed # {} => removed' # {}
      BY <1>2
    <3> QED BY <1>1, <1>3, <2>1, <3>1, <3>2, <3>3 DEF Given
  <2>2. Repeats => Repeats'
    <3>1. NullRows \cup removed \subseteq NullRows' \cup removed'
      BY <1>2, <1>4 DEF NullRows
    <3> QED BY <1>1, <1>3, <3>1 DEF Repeats
  <2>3. BehindCursor
    BY DEF ReadInv
  <2>4. \A r \in Settled' : r \in Settled /\ table'[r] = table[r]
    BY <1>4, <1>5
  <2> QED BY <1>1, <1>3, <1>4, <2>1, <2>2, <2>3, <2>4 DEF BehindCursor
<1>9. FromStatement'
  BY <1>1, <1>3, <1>5 DEF ReadInv, FromStatement
<1>10. FromOffset'
  <2> SUFFICES ASSUME reader.mode = "scan" PROVE FromOffset'
    BY <1>1 DEF FromOffset
  <2>1. \A r, other \in DOMAIN table' : table'[r] # NoKey /\ (table'[r] = table'[other] => r = other)
    BY <1>1, <1>4 DEF FromOffset
  <2>2. removed' # {}
    BY <1>2
  <2>3. ASSUME reader.driver = "mssql", added = 0, NEW r \in DOMAIN table' \cap Fetched PROVE Cardinality(Before(r)') < skipped
    <3>1. r \in DOMAIN table \cap Fetched /\ Before(r)' \subseteq Before(r) /\ Before(r) \subseteq DOMAIN table
      BY <1>4, <2>3 DEF Before
    <3>2. Cardinality(Before(r)) < skipped /\ skipped \in Nat
      BY <1>1, <2>3, <3>1 DEF FromOffset, ReadTypeOK
    <3>3. IsFiniteSet(Before(r)) /\ IsFiniteSet(Before(r)') /\ Cardinality(Before(r)') <= Cardinality(Before(r))
      BY <1>5, <3>1, FS_Subset
    <3>4. Cardinality(Before(r)) \in Nat /\ Cardinality(Before(r)') \in Nat
      BY <3>3, FS_CardinalityType
    <3> QED BY <3>2, <3>3, <3>4
  <2> QED BY <1>1, <1>3, <2>1, <2>2, <2>3 DEF FromOffset
<1> QED BY <1>6, <1>7, <1>8, <1>9, <1>10 DEF ReadInv

LEMMA ReadStart == DbSourceInit => ReadInv
<1> SUFFICES ASSUME DbSourceInit PROVE ReadInv
  OBVIOUS
<1>1. /\ reader \in Readers /\ table \in Layouts /\ added = 0 /\ removed = {}
      /\ last = NoKey /\ skipped = 0 /\ remaining = [open |-> FALSE, rows |-> {}]
      /\ src_pc = "fetching" /\ queue = <<>> /\ got = {} /\ outcome = "reading"
      /\ reader.mode = "scan" => \A r \in DOMAIN table : table[r] = 2 * r
      /\ reader.driver # "postgres" => reader.unreadable_row = 0
  BY DEF DbSourceInit
<1>2. TableRows \in Nat /\ PageRows \in Nat /\ PageRows > 0
  BY DbSourceAssumption
<1>3. RowIds = 1..TableRows /\ AfterAll = 2 * TableRows + 4
  BY <1>1, <1>2 DEF RowIds, AfterAll
<1>4. DOMAIN table = 1..TableRows /\ table \in [1..TableRows -> 0..AfterAll - 1]
  <2>1. \A r \in 1..TableRows : 2 * r \in 0..AfterAll - 1
    BY <1>2, <1>3
  <2>2. \A r \in 1..TableRows : r = PageRows + 1 => 2 * PageRows \in 0..AfterAll - 1
    BY <1>2, <1>3
  <2>3. NoKey \in 0..AfterAll - 1
    BY <1>2, <1>3 DEF NoKey
  <2> QED BY <1>1, <2>1, <2>2, <2>3 DEF Layouts
<1>5. Fetched = {}
  BY <1>1 DEF Fetched, Batched
<1>6. ReadTypeOK
  <2>1. queue \in Seq(SUBSET RowIds)
    BY <1>1
  <2> QED BY <1>1, <1>3, <1>4, <2>1 DEF ReadTypeOK, NoKey
<1>7. Ending /\ EndReached
  BY <1>1 DEF Ending, EndReached, HasError
<1>8. BehindCursor /\ FromStatement
  BY <1>1, <1>5 DEF BehindCursor, FromStatement
<1>9. FromOffset
  <2>1. reader.mode = "scan" => \A r, other \in DOMAIN table : table[r] # NoKey /\ (table[r] = table[other] => r = other)
    BY <1>1, <1>2, <1>4 DEF NoKey
  <2>2. ASSUME NEW r \in Settled PROVE Cardinality(Before(r)) >= skipped
    <3>1. IsFiniteSet(Before(r))
      <4>1. Before(r) \in SUBSET (1..TableRows) /\ IsFiniteSet(1..TableRows)
        BY <1>2, <1>4, FS_Interval DEF Before
      <4> QED BY <4>1, FS_Subset
    <3> QED BY <1>1, <3>1, FS_CardinalityType
  <2> QED BY <1>5, <2>1, <2>2 DEF FromOffset
<1> QED BY <1>6, <1>7, <1>8, <1>9 DEF ReadInv

\* Whatever the page size and the table, reading a table in pages while others write to
\* it gives each settled row before the stream ends, and gives no row a second time, but
\* for the exceptions the property names: exec of the four database sources.
THEOREM SettledRowsAreRead == DbSourceSpec => SettledRowsReadOnce
<1>1. ReadInv /\ [DbSourceNext]_dbVars => ReadInv' /\ (NothingFetchedTwice \/ UNCHANGED dbVars)
  <2> SUFFICES ASSUME ReadInv, [DbSourceNext]_dbVars PROVE ReadInv' /\ (NothingFetchedTwice \/ UNCHANGED dbVars)
    OBVIOUS
  <2>1. CASE FetchKeyset
    <3>1. reader.mode = "keyset"
      BY <2>1 DEF FetchKeyset
    <3> QED BY <2>1, <3>1, ReadKeyset DEF NothingFetchedTwice
  <2>2. CASE FetchOffset
    <3>1. reader.mode = "scan" /\ reader.driver = "mssql" /\ last = NoKey
      BY <2>2 DEF FetchOffset, ReadInv, BehindCursor
    <3> QED BY <2>2, <3>1, ReadOffset DEF NothingFetchedTwice
  <2>3. CASE OpenStatement
    <3>1. ReadInv' /\ queue' = queue /\ Len(queue) \in Nat
      BY <2>3, ReadOpen, LenProperties DEF ReadInv, ReadTypeOK
    <3> QED BY <3>1 DEF NothingFetchedTwice
  <2>4. CASE FetchOn
    BY <2>4, ReadOn DEF NothingFetchedTwice
  <2>5. CASE QueryFails \/ SendFails \/ HangUp \/ EndOfStream \/ PipelineTakes
    <3>1. ReadInv'
      BY <2>5, ReadEnd
    <3>2. queue \in Seq(SUBSET RowIds) /\ Len(queue) \in Nat
      BY LenProperties DEF ReadInv, ReadTypeOK
    <3>3. CASE QueryFails
      <4>1. queue'[Len(queue')] = {}
        <5>1. {} \in SUBSET RowIds /\ queue' = Append(queue, {})
          BY <3>3 DEF QueryFails
        <5> QED BY <3>2, <5>1, AppendToQueue
      <4> QED BY <3>1, <4>1 DEF NothingFetchedTwice
    <3>4. CASE PipelineTakes
      <4>1. queue # <<>> /\ queue' = Tail(queue)
        BY <3>4 DEF PipelineTakes
      <4>2. Len(queue') = Len(queue) - 1
        BY <3>2, <4>1, HeadTailProperties
      <4> QED BY <3>1, <3>2, <4>2 DEF NothingFetchedTwice
    <3>5. CASE SendFails \/ HangUp \/ EndOfStream
      <4>1. queue' = queue
        BY <3>5 DEF SendFails, HangUp, EndOfStream
      <4> QED BY <3>1, <3>2, <4>1 DEF NothingFetchedTwice
    <3> QED BY <2>5, <3>3, <3>4, <3>5
  <2>6. CASE InsertRow \/ DeleteRow
    <3>1. ReadInv' /\ queue' = queue /\ Len(queue) \in Nat
      BY <2>6, WhileInserted, WhileDeleted, LenProperties DEF InsertRow, DeleteRow, ReadInv, ReadTypeOK
    <3> QED BY <3>1 DEF NothingFetchedTwice
  <2>7. CASE UNCHANGED dbVars
    <3>1. /\ reader' = reader /\ table' = table /\ added' = added /\ removed' = removed
          /\ last' = last /\ skipped' = skipped /\ remaining' = remaining
          /\ src_pc' = src_pc /\ queue' = queue /\ got' = got /\ outcome' = outcome
      BY <2>7 DEF dbVars
    <3>2. RowIds' = RowIds /\ Fetched' = Fetched /\ UNCHANGED <<reader, tableVars, cursorVars>>
      BY <3>1 DEF RowIds, Fetched, tableVars, cursorVars
    <3>3. ReadTypeOK'
      BY <3>1, <3>2 DEF ReadInv, ReadTypeOK
    <3>4. Ending' /\ EndReached'
      BY <3>1, <3>2, SameRows DEF ReadInv, Ending, EndReached
    <3> QED BY <2>7, <3>2, <3>3, <3>4, SameRows DEF ReadInv
  <2> QED BY <2>1, <2>2, <2>3, <2>4, <2>5, <2>6, <2>7 DEF DbSourceNext, ReadSide, Fetch, PipelineSide
<1>2. ReadInv => SettledRowsRead
  <2> SUFFICES ASSUME ReadInv, outcome = "whole", reader.unreadable_row = 0, NEW r \in Settled PROVE Given(r, got)
    BY DEF SettledRowsRead
  <2>1. queue = <<>> /\ src_pc = "ended"
    BY DEF ReadInv, Ending
  <2>2. Fetched = got /\ ~HasError(queue)
    BY <2>1 DEF Fetched, Batched, HasError
  <2> QED BY <2>1, <2>2 DEF ReadInv, EndReached
<1>3. ReadInv /\ [DbSourceNext]_dbVars => [ReadInv' /\ SettledRowsRead' /\ NothingFetchedTwice]_dbVars
  <2>1. ReadInv' => SettledRowsRead'
    BY <1>2, PTL
  <2> QED BY <1>1, <2>1
<1> QED BY <1>1, <1>3, ReadStart, PTL DEF DbSourceSpec, SettledRowsReadOnce

(***************************************************************************)
(* Reading a REST API in pages                                             *)
(***************************************************************************)
\* How many batches are cut off the rows, and what is left of them.
Full(rows) == Len(rows) \div BatchSize
Left(rows) == SubSeq(rows, Full(rows) * BatchSize + 1, Len(rows))
Edge(rows) == [k \in 0..Full(rows) |-> k * BatchSize]

LEMMA EdgesFollow ==
  ASSUME NEW S, NEW rows \in Seq(S)
  PROVE  /\ Full(rows) \in Nat
         /\ Ascends(Edge(rows), Full(rows), Len(rows))
         /\ Edge(rows)[Full(rows)] = Full(rows) * BatchSize
         /\ Edge(rows)[Full(rows)] \in Nat /\ Edge(rows)[Full(rows)] <= Len(rows)
<1> DEFINE len == Len(rows)
           full == Full(rows)
           at == Edge(rows)
<1>1. BatchSize \in Nat \ {0} /\ len \in Nat /\ full = len \div BatchSize
  BY RestSourceAssumption, LenProperties DEF Full
<1> HIDE DEF len, full
<1>2. full \in Nat /\ full * BatchSize \in Nat /\ full * BatchSize <= len
  BY <1>1, Quotient
<1>3. \A k \in 0..full : at[k] = k * BatchSize
  BY DEF Edge, full
<1> HIDE DEF at
<1>4. \A k \in 0..full : at[k] \in Nat /\ at[k] <= len /\ (k < full => at[k] <= at[k + 1])
  <2> SUFFICES ASSUME NEW k \in 0..full
               PROVE  at[k] \in Nat /\ at[k] <= len /\ (k < full => at[k] <= at[k + 1])
    OBVIOUS
  <2>1. BatchSize * k <= BatchSize * full /\ (k < full => BatchSize * k <= BatchSize * (k + 1))
    <3>1. k \in Nat /\ k + 1 \in Nat /\ k <= k + 1 /\ k <= full
      BY <1>2
    <3>2. BatchSize * k <= BatchSize * full
      BY <1>1, <1>2, <3>1, TimesMonotonic
    <3>3. BatchSize * k <= BatchSize * (k + 1)
      BY <1>1, <3>1, TimesMonotonic
    <3> QED BY <3>2, <3>3
  <2> DEFINE a == k * BatchSize
             b == full * BatchSize
             c == (k + 1) * BatchSize
  <2>2. BatchSize * k = a /\ BatchSize * full = b /\ a \in Nat /\ BatchSize * (k + 1) = c
    BY <1>1, <1>2
  <2>3. at[k] = a /\ (k < full => at[k + 1] = c)
    <3>1. k < full => k + 1 \in 0..full
      BY <1>2
    <3> QED BY <1>3, <3>1
  <2>4. a \in Nat /\ b \in Nat /\ a <= b /\ (k < full => a <= c) /\ b <= len
    BY <1>2, <2>1, <2>2
  <2> HIDE DEF a, b, c
  <2> QED BY <1>1, <2>3, <2>4
<1>5. 0 \in 0..full /\ full \in 0..full /\ 0 * BatchSize = 0
  BY <1>1, <1>2
<1>6. at[0] = 0 /\ at[full] = full * BatchSize
  BY <1>3, <1>5
<1>7. at[full] \in Nat /\ at[full] <= len
  BY <1>4, <1>5
<1>8. Ascends(at, full, len)
  BY <1>4, <1>6 DEF Ascends
<1> QED BY <1>2, <1>6, <1>7, <1>8 DEF len, full, at

\* Whatever is cut into batches, delivered or left in the buffer, no row is lost.
LEMMA CutFlattens ==
  ASSUME NEW S, NEW out \in Seq(Seq(S)), NEW rows \in Seq(S)
  PROVE  /\ out \o Cut(rows, Full(rows)) \in Seq(Seq(S)) /\ Left(rows) \in Seq(S)
         /\ FlattenSeq(out \o Cut(rows, Full(rows))) \o Left(rows) = FlattenSeq(out) \o rows
         /\ FlattenSeq((out \o Cut(rows, Full(rows))) \o <<Left(rows)>>) = FlattenSeq(out) \o rows
<1> DEFINE full == Full(rows)
           at == Edge(rows)
           cuts == Cut(rows, Full(rows))
           front == SubSeq(rows, 1, at[full])
           tail == Left(rows)
           F == FlattenSeq(out)
<1>1. /\ full \in Nat /\ Ascends(at, full, Len(rows))
      /\ at[full] = full * BatchSize /\ at[full] \in Nat /\ at[full] <= Len(rows)
  BY EdgesFollow
<1>2. cuts = Stretches(rows, at, full)
  <2>1. \A i \in 1..full : at[i - 1] = (i - 1) * BatchSize /\ at[i] = i * BatchSize
    <3>1. \A i \in 1..full : i - 1 \in 0..full /\ i \in 0..full
      BY <1>1
    <3> QED BY <3>1 DEF Edge
  <2> HIDE DEF at
  <2> QED BY <2>1 DEF Cut, Stretches
<1>3. tail = SubSeq(rows, at[full] + 1, Len(rows))
  BY <1>1 DEF Left
<1>4. Len(rows) \in Nat
  BY LenProperties
<1>5. F \in Seq(S)
  BY FlattenType
<1> HIDE DEF full, at, cuts, tail
<1>6. out \o cuts \in Seq(Seq(S)) /\ FlattenSeq(out \o cuts) = F \o front
  <2>1. full \in Nat /\ Ascends(at, full, Len(rows))
    BY <1>1
  <2>2. out \o Stretches(rows, at, full) \in Seq(Seq(S)) /\ Joins(out, rows, at, full)
    BY <2>1, FlattenStretches
  <2> QED BY <1>2, <2>2 DEF Joins
<1>7. front \in Seq(S) /\ tail \in Seq(S) /\ front \o tail = rows
  <2>1. 0 \in Nat /\ 0 + 1 = 1 /\ Len(rows) <= Len(rows)
    BY <1>4
  <2>2. front \in Seq(S)
    BY <1>1, <2>1, StretchType
  <2>3. tail \in Seq(S)
    BY <1>1, <1>3, <1>4, <2>1, StretchType
  <2>4. 1 \in 1..Len(rows) + 1 /\ at[full] \in (1 - 1)..Len(rows) /\ Len(rows) \in at[full]..Len(rows)
    BY <1>1, <1>4
  <2>5. front \o tail = SubSeq(rows, 1, Len(rows))
    BY <1>3, <2>4, ConcatAdjacentSubSeq
  <2> QED BY <2>2, <2>3, <2>5, SubSeqFull
<1> HIDE DEF front, F
<1>8. (F \o front) \o tail = F \o rows
  <2>1. \A a, b, c \in Seq(S) : (a \o b) \o c = a \o (b \o c)
    BY ConcatAssociative, SMTT(30)
  <2>2. (F \o front) \o tail = F \o (front \o tail)
    BY <1>5, <1>7, <2>1
  <2> QED BY <1>7, <2>2
<1>9. FlattenSeq((out \o cuts) \o <<tail>>) = FlattenSeq(out \o cuts) \o tail
  <2>1. (out \o cuts) \o <<tail>> = Append(out \o cuts, tail)
    BY <1>6, <1>7, AppendIsConcat
  <2> QED BY <1>6, <1>7, <2>1, FlattenAppend
<1> QED BY <1>6, <1>7, <1>8, <1>9 DEF F, cuts, tail, full

\* The rows before the position of a cursor are those that are not older.
LEMMA PassedIs ==
  ASSUME RestTypeOK, Listed
  PROVE  /\ Passed \in 0..Len(server)
         /\ \A i \in 1..Len(server) : i <= Passed <=> cursor # 0 /\ server[i] >= cursor
<1> DEFINE n == Len(server)
           S == {i \in 1..(n + 1) : i = n + 1 \/ ~(cursor # 0 /\ server[i] >= cursor)}
<1>1. n \in Nat /\ DOMAIN server = 1..n /\ \A i \in 1..n : server[i] \in Nat
  <2>1. server \in Seq(RowNumbers)
    BY DEF Listed
  <2>2. n \in Nat /\ DOMAIN server = 1..n /\ \A i \in 1..n : server[i] \in RowNumbers
    BY <2>1, LenProperties, ElementOfSeq
  <2>3. \A r \in RowNumbers : r \in Nat
    BY DEF RowNumbers
  <2> QED BY <2>2, <2>3
<1>2. cursor \in Nat
  BY DEF RestTypeOK, RowNumbers
<1>3. \A i, j \in 1..n : i < j => server[i] > server[j]
  BY <1>1 DEF Listed
<1> HIDE DEF n
<1>4. PICK m \in S : \A k \in S : m <= k
  <2>1. S \in SUBSET Nat /\ n + 1 \in S
    BY <1>1
  <2> HIDE DEF S
  <2> QED BY <2>1, LeastNumber
<1>5. m \in 1..(n + 1)
  OBVIOUS
<1>6. \A i \in 1..n : i < m <=> cursor # 0 /\ server[i] >= cursor
  <2> SUFFICES ASSUME NEW i \in 1..n PROVE i < m <=> cursor # 0 /\ server[i] >= cursor
    OBVIOUS
  <2>1. CASE i < m
    <3>1. i \notin S
      BY <1>1, <1>4, <1>5, <2>1
    <3>2. i \in 1..(n + 1)
      BY <1>1
    <3> QED BY <2>1, <3>1, <3>2
  <2>2. CASE ~(i < m)
    <3>1. m \in 1..n /\ ~(cursor # 0 /\ server[m] >= cursor)
      BY <1>1, <1>5, <2>2
    <3>2. i = m \/ server[m] > server[i]
      BY <1>1, <1>3, <1>5, <2>2, <3>1
    <3> QED BY <1>1, <1>2, <2>2, <3>1, <3>2
  <2> QED BY <2>1, <2>2
<1>7. {i \in DOMAIN server : cursor # 0 /\ server[i] >= cursor} = 1..(m - 1)
  BY <1>1, <1>5, <1>6
<1>8. Passed = m - 1
  <2>1. Cardinality(1..(m - 1)) = m - 1
    BY <1>1, <1>5, FS_Interval
  <2> QED BY <1>7, <2>1 DEF Passed
<1> QED BY <1>1, <1>5, <1>6, <1>8 DEF n

LEMMA OptionTypes ==
  ASSUME RestTypeOK
  PROVE  /\ opts.strategy \in {"none", "cursor", "offset", "page", "link_header"}
         /\ opts.cap \in Nat \ {0} /\ opts.cap <= PageSize /\ PageSize \in Nat \ {0}
         /\ opts.dedup \in BOOLEAN /\ opts.total \in BOOLEAN /\ opts.has_more \in BOOLEAN
BY RestSourceAssumption DEF RestTypeOK, Options

LEMMA ServerTypes ==
  ASSUME RestTypeOK, Listed
  PROVE  /\ Len(server) \in Nat /\ DOMAIN server = 1..Len(server)
         /\ \A i \in 1..Len(server) : server[i] \in RowNumbers /\ server[i] \in Nat \ {0}
         /\ \A r \in RowNumbers : r \in Nat \ {0}
         /\ Rows + inserted \in Nat /\ cursor \in Nat
<1>1. server \in Seq(RowNumbers)
  BY DEF Listed
<1>2. \A r \in RowNumbers : r \in Nat \ {0}
  BY DEF RowNumbers
<1>3. Rows + inserted \in Nat
  BY RestSourceAssumption DEF RestTypeOK
<1>4. cursor \in Nat
  BY <1>2 DEF RestTypeOK
<1> QED BY <1>1, <1>2, <1>3, <1>4, LenProperties, ElementOfSeq

LEMMA PositionType ==
  ASSUME RestTypeOK, Listed
  PROVE  Position \in Nat
<1>1. /\ opts.strategy \in {"none", "cursor", "offset", "page", "link_header"}
      /\ opts.cap \in Nat
  BY OptionTypes
<1>2. offset \in Nat /\ page_num - 1 \in Nat
  BY DEF RestTypeOK
<1>3. (page_num - 1) * opts.cap \in Nat
  BY <1>1, <1>2
<1>4. Passed \in Nat
  BY PassedIs, ServerTypes
<1>5. CASE opts.strategy = "none"
  BY <1>5 DEF Position, Continued
<1>6. CASE opts.strategy = "offset"
  BY <1>2, <1>6 DEF Position, Continued
<1>7. CASE opts.strategy = "page"
  BY <1>3, <1>7 DEF Position, Continued
<1>8. CASE opts.strategy \in Continued
  BY <1>4, <1>8 DEF Position, Continued
<1> QED BY <1>1, <1>5, <1>6, <1>7, <1>8 DEF Continued

\* A page is the stretch of rows that follows the position, and a short one is the last.
LEMMA PageIs ==
  ASSUME RestTypeOK, Listed
  PROVE  /\ Page \in Seq(RowNumbers) /\ Len(Page) \in Nat
         /\ \A i \in 1..Len(Page) : /\ Position + i \in 1..Len(server)
                                    /\ Page[i] = server[Position + i]
         /\ opts.strategy # "none" => Len(Page) <= opts.cap
         /\ opts.strategy = "none" \/ Len(Page) < opts.cap => Len(server) <= Position + Len(Page)
<1> DEFINE from == SubSeq(server, Position + 1, Len(server))
           n == Len(server)
           p == Position
           cap == opts.cap
           whole == opts.strategy = "none"
<1>1. p \in Nat /\ n \in Nat /\ server \in Seq(RowNumbers) /\ cap \in Nat \ {0}
  BY PositionType, ServerTypes, OptionTypes DEF Listed
<1>2. /\ from \in Seq(RowNumbers)
      /\ Len(from) = IF p <= n THEN n - p ELSE 0
      /\ \A i \in 1..(n - p) : from[i] = server[p + i]
  BY <1>1, StretchType
<1>3. /\ \A i \in 1..Len(from) : p + i \in 1..n /\ from[i] = server[p + i]
      /\ Len(from) \in Nat /\ n <= p + Len(from)
  <2> HIDE DEF n, p, from
  <2> QED BY <1>1, <1>2
<1>4. Page = IF whole \/ Len(from) <= cap THEN from ELSE SubSeq(from, 1, cap)
  BY DEF Page
<1> HIDE DEF from, n, p, cap, whole
<1>5. CASE whole \/ Len(from) <= cap
  <2>1. Page = from
    BY <1>4, <1>5
  <2> QED BY <1>2, <1>3, <1>5, <2>1 DEF n, p, cap, whole
<1>6. CASE ~(whole \/ Len(from) <= cap)
  <2> DEFINE page == SubSeq(from, 1, cap)
  <2>1. 0 \in Nat /\ 0 + 1 = 1 /\ 0 <= cap /\ cap - 0 = cap /\ cap <= Len(from) /\ cap \in Nat
    BY <1>1, <1>3, <1>6
  <2>2. /\ page \in Seq(RowNumbers)
        /\ Len(page) = IF 0 <= cap THEN cap - 0 ELSE 0
        /\ \A i \in 1..(cap - 0) : page[i] = from[0 + i]
    BY <1>2, <2>1, StretchType
  <2>3. Len(page) = cap
    BY <2>1, <2>2
  <2>4. \A i \in 1..cap : i \in 1..Len(from) /\ 0 + i = i /\ i \in 1..(cap - 0)
    BY <1>3, <2>1
  <2>5. \A i \in 1..cap : page[i] = from[i] /\ p + i \in 1..n /\ from[i] = server[p + i]
    BY <1>3, <2>2, <2>4
  <2>6. Page = page
    BY <1>4, <1>6
  <2> HIDE DEF page
  <2>7. ~(Len(page) < cap) /\ ~whole /\ Len(page) <= cap /\ Len(page) \in Nat
    BY <1>1, <1>6, <2>3
  <2> QED BY <2>2, <2>3, <2>5, <2>6, <2>7 DEF n, p, cap, whole
<1> QED BY <1>5, <1>6

\* What the duplicates leave of a page.
Keeps(f, page) ==
  f = [n \in 0..Len(page) |->
         IF n = 0 THEN <<>> ELSE IF IsNew(page, n) THEN Append(f[n - 1], page[n]) ELSE f[n - 1]]

LEMMA KeepsExists ==
  ASSUME NEW S, NEW page \in Seq(S)
  PROVE  \E f : Keeps(f, page)
<1> DEFINE N == Len(page)
           step(f, n) == IF n = 0 THEN <<>>
                         ELSE IF IsNew(page, n) THEN Append(f[n - 1], page[n]) ELSE f[n - 1]
           Have == {k \in 0..N : \E f : f = [n \in 0..k |-> step(f, n)]}
<1>1. N \in Nat
  BY LenProperties
<1>2. 0 \in Have
  <2> DEFINE f == [n \in 0..0 |-> <<>>]
  <2>1. f = [n \in 0..0 |-> step(f, n)]
    OBVIOUS
  <2> HIDE DEF f, step
  <2>2. 0 \in 0..N
    BY <1>1
  <2> QED BY <2>1, <2>2
<1>3. ASSUME NEW k \in 0..N, k < N, k \in Have PROVE k + 1 \in Have
  <2>1. PICK f : f = [n \in 0..k |-> step(f, n)]
    BY <1>3
  <2> DEFINE h == [n \in 0..(k + 1) |-> IF n <= k THEN f[n] ELSE step(f, k + 1)]
  <2>2. \A n \in 0..(k + 1) : h[n] = step(h, n)
    <3> SUFFICES ASSUME NEW n \in 0..(k + 1) PROVE h[n] = step(h, n)
      OBVIOUS
    <3>1. \A i \in 0..k : f[i] = step(f, i)
      BY <2>1
    <3>2. \A i \in 0..k : h[i] = f[i]
      OBVIOUS
    <3>3. h[k + 1] = step(f, k + 1)
      BY <1>3
    <3> HIDE DEF h
    <3>4. \A i \in 0..(k + 1) : i # 0 => i - 1 \in 0..k
      OBVIOUS
    <3>5. n \in 0..k \/ n = k + 1
      OBVIOUS
    <3> QED BY <3>1, <3>2, <3>3, <3>4, <3>5
  <2>3. h = [n \in 0..(k + 1) |-> h[n]]
    OBVIOUS
  <2> HIDE DEF h
  <2>4. h = [n \in 0..(k + 1) |-> step(h, n)]
    BY <2>2, <2>3
  <2>5. k + 1 \in 0..N
    BY <1>1, <1>3
  <2> HIDE DEF step
  <2> QED BY <2>4, <2>5
<1>4. N \in Have
  <2> HIDE DEF Have
  <2>1. 0..N \subseteq Have
    BY <1>1, <1>2, <1>3, UpTo
  <2> QED BY <1>1, <2>1
<1> QED BY <1>4 DEF Keeps

KeysOf(rows) == {KeyOf(rows[i]) : i \in 1..Len(rows)}

\* Each of its keys is new, no two rows have the same, and no new key is left out.
LEMMA NewRowsIs ==
  ASSUME NEW S, NEW page \in Seq(S)
  PROVE  /\ NewRows(page) \in Seq(S)
         /\ Range(NewRows(page)) \subseteq Range(page)
         /\ opts.dedup =>
              /\ KeysOf(NewRows(page)) = KeysOf(page) \ seen_keys
              /\ \A i, j \in 1..Len(NewRows(page)) :
                   i # j => KeyOf(NewRows(page)[i]) # KeyOf(NewRows(page)[j])
         /\ ~opts.dedup => NewRows(page) = page
<1>1. CASE ~opts.dedup
  BY <1>1 DEF NewRows
<1>2. CASE opts.dedup
  <2> DEFINE f == CHOOSE f : Keeps(f, page)
             N == Len(page)
             keys(n) == {KeyOf(page[i]) : i \in 1..n}
             Good(n) == /\ f[n] \in Seq(S)
                        /\ \A i \in 1..Len(f[n]) : \E j \in 1..n : f[n][i] = page[j]
                        /\ KeysOf(f[n]) = keys(n) \ seen_keys
                        /\ \A i, j \in 1..Len(f[n]) : i # j => KeyOf(f[n][i]) # KeyOf(f[n][j])
             Upto == {n \in 0..N : Good(n)}
  <2>1. NewRows(page) = f[N]
    BY <1>2 DEF NewRows, Keeps
  <2>2. Keeps(f, page)
    BY KeepsExists
  <2> HIDE DEF f
  <2>3. N \in Nat /\ \A i \in 1..N : page[i] \in S
    BY LenProperties, ElementOfSeq
  <2>4. \A n \in 0..N : f[n] = IF n = 0 THEN <<>>
                               ELSE IF IsNew(page, n) THEN Append(f[n - 1], page[n]) ELSE f[n - 1]
    BY <2>2 DEF Keeps
  <2>5. 0 \in Upto
    <3>1. f[0] = <<>> /\ 0 \in 0..N
      BY <2>3, <2>4
    <3>2. <<>> \in Seq(S) /\ Len(<<>>) = 0
      BY EmptySeq
    <3>3. KeysOf(<<>>) = {} /\ keys(0) = {}
      BY <3>2 DEF KeysOf
    <3>4. 1..Len(f[0]) = {}
      BY <3>1, <3>2
    <3> HIDE DEF keys
    <3>5. Good(0)
      BY <3>1, <3>2, <3>3, <3>4
    <3> HIDE DEF Good
    <3> QED BY <3>1, <3>5
  <2>6. ASSUME NEW n \in 0..N, n < N, n \in Upto PROVE n + 1 \in Upto
    <3> DEFINE row == page[n + 1]
               len == Len(f[n])
    <3>1. /\ n + 1 \in 1..N /\ n + 1 \in 0..N /\ (n + 1) - 1 = n /\ n + 1 # 0 /\ n \in Nat
          /\ row \in S
      BY <2>3, <2>6
    <3>2. f[n] \in Seq(S) /\ len \in Nat
      BY <2>6, LenProperties
    <3>3. /\ \A i \in 1..len : \E j \in 1..n : f[n][i] = page[j]
          /\ KeysOf(f[n]) = keys(n) \ seen_keys
          /\ \A i, j \in 1..len : i # j => KeyOf(f[n][i]) # KeyOf(f[n][j])
      BY <2>6
    <3>4. f[n + 1] = IF IsNew(page, n + 1) THEN Append(f[n], row) ELSE f[n]
      BY <2>4, <3>1
    <3>5. keys(n + 1) = keys(n) \cup {KeyOf(row)}
      BY <3>1
    <3>6. \A j \in 1..n : j \in 1..(n + 1)
      BY <3>1
    <3>7. IsNew(page, n + 1) <=> KeyOf(row) \notin seen_keys /\ KeyOf(row) \notin keys(n)
      BY <3>1 DEF IsNew
    <3>8. Good(n + 1)
      <4>1. CASE ~IsNew(page, n + 1)
        <5>1. f[n + 1] = f[n]
          BY <3>4, <4>1
        <5>2. keys(n + 1) \ seen_keys = keys(n) \ seen_keys
          BY <3>5, <3>7, <4>1
        <5> HIDE DEF keys
        <5> QED BY <3>2, <3>3, <3>6, <5>1, <5>2
      <4>2. CASE IsNew(page, n + 1)
        <5> DEFINE g == f[n + 1]
        <5>1. /\ g \in Seq(S) /\ Len(g) = len + 1 /\ g[len + 1] = row
              /\ \A i \in 1..len : g[i] = f[n][i]
          BY <3>1, <3>2, <3>4, <4>2, AppendProperties
        <5> HIDE DEF g, len
        <5>2. \A i \in 1..(len + 1) : i \in 1..len \/ i = len + 1
          BY <3>2
        <5>3. \A i \in 1..Len(g) : \E j \in 1..(n + 1) : g[i] = page[j]
          <6>1. n + 1 \in 1..(n + 1)
            BY <3>1
          <6> QED BY <3>3, <3>6, <5>1, <5>2, <6>1
        <5>4. KeysOf(g) = KeysOf(f[n]) \cup {KeyOf(row)}
          <6>1. KeysOf(f[n]) = {KeyOf(f[n][i]) : i \in 1..len}
            BY DEF KeysOf, len
          <6>2. len + 1 \in 1..(len + 1) /\ \A i \in 1..len : i \in 1..(len + 1)
            BY <3>2
          <6>3. KeysOf(g) = {KeyOf(g[i]) : i \in 1..(len + 1)}
            BY <5>1 DEF KeysOf
          <6>4. \A i \in 1..len : KeyOf(g[i]) = KeyOf(f[n][i])
            BY <5>1
          <6>5. KeyOf(g[len + 1]) = KeyOf(row)
            BY <5>1
          <6> QED BY <5>2, <6>1, <6>2, <6>3, <6>4, <6>5
        <5>5. KeysOf(g) = keys(n + 1) \ seen_keys
          <6> HIDE DEF keys
          <6> QED BY <3>3, <3>5, <3>7, <4>2, <5>4
        <5>6. \A i \in 1..len : KeyOf(f[n][i]) \in KeysOf(f[n])
          BY DEF KeysOf, len
        <5>7. \A i \in 1..len : KeyOf(f[n][i]) # KeyOf(row)
          <6> HIDE DEF keys
          <6> QED BY <3>3, <3>7, <4>2, <5>6
        <5>8. \A i, j \in 1..Len(g) : i # j => KeyOf(g[i]) # KeyOf(g[j])
          <6>1. \A i \in 1..len : KeyOf(g[i]) = KeyOf(f[n][i])
            BY <5>1
          <6>2. KeyOf(g[len + 1]) = KeyOf(row)
            BY <5>1
          <6> QED BY <3>3, <5>1, <5>2, <5>7, <6>1, <6>2 DEF len
        <5> HIDE DEF keys
        <5> QED BY <5>1, <5>3, <5>5, <5>8 DEF g
      <4> QED BY <4>1, <4>2
    <3> HIDE DEF Good
    <3> QED BY <3>1, <3>8
  <2>7. N \in Upto
    <3> HIDE DEF Upto
    <3>1. 0..N \subseteq Upto
      BY <2>3, <2>5, <2>6, UpTo
    <3> QED BY <2>3, <3>1
  <2>8. Good(N)
    BY <2>7
  <2>9. Range(f[N]) \subseteq Range(page)
    <3>1. DOMAIN f[N] = 1..Len(f[N]) /\ DOMAIN page = 1..N
      BY <2>8, LenProperties
    <3> QED BY <2>8, <3>1 DEF Range
  <2>10. KeysOf(page) = keys(N)
    BY DEF KeysOf
  <2> HIDE DEF keys, N
  <2> QED BY <1>2, <2>1, <2>8, <2>9, <2>10
<1> QED BY <1>1, <1>2

\* One answer adds the new rows of its page to what was delivered.
LEMMA AnswerDelivers ==
  ASSUME RestTypeOK, Listed, Answer
  PROVE  /\ output' \in Seq(Seq(RowNumbers)) /\ row_buffer' \in Seq(RowNumbers)
         /\ Delivered \in Seq(RowNumbers) /\ NewRows(Page) \in Seq(RowNumbers)
         /\ Delivered' = Delivered \o NewRows(Page)
<1> DEFINE page == Page
           new == NewRows(Page)
           rows == row_buffer \o new
           out == output \o Cut(rows, Full(rows))
           final == IsLast(Page)
           F == FlattenSeq(output)
<1>1. new \in Seq(RowNumbers) /\ row_buffer \in Seq(RowNumbers) /\ output \in Seq(Seq(RowNumbers))
  BY PageIs, NewRowsIs DEF RestTypeOK
<1>2. rows \in Seq(RowNumbers)
  BY <1>1, ConcatProperties
<1>3. /\ output' = out \o (IF final /\ Left(rows) # <<>> THEN <<Left(rows)>> ELSE <<>>)
      /\ row_buffer' = IF final THEN <<>> ELSE Left(rows)
  BY DEF Answer, Full, Left
<1> HIDE DEF new, final, rows
<1>4. /\ out \in Seq(Seq(RowNumbers)) /\ Left(rows) \in Seq(RowNumbers)
      /\ FlattenSeq(out) \o Left(rows) = F \o rows
      /\ FlattenSeq(out \o <<Left(rows)>>) = F \o rows
  BY <1>1, <1>2, CutFlattens
<1>5. F \in Seq(RowNumbers) /\ FlattenSeq(out) \in Seq(RowNumbers) /\ F \o rows \in Seq(RowNumbers)
  <2>1. F \in Seq(RowNumbers)
    BY <1>1, FlattenType
  <2>2. FlattenSeq(out) \in Seq(RowNumbers)
    BY <1>4, FlattenType
  <2> HIDE DEF F
  <2> QED BY <1>2, <2>1, <2>2, ConcatProperties
<1>6. F \o rows = (F \o row_buffer) \o new
  <2> HIDE DEF F
  <2>1. (F \o row_buffer) \o new = F \o (row_buffer \o new)
    BY <1>1, <1>5, ConcatAssociative, SMTT(30)
  <2> QED BY <2>1 DEF rows
<1> DEFINE left == Left(rows)
<1> HIDE DEF out, F, left
<1>7. <<>> \in Seq(Seq(RowNumbers)) /\ <<>> \in Seq(RowNumbers)
  BY EmptySeq
<1>8. out \o <<>> = out
  BY <1>4, ConcatEmptySeq
<1>9. /\ output' \in Seq(Seq(RowNumbers)) /\ row_buffer' \in Seq(RowNumbers)
      /\ FlattenSeq(output') \o row_buffer' = F \o rows
  <2>1. CASE final /\ left # <<>>
    <3>1. output' = out \o <<left>> /\ row_buffer' = <<>>
      BY <1>3, <2>1 DEF left
    <3>2. <<left>> \in Seq(Seq(RowNumbers))
      BY <1>4 DEF left
    <3>3. output' \in Seq(Seq(RowNumbers))
      BY <1>4, <3>1, <3>2, ConcatProperties
    <3>4. FlattenSeq(output') \o <<>> = F \o rows
      BY <1>4, <1>5, <3>1, ConcatEmptySeq DEF left
    <3> QED BY <1>7, <3>1, <3>3, <3>4
  <2>2. CASE final /\ left = <<>>
    <3>1. output' = out /\ row_buffer' = <<>>
      BY <1>3, <1>8, <2>2 DEF left
    <3> QED BY <1>4, <1>7, <2>2, <3>1 DEF left
  <2>3. CASE ~final
    <3>1. output' = out /\ row_buffer' = left
      BY <1>3, <1>8, <2>3 DEF left
    <3> QED BY <1>4, <3>1 DEF left
  <2> QED BY <2>1, <2>2, <2>3
<1>10. Delivered = F \o row_buffer /\ Delivered' = FlattenSeq(output') \o row_buffer'
  BY DEF Delivered, F
<1>11. Delivered \in Seq(RowNumbers)
  BY <1>1, <1>5, <1>10, ConcatProperties
<1> QED BY <1>1, <1>6, <1>9, <1>10, <1>11 DEF new

LEMMA DeliveredType ==
  ASSUME RestTypeOK
  PROVE  Delivered \in Seq(RowNumbers) /\ Range(Delivered) \subseteq RowNumbers
<1>1. FlattenSeq(output) \in Seq(RowNumbers) /\ row_buffer \in Seq(RowNumbers)
  BY FlattenType DEF RestTypeOK
<1>2. Delivered \in Seq(RowNumbers)
  BY <1>1, ConcatProperties DEF Delivered
<1> QED BY <1>2, RangeOfSeq

LEMMA KeysAreOfRange ==
  ASSUME NEW S, NEW rows \in Seq(S)
  PROVE  KeysOf(rows) = {KeyOf(r) : r \in Range(rows)}
<1>1. DOMAIN rows = 1..Len(rows)
  BY LenProperties
<1> QED BY <1>1 DEF KeysOf, Range

\* What is among the keys seen was delivered, or has no key.
LEMMA SeenIsGot ==
  ASSUME RestTypeOK, opts.dedup, NEW rows \in Seq(RowNumbers),
         NEW r \in RowNumbers, KeyOf(r) \in KeysOf(rows)
  PROVE  r \in Range(rows) \/ r \in Keyless
<1>1. PICK q \in Range(rows) : KeyOf(q) = KeyOf(r)
  BY KeysAreOfRange
<1>2. q \in RowNumbers
  BY <1>1, RangeOfSeq
<1>3. \A x \in RowNumbers : x \in Nat \ {0}
  BY DEF RowNumbers
<1> QED BY <1>1, <1>2, <1>3 DEF KeyOf

\* After the answer the rows of the page have been got, and those before as well.
LEMMA AnswerGets ==
  ASSUME RestTypeOK, Listed, Taken, Answer
  PROVE  /\ Range(Delivered') = Range(Delivered) \cup Range(NewRows(Page))
         /\ opts.dedup => SeenAfter(Page) = KeysOf(Delivered')
         /\ \A r \in RowNumbers : Got(r) => Got(r)'
         /\ \A r \in Range(Page) : Got(r)'
<1>1. /\ Delivered' = Delivered \o NewRows(Page)
      /\ Delivered \in Seq(RowNumbers) /\ NewRows(Page) \in Seq(RowNumbers)
  BY AnswerDelivers
<1>2. Range(Delivered') = Range(Delivered) \cup Range(NewRows(Page))
  BY <1>1, RangeConcatenation
<1>3. Delivered' \in Seq(RowNumbers)
  BY <1>1, ConcatProperties
<1>4. opts' = opts
  BY DEF Answer
<1>5. Page \in Seq(RowNumbers)
  BY PageIs
<1>6. opts.dedup => SeenAfter(Page) = KeysOf(Delivered')
  <2> SUFFICES ASSUME opts.dedup PROVE SeenAfter(Page) = KeysOf(Delivered')
    OBVIOUS
  <2>1. SeenAfter(Page) = seen_keys \cup KeysOf(Page)
    <3>1. DOMAIN Page = 1..Len(Page)
      BY <1>5, LenProperties
    <3> QED BY <3>1 DEF SeenAfter, KeysOf
  <2>2. KeysOf(NewRows(Page)) = KeysOf(Page) \ seen_keys
    BY <1>5, NewRowsIs
  <2>3. seen_keys = KeysOf(Delivered)
    BY <1>1, KeysAreOfRange DEF Taken
  <2>4. KeysOf(Delivered') = KeysOf(Delivered) \cup KeysOf(NewRows(Page))
    <3>1. /\ KeysOf(Delivered') = {KeyOf(r) : r \in Range(Delivered')}
          /\ KeysOf(Delivered) = {KeyOf(r) : r \in Range(Delivered)}
          /\ KeysOf(NewRows(Page)) = {KeyOf(r) : r \in Range(NewRows(Page))}
      BY <1>1, <1>3, KeysAreOfRange
    <3> QED BY <1>2, <3>1
  <2> QED BY <2>1, <2>2, <2>3, <2>4
<1>7. \A r \in RowNumbers : Got(r) => Got(r)'
  BY <1>2, <1>4 DEF Got
<1>8. ASSUME NEW r \in Range(Page) PROVE Got(r)'
  <2>1. CASE ~opts.dedup
    BY <1>2, <1>5, <2>1, NewRowsIs DEF Got
  <2>2. CASE opts.dedup
    <3>1. r \in RowNumbers /\ KeyOf(r) \in KeysOf(Page)
      BY <1>5, RangeOfSeq, KeysAreOfRange
    <3>2. KeyOf(r) \in SeenAfter(Page)
      <4>1. DOMAIN Page = 1..Len(Page)
        BY <1>5, LenProperties
      <4> QED BY <2>2, <3>1, <4>1 DEF SeenAfter, KeysOf
    <3>3. r \in Range(Delivered') \/ r \in Keyless
      BY <1>3, <1>6, <2>2, <3>1, <3>2, SeenIsGot
    <3> QED BY <1>4, <2>2, <3>3 DEF Got
  <2>3. opts.dedup \in BOOLEAN
    BY OptionTypes
  <2> QED BY <2>1, <2>2
<1> QED BY <1>2, <1>6, <1>7, <1>8

LEMMA LastIs ==
  ASSUME NEW page
  PROVE  /\ opts.strategy = "none" => IsLast(page)
         /\ opts.strategy = "link_header" => (IsLast(page) <=> NextCursor(page) = 0)
         /\ opts.strategy = "cursor" =>
              (IsLast(page) <=> Len(page) < PageSize \/ NextCursor(page) = 0 \/ ~opts.text_cursor)
         /\ opts.strategy \in Positioned =>
              (IsLast(page) <=> Len(page) < PageSize \/ HasMoreIsFalse(page) \/ TotalCountReached(page))
BY DEF IsLast, Positioned

LEMMA PositionIs ==
  /\ opts.strategy = "none" => Position = 0
  /\ opts.strategy = "offset" => Position = offset
  /\ opts.strategy = "page" => Position = (page_num - 1) * opts.cap
  /\ opts.strategy \in Continued => Position = Passed
BY DEF Position, Continued

LEMMA InjectiveConcat ==
  ASSUME NEW S, NEW a \in Seq(S), NEW b \in Seq(S), IsInjective(a), IsInjective(b),
         Range(a) \cap Range(b) = {}
  PROVE  IsInjective(a \o b)
<1> DEFINE la == Len(a)
           lb == Len(b)
           c == a \o b
<1>1. /\ la \in Nat /\ lb \in Nat /\ DOMAIN a = 1..la /\ DOMAIN b = 1..lb /\ DOMAIN c = 1..(la + lb)
      /\ \A i \in 1..(la + lb) : c[i] = IF i <= la THEN a[i] ELSE b[i - la]
  BY LenProperties, ConcatProperties
<1> HIDE DEF la, lb, c
<1>2. \A i \in 1..(la + lb) : IF i <= la THEN i \in DOMAIN a ELSE i - la \in DOMAIN b
  BY <1>1
<1>3. \A i \in DOMAIN a, j \in DOMAIN b : a[i] # b[j]
  BY DEF Range
<1>4. ASSUME NEW i \in DOMAIN c, NEW j \in DOMAIN c, c[i] = c[j] PROVE i = j
  <2>1. CASE i <= la /\ j <= la
    BY <1>1, <1>2, <1>4, <2>1 DEF IsInjective
  <2>2. CASE ~(i <= la) /\ ~(j <= la)
    <3>1. i - la \in DOMAIN b /\ j - la \in DOMAIN b /\ b[i - la] = b[j - la]
      BY <1>1, <1>2, <1>4, <2>2
    <3>2. i - la = j - la
      BY <3>1 DEF IsInjective
    <3> QED BY <1>1, <3>2
  <2>3. CASE i <= la /\ ~(j <= la)
    BY <1>1, <1>2, <1>3, <1>4, <2>3
  <2>4. CASE ~(i <= la) /\ j <= la
    BY <1>1, <1>2, <1>3, <1>4, <2>4
  <2> QED BY <2>1, <2>2, <2>3, <2>4
<1> QED BY <1>4 DEF IsInjective, c

\* Without duplicates, in the page or among what was seen.
LEMMA AnswerInjective ==
  ASSUME RestTypeOK, Listed, Taken, Answer,
         opts.dedup \/ opts.strategy \notin Positioned
  PROVE  IsInjective(Delivered')
<1> DEFINE new == NewRows(Page)
           page == Page
<1>1. /\ Delivered \in Seq(RowNumbers) /\ new \in Seq(RowNumbers)
      /\ Delivered' = Delivered \o new /\ IsInjective(Delivered)
  BY AnswerDelivers DEF Taken
<1>2. page \in Seq(RowNumbers) /\ DOMAIN new = 1..Len(new) /\ DOMAIN page = 1..Len(page)
  BY <1>1, PageIs, LenProperties
<1>3. CASE opts.dedup
  <2>1. /\ KeysOf(new) = KeysOf(page) \ seen_keys
        /\ \A i, j \in 1..Len(new) : i # j => KeyOf(new[i]) # KeyOf(new[j])
    BY <1>2, <1>3, NewRowsIs
  <2> HIDE DEF new
  <2>2. IsInjective(new)
    BY <1>2, <2>1 DEF IsInjective
  <2>3. seen_keys = {KeyOf(r) : r \in Range(Delivered)}
    BY <1>3 DEF Taken
  <2>4. KeysOf(new) = {KeyOf(r) : r \in Range(new)}
    BY <1>1, KeysAreOfRange
  <2>5. Range(Delivered) \cap Range(new) = {}
    BY <2>1, <2>3, <2>4
  <2> QED BY <1>1, <2>2, <2>5, InjectiveConcat
<1>4. CASE ~opts.dedup
  <2>1. new = page /\ opts.strategy \notin Positioned
    BY <1>2, <1>4, NewRowsIs
  <2>2. /\ Position \in Nat /\ Len(page) \in Nat
        /\ \A i \in 1..Len(page) : Position + i \in 1..Len(server) /\ page[i] = server[Position + i]
    BY PositionType, PageIs
  <2>3. /\ \A i, j \in 1..Len(server) : i < j => server[i] > server[j]
        /\ \A i \in 1..Len(server) : server[i] \in Nat
    BY ServerTypes DEF Listed
  <2>4. IsInjective(page)
    <3> HIDE DEF page
    <3>1. ASSUME NEW i \in 1..Len(page), NEW j \in 1..Len(page), page[i] = page[j] PROVE i = j
      <4>1. /\ Position + i \in 1..Len(server) /\ Position + j \in 1..Len(server)
            /\ server[Position + i] = server[Position + j] /\ server[Position + i] \in Nat
        BY <2>2, <2>3, <3>1
      <4>2. ~(Position + i < Position + j) /\ ~(Position + j < Position + i)
        BY <2>3, <4>1
      <4> QED BY <2>2, <4>2
    <3> QED BY <1>2, <3>1 DEF IsInjective
  <2>5. Range(Delivered) \cap Range(page) = {}
    <3>1. result = "fetching"
      BY DEF Answer
    <3>2. CASE opts.strategy = "none"
      <4>1. Delivered = <<>>
        BY <3>1, <3>2 DEF Taken
      <4>2. Range(Delivered) = {}
        BY <4>1 DEF Range
      <4> QED BY <4>2
    <3>3. CASE opts.strategy \in Continued
      <4>1. \A r \in Range(Delivered) : cursor # 0 /\ cursor <= r
        BY <3>1, <3>3 DEF Taken
      <4>2. \A i \in 1..Len(server) : i <= Passed <=> cursor # 0 /\ server[i] >= cursor
        BY PassedIs
      <4>3. Position = Passed
        BY <3>3, PositionIs
      <4> SUFFICES ASSUME NEW i \in 1..Len(page), page[i] \in Range(Delivered) PROVE FALSE
        BY <1>2 DEF Range
      <4>4. Position + i \in 1..Len(server) /\ page[i] = server[Position + i]
        BY <2>2
      <4>5. ~(Position + i <= Position)
        BY <2>2
      <4>6. ~(cursor # 0 /\ server[Position + i] >= cursor)
        BY <4>2, <4>3, <4>4, <4>5
      <4>7. cursor # 0 /\ cursor <= server[Position + i]
        BY <4>1, <4>4
      <4>8. cursor \in Nat /\ server[Position + i] \in Nat
        BY <2>3, <4>4, ServerTypes
      <4> QED BY <4>6, <4>7, <4>8
    <3> QED BY <2>1, <3>2, <3>3, OptionTypes DEF Positioned, Continued
  <2> QED BY <1>1, <2>1, <2>4, <2>5, InjectiveConcat
<1>5. opts.dedup \in BOOLEAN
  BY OptionTypes
<1> QED BY <1>3, <1>4

\* Where the next cursor is.
LEMMA CursorMoves ==
  ASSUME RestTypeOK, Listed, Answer, opts.strategy \in Continued, ~IsLast(Page)
  PROVE  /\ Len(Page) # 0 /\ Position + Len(Page) \in 1..Len(server)
         /\ cursor' = server[Position + Len(Page)] /\ cursor' \in Nat \ {0}
<1>1. NextCursor(Page) # 0
  BY LastIs DEF Continued
<1>2. Page # <<>> /\ NextCursor(Page) = Last(Page)
  BY <1>1 DEF NextCursor
<1>3. Len(Page) \in 1..Len(Page) /\ Last(Page) = Page[Len(Page)]
  BY <1>2, PageIs, EmptySeq DEF Last
<1>4. cursor' = Last(Page)
  BY <1>2 DEF Answer
<1>5. /\ Position + Len(Page) \in 1..Len(server)
      /\ Page[Len(Page)] = server[Position + Len(Page)]
  BY <1>3, PageIs
<1> QED BY <1>3, <1>4, <1>5, ServerTypes

LEMMA AnswerTaken ==
  ASSUME RestTypeOK, Listed, Taken, Answer
  PROVE  Taken'
<1>1. result = "fetching" /\ opts' = opts /\ server' = server /\ inserted' = inserted /\ deleted' = deleted
  BY DEF Answer
<1>2. opts.dedup => seen_keys' = {KeyOf(r) : r \in Range(Delivered')}
  <2>1. seen_keys' = SeenAfter(Page)
    BY DEF Answer
  <2>2. Delivered' \in Seq(RowNumbers)
    BY AnswerDelivers, ConcatProperties
  <2> QED BY <2>1, <2>2, AnswerGets, KeysAreOfRange
<1>3. opts.dedup \/ opts.strategy \notin Positioned => IsInjective(Delivered')
  BY AnswerInjective
<1>4. result' = "fetching" => ~IsLast(Page)
  BY DEF Answer
<1>5. ~(result' = "fetching" /\ opts.strategy = "none")
  BY <1>4, LastIs
<1>6. ASSUME result' = "fetching", opts.strategy \in Continued, NEW r \in Range(Delivered')
      PROVE  cursor' # 0 /\ cursor' <= r
  <2> DEFINE n == Position + Len(Page)
  <2>1. n \in 1..Len(server) /\ cursor' = server[n] /\ cursor' \in Nat \ {0} /\ Len(Page) # 0
    BY <1>4, <1>6, CursorMoves
  <2>2. r \in Range(Delivered) \/ r \in Range(Page)
    BY AnswerGets, PageIs, NewRowsIs
  <2>3. /\ \A i, j \in 1..Len(server) : i < j => server[i] > server[j]
        /\ \A i \in 1..Len(server) : server[i] \in Nat
        /\ Len(server) \in Nat /\ cursor \in Nat
    BY ServerTypes DEF Listed
  <2>4. CASE r \in Range(Page)
    <3>1. DOMAIN Page = 1..Len(Page)
      BY PageIs, LenProperties
    <3>2. PICK i \in 1..Len(Page) : r = Page[i]
      BY <2>4, <3>1 DEF Range
    <3>3. Position + i \in 1..Len(server) /\ r = server[Position + i] /\ (Position + i = n \/ Position + i < n)
      BY <3>2, PageIs, PositionType
    <3> HIDE DEF n
    <3> QED BY <2>1, <2>3, <3>3
  <2>5. CASE r \in Range(Delivered)
    <3>1. cursor # 0 /\ cursor <= r
      BY <1>1, <1>6, <2>5 DEF Taken
    <3>2. Position = Passed /\ \A i \in 1..Len(server) : i <= Passed <=> cursor # 0 /\ server[i] >= cursor
      BY <1>6, PositionIs, PassedIs
    <3>3. ~(n <= Passed)
      BY <2>1, <3>2, PositionType, PageIs
    <3>4. ~(server[n] >= cursor)
      <4> HIDE DEF n
      <4> QED BY <2>1, <3>1, <3>2, <3>3
    <3>5. r \in Nat
      BY <2>5, DeliveredType, ServerTypes
    <3> HIDE DEF n
    <3> QED BY <2>1, <2>3, <3>1, <3>4, <3>5
  <2> QED BY <2>2, <2>4, <2>5
<1>7. opts.strategy = "page" => offset' <= (page_num' - 1) * opts.cap
  <2> SUFFICES ASSUME opts.strategy = "page" PROVE offset' <= (page_num' - 1) * opts.cap
    OBVIOUS
  <2>1. offset <= (page_num - 1) * opts.cap
    BY DEF Taken
  <2>2. offset' = offset + Len(Page) /\ page_num' = page_num + 1
    BY DEF Answer, Positioned
  <2>3. Len(Page) <= opts.cap /\ Len(Page) \in Nat
    BY PageIs
  <2>4. opts.cap \in Nat /\ page_num \in Nat /\ offset \in Nat
    BY OptionTypes DEF RestTypeOK
  <2>5. (page_num' - 1) * opts.cap = (page_num - 1) * opts.cap + opts.cap
    BY <2>2, <2>4
  <2> DEFINE a == (page_num - 1) * opts.cap
  <2>6. a \in Int
    BY <2>4
  <2>7. offset <= a /\ (page_num' - 1) * opts.cap = a + opts.cap
    BY <2>1, <2>5
  <2> HIDE DEF a
  <2> QED BY <2>2, <2>3, <2>4, <2>6, <2>7
<1> QED BY <1>1, <1>2, <1>3, <1>5, <1>6, <1>7 DEF Taken

\* A settled row is at the server, and its place tells whether it lies behind.
LEMMA StayedListed ==
  ASSUME RestTypeOK, Listed, NEW r \in Stayed
  PROVE  \E k \in 1..Len(server) :
           /\ server[k] = r
           /\ r \in RowNumbers
           /\ deleted = {} => k = Rows + inserted + 1 - r
<1>1. r \in RowNumbers \ deleted
  <2>1. r \in 1..Rows /\ r \notin deleted /\ Rows \in Nat /\ inserted \in Nat
    BY RestSourceAssumption DEF Stayed, RestTypeOK
  <2> QED BY <2>1 DEF RowNumbers
<1>2. PICK k \in 1..Len(server) : server[k] = r
  <2>1. r \in Range(server) /\ DOMAIN server = 1..Len(server)
    BY <1>1, ServerTypes DEF Listed
  <2> QED BY <2>1 DEF Range
<1>3. deleted = {} => k = Rows + inserted + 1 - r
  <2> SUFFICES ASSUME deleted = {} PROVE k = Rows + inserted + 1 - r
    OBVIOUS
  <2>1. server = [i \in RowNumbers |-> Rows + inserted + 1 - i]
    BY DEF Listed
  <2>2. DOMAIN server = RowNumbers
    BY <2>1
  <2>3. k \in RowNumbers
    BY <2>2, ServerTypes
  <2>4. r = Rows + inserted + 1 - k
    BY <1>2, <2>1, <2>3
  <2>5. Rows + inserted \in Nat /\ k \in Nat
    BY <2>3, ServerTypes
  <2> QED BY <2>4, <2>5
<1> QED BY <1>1, <1>2, <1>3

\* With the answer everything up to the end of its page is got.
LEMMA ReachedIsGot ==
  ASSUME RestTypeOK, Listed, Taken, NothingMissed, Sound, Answer,
         NEW r \in Stayed, r \in RowNumbers, NEW k \in 1..Len(server), server[k] = r,
         deleted = {} => k = Rows + inserted + 1 - r,
         k <= Position + Len(Page)
  PROVE  Got(r)'
<1>1. Position \in Nat /\ Len(Page) \in Nat
  BY PositionType, PageIs
<1>2. CASE k <= Position
  <2>1. Behind(r)
    <3>1. CASE opts.strategy = "none"
      BY <1>2, <3>1, PositionIs
    <3>2. CASE opts.strategy \in Positioned
      <4>1. k = Rows + inserted + 1 - r
        BY <3>2 DEF Sound
      <4> QED BY <1>2, <3>2, <4>1 DEF Behind
    <3>3. CASE opts.strategy \in Continued
      <4>1. cursor # 0 /\ server[k] >= cursor
        BY <1>2, <3>3, PositionIs, PassedIs
      <4>2. server[k] \in Nat /\ cursor \in Nat
        BY ServerTypes
      <4> QED BY <3>3, <4>1, <4>2 DEF Behind
    <3> QED BY <3>1, <3>2, <3>3, OptionTypes DEF Positioned, Continued
  <2>2. result = "fetching"
    BY DEF Answer
  <2>3. Got(r)
    BY <2>1, <2>2 DEF NothingMissed
  <2> QED BY <2>3, AnswerGets
<1>3. CASE ~(k <= Position)
  <2> DEFINE i == k - Position
  <2>1. i \in 1..Len(Page) /\ Position + i = k
    BY <1>1, <1>3
  <2> HIDE DEF i
  <2>2. Page[i] = r
    BY <2>1, PageIs
  <2>3. DOMAIN Page = 1..Len(Page)
    BY PageIs, LenProperties
  <2>4. r \in Range(Page)
    BY <2>1, <2>2, <2>3 DEF Range
  <2> QED BY <2>4, AnswerGets
<1> QED BY <1>2, <1>3

\* When all keys there are have been seen, all rows have been got.
LEMMA AllKeysSeen ==
  ASSUME RestTypeOK, Listed, Taken, Answer, opts.dedup, deleted = {},
         Cardinality(SeenAfter(Page)) >= Len(server)
  PROVE  \A r \in RowNumbers : Got(r)'
<1> DEFINE n == Rows + inserted
           All == {KeyOf(r) : r \in RowNumbers}
           K == SeenAfter(Page)
           key == [r \in RowNumbers |-> KeyOf(r)]
<1>1. n \in Nat /\ RowNumbers = 1..n
  BY ServerTypes DEF RowNumbers
<1>2. Len(server) = n
  <2>1. server = [i \in 1..n |-> n + 1 - i]
    BY DEF Listed, RowNumbers
  <2> HIDE DEF n
  <2> QED BY <1>1, <2>1
<1>3. IsFiniteSet(RowNumbers) /\ Cardinality(RowNumbers) = n
  <2>1. 1 \in Int /\ n \in Int
    BY <1>1
  <2> HIDE DEF n
  <2>2. IsFiniteSet(1..n) /\ Cardinality(1..n) = n
    BY <1>1, <2>1, FS_Interval
  <2> QED BY <2>2 DEF RowNumbers, n
<1>4. IsFiniteSet(All) /\ Cardinality(All) <= n
  <2>1. key \in Surjection(RowNumbers, All)
    BY DEF Surjection
  <2> HIDE DEF key, All, n
  <2> QED BY <1>3, <2>1, FS_Surjection
<1>5. K = KeysOf(Delivered') /\ Delivered' \in Seq(RowNumbers)
  BY AnswerGets, AnswerDelivers, ConcatProperties
<1>6. K \in SUBSET All
  <2>1. K = {KeyOf(r) : r \in Range(Delivered')} /\ Range(Delivered') \subseteq RowNumbers
    BY <1>5, KeysAreOfRange, RangeOfSeq
  <2> QED BY <2>1
<1>7. K = All
  <2> HIDE DEF K, All, n
  <2>1. IsFiniteSet(K) /\ Cardinality(K) <= Cardinality(All)
    BY <1>4, <1>6, FS_Subset
  <2>2. Cardinality(K) \in Nat /\ Cardinality(All) \in Nat
    BY <1>4, <2>1, FS_CardinalityType
  <2>3. Cardinality(K) >= n
    BY <1>2 DEF K
  <2>4. Cardinality(All) = Cardinality(K)
    BY <1>1, <1>4, <2>1, <2>2, <2>3
  <2> QED BY <1>4, <1>6, <2>4, FS_Subset
<1>8. ASSUME NEW r \in RowNumbers PROVE Got(r)'
  <2>1. KeyOf(r) \in KeysOf(Delivered')
    BY <1>5, <1>7
  <2>2. r \in Range(Delivered') \/ r \in Keyless
    BY <1>5, <2>1, SeenIsGot
  <2>3. opts' = opts
    BY DEF Answer
  <2> QED BY <2>2, <2>3 DEF Got
<1> QED BY <1>8

\* The last page ends at the last row, or nothing is missing any more.
LEMMA LastReaches ==
  ASSUME RestTypeOK, Listed, Taken, Sound, Answer, IsLast(Page)
  PROVE  \/ Len(server) <= Position + Len(Page)
         \/ \A r \in RowNumbers : Got(r)'
<1>1. /\ Position \in Nat /\ Len(Page) \in Nat /\ Len(server) \in Nat
      /\ opts.strategy = "none" \/ Len(Page) < opts.cap => Len(server) <= Position + Len(Page)
  BY PositionType, PageIs, ServerTypes
<1>2. CASE opts.strategy = "none"
  BY <1>1, <1>2
<1>3. CASE opts.strategy \in Positioned
  <2>1. opts.cap = PageSize /\ deleted = {}
    BY <1>3 DEF Sound
  <2>2. CASE Len(Page) < PageSize
    BY <1>1, <2>1, <2>2
  <2>3. CASE HasMoreIsFalse(Page)
    BY <1>1, <2>3 DEF HasMoreIsFalse
  <2>4. CASE TotalCountReached(Page)
    <3>1. CASE opts.dedup
      BY <2>1, <2>4, <3>1, AllKeysSeen DEF TotalCountReached
    <3>2. CASE ~opts.dedup
      <4>1. offset + Len(Page) >= Len(server)
        BY <2>4, <3>2 DEF TotalCountReached
      <4>2. offset <= Position
        <5>1. CASE opts.strategy = "offset"
          BY <1>1, <5>1, PositionIs
        <5>2. CASE opts.strategy = "page"
          BY <5>2, PositionIs DEF Taken
        <5> QED BY <1>3, <5>1, <5>2 DEF Positioned
      <4>3. offset \in Nat
        BY DEF RestTypeOK
      <4> QED BY <1>1, <4>1, <4>2, <4>3
    <3> QED BY <3>1, <3>2
  <2> QED BY <1>3, <2>2, <2>3, <2>4, LastIs
<1>4. CASE opts.strategy \in Continued
  <2>1. CASE NextCursor(Page) = 0
    <3>1. CASE Page = <<>>
      <4>1. Len(Page) = 0 /\ opts.cap > 0
        BY <3>1, OptionTypes, EmptySeq
      <4> QED BY <1>1, <4>1, OptionTypes
    <3>2. CASE Page # <<>>
      <4>1. Len(Page) \in 1..Len(Page) /\ Last(Page) = Page[Len(Page)]
        BY <3>2, PageIs, EmptySeq DEF Last
      <4>2. /\ Position + Len(Page) \in 1..Len(server)
            /\ Last(Page) = server[Position + Len(Page)] /\ Last(Page) \in Nat \ {0}
        BY <4>1, PageIs, ServerTypes
      <4>3. \A i \in 1..Len(server) : ~(server[i] < Last(Page))
        BY <2>1, <3>2, <4>2, ServerTypes DEF NextCursor
      <4> DEFINE n == Position + Len(Page)
      <4>4. CASE n < Len(server)
        <5>1. n + 1 \in 1..Len(server) /\ n < n + 1
          BY <1>1, <4>2, <4>4
        <5>2. server[n] > server[n + 1] /\ server[n] \in Nat /\ server[n + 1] \in Nat
          BY <4>2, <5>1, ServerTypes DEF Listed
        <5> HIDE DEF n
        <5> QED BY <4>2, <4>3, <5>1, <5>2 DEF n
      <4> QED BY <1>1, <4>4
    <3> QED BY <3>1, <3>2
  <2>2. CASE opts.strategy = "cursor" /\ Len(Page) < PageSize
    BY <1>1, <2>2 DEF Sound
  <2>3. opts.text_cursor
    BY DEF Sound
  <2> QED BY <1>4, <2>1, <2>2, <2>3, LastIs DEF Continued
<1> QED BY <1>2, <1>3, <1>4, OptionTypes DEF Positioned, Continued

LEMMA AnswerMissesNothing ==
  ASSUME RestInv, Answer
  PROVE  NothingMissed'
<1> USE DEF RestInv
<1>1. /\ opts' = opts /\ server' = server /\ inserted' = inserted /\ deleted' = deleted
      /\ result = "fetching" /\ result' = IF IsLast(Page) THEN "done" ELSE "fetching"
  BY DEF Answer
<1>2. (Sound' <=> Sound) /\ Stayed' = Stayed
  BY <1>1 DEF Sound, Stayed
<1> SUFFICES ASSUME Sound, NEW r \in Stayed,
                    result' = "fetching" => Behind(r)'
             PROVE  Got(r)'
  BY <1>1, <1>2 DEF NothingMissed
<1>3. PICK k \in 1..Len(server) : /\ server[k] = r /\ r \in RowNumbers
                                  /\ deleted = {} => k = Rows + inserted + 1 - r
  BY StayedListed
<1>4. Position \in Nat /\ Len(Page) \in Nat /\ Len(server) \in Nat /\ r \in Nat
  BY <1>3, PositionType, PageIs, ServerTypes
<1>5. CASE IsLast(Page)
  <2>1. Len(server) <= Position + Len(Page) \/ Got(r)'
    BY <1>3, <1>5, LastReaches
  <2>2. CASE Len(server) <= Position + Len(Page)
    <3>1. k <= Position + Len(Page)
      BY <1>4, <2>2
    <3> QED BY <1>3, <3>1, ReachedIsGot
  <2> QED BY <2>1, <2>2
<1>6. CASE ~IsLast(Page)
  <2>1. Behind(r)'
    BY <1>1, <1>6
  <2>2. CASE opts.strategy = "none"
    BY <1>6, <2>2, LastIs
  <2>3. CASE opts.strategy \in Positioned
    <3>1. k = Rows + inserted + 1 - r /\ opts.cap = PageSize
      BY <1>3, <2>3 DEF Sound
    <3>2. ~(Len(Page) < PageSize)
      BY <1>6, <2>3, LastIs
    <3>3. k <= Position'
      BY <1>1, <2>1, <2>3, <3>1 DEF Behind, Positioned, Continued
    <3>4. Position' = Position + Len(Page)
      <4>1. CASE opts.strategy = "offset"
        <5>1. Position = offset /\ offset' = offset + Len(Page)
          BY <4>1, PositionIs DEF Answer, Positioned
        <5>2. Position' = offset'
          BY <1>1, <4>1 DEF Position, Continued
        <5> QED BY <5>1, <5>2
      <4>2. CASE opts.strategy = "page"
        <5>1. Position = (page_num - 1) * opts.cap /\ page_num' = page_num + 1
          BY <4>2, PositionIs DEF Answer
        <5>2. Position' = (page_num' - 1) * opts.cap
          BY <1>1, <4>2 DEF Position, Continued
        <5>3. opts.cap \in Nat /\ page_num \in Nat
          BY OptionTypes DEF RestTypeOK
        <5>4. (page_num' - 1) * opts.cap = (page_num - 1) * opts.cap + opts.cap
          <6>1. page_num' = page_num + 1
            BY <5>1
          <6> QED BY <5>3, <6>1
        <5>5. Len(Page) = opts.cap
          <6>1. Len(Page) <= opts.cap
            BY <4>2, PageIs
          <6> QED BY <1>4, <3>1, <3>2, <5>3, <6>1
        <5> DEFINE a == (page_num - 1) * opts.cap
        <5>6. Position' = a + opts.cap /\ Position = a
          BY <5>1, <5>2, <5>4
        <5> HIDE DEF a
        <5> QED BY <5>5, <5>6
      <4> QED BY <2>3, <4>1, <4>2 DEF Positioned
    <3>5. k <= Position + Len(Page)
      BY <3>3, <3>4
    <3> QED BY <1>3, <3>5, ReachedIsGot
  <2>4. CASE opts.strategy \in Continued
    <3>1. cursor' # 0 /\ cursor' <= r
      BY <1>1, <2>1, <2>4 DEF Behind, Positioned, Continued
    <3> DEFINE n == Position + Len(Page)
    <3>2. n \in 1..Len(server) /\ cursor' = server[n] /\ cursor' \in Nat
      BY <1>6, <2>4, CursorMoves
    <3>3. ~(n < k)
      <4> HIDE DEF n
      <4>1. n < k => server[n] > server[k]
        BY <1>3, <3>2, ServerTypes DEF Listed
      <4> QED BY <1>3, <1>4, <3>1, <3>2, <4>1
    <3>4. k <= n
      BY <1>4, <3>3
    <3> QED BY <1>3, <3>4, ReachedIsGot
  <2> QED BY <2>2, <2>3, <2>4, OptionTypes DEF Positioned, Continued
<1> QED BY <1>5, <1>6

LEMMA AnswerStep ==
  ASSUME RestInv, Answer
  PROVE  RestInv'
<1>1. /\ opts' = opts /\ server' = server /\ inserted' = inserted /\ deleted' = deleted
      /\ RowNumbers' = RowNumbers
  BY DEF Answer, RowNumbers
<1>2. RestTypeOK'
  <2>1. offset' \in Nat /\ page_num' \in Nat \ {0}
    BY PageIs DEF RestInv, RestTypeOK, Answer
  <2>2. cursor' \in {0} \cup RowNumbers
    <3>1. CASE opts.strategy \in Continued /\ ~IsLast(Page)
      <4>1. Position + Len(Page) \in 1..Len(server) /\ cursor' = server[Position + Len(Page)]
        BY <3>1, CursorMoves DEF RestInv
      <4> QED BY <4>1, ServerTypes DEF RestInv
    <3>2. CASE ~(opts.strategy \in Continued /\ ~IsLast(Page))
      BY <3>2 DEF Answer, RestInv, RestTypeOK
    <3> QED BY <3>1, <3>2
  <2>3. seen_keys' \subseteq {0} \cup RowNumbers
    <3>1. Page \in Seq(RowNumbers) /\ DOMAIN Page = 1..Len(Page)
      BY PageIs, LenProperties DEF RestInv
    <3>2. \A i \in DOMAIN Page : KeyOf(Page[i]) \in {0} \cup RowNumbers
      BY <3>1, ElementOfSeq DEF KeyOf
    <3>3. seen_keys' = SeenAfter(Page) /\ seen_keys \subseteq {0} \cup RowNumbers
      BY DEF Answer, RestInv, RestTypeOK
    <3> QED BY <3>2, <3>3 DEF SeenAfter
  <2>4. result' \in {"fetching", "done", "cut", "error"}
    BY DEF Answer
  <2>5. output' \in Seq(Seq(RowNumbers)) /\ row_buffer' \in Seq(RowNumbers)
    BY AnswerDelivers DEF RestInv
  <2> QED BY <1>1, <2>1, <2>2, <2>3, <2>4, <2>5 DEF RestInv, RestTypeOK
<1>3. Listed'
  BY <1>1 DEF RestInv, Listed
<1>4. Taken'
  BY AnswerTaken DEF RestInv
<1>5. NothingMissed'
  BY AnswerMissesNothing
<1> QED BY <1>2, <1>3, <1>4, <1>5 DEF RestInv

LEMMA EarlierIsBehind ==
  ASSUME NEW n \in Nat, NEW a \in Nat, NEW b \in Nat, NEW r \in Nat, NEW p \in Nat,
         a <= b, n + b + 1 - r <= p
  PROVE  n + a + 1 - r <= p
OBVIOUS

\* What does not depend on the server when nothing is answered.
LEMMA UndeliveredStep ==
  ASSUME RestInv, RestTypeOK', Delivered' = Delivered,
         UNCHANGED <<opts, offset, page_num, cursor, seen_keys>>,
         inserted <= inserted', deleted \subseteq deleted',
         result = "fetching", result' \in {"fetching", "cut", "error"}
  PROVE  Taken' /\ NothingMissed'
<1>1. Taken'
  BY DEF RestInv, Taken
<1>2. NothingMissed'
  <2> SUFFICES ASSUME Sound', NEW r \in Stayed', Behind(r)' PROVE Got(r)'
    BY DEF NothingMissed
  <2>1. Sound /\ r \in Stayed
    BY DEF Sound, Stayed
  <2>2. Behind(r)
    <3>1. CASE opts.strategy \in Continued
      BY <3>1 DEF Behind, Positioned, Continued
    <3>2. CASE opts.strategy \in Positioned
      <4>1. Rows + inserted' + 1 - r <= Position'
        BY <3>2 DEF Behind, Positioned, Continued
      <4>2. Position' = Position
        BY <3>2 DEF Position, Positioned, Continued
      <4>3. Rows \in Nat /\ inserted \in Nat /\ inserted' \in Nat /\ r \in Nat
        BY <2>1, RestSourceAssumption DEF RestInv, RestTypeOK, Stayed
      <4>4. Position \in Nat
        BY PositionType DEF RestInv
      <4>5. Rows + inserted + 1 - r <= Position
        BY <4>1, <4>2, <4>3, <4>4, EarlierIsBehind
      <4> QED BY <3>2, <4>5 DEF Behind
    <3> QED BY <3>1, <3>2 DEF Behind
  <2>3. Got(r)
    BY <2>1, <2>2 DEF RestInv, NothingMissed
  <2> QED BY <2>3 DEF Got
<1> QED BY <1>1, <1>2

LEMMA InsertStep ==
  ASSUME RestInv, Insert
  PROVE  RestInv'
<1> DEFINE n == Rows + inserted
           new == n + 1
           m == Len(server)
<1>1. /\ inserted' = inserted + 1 /\ inserted \in Nat /\ Rows \in Nat /\ inserted <= inserted'
      /\ UNCHANGED <<opts, deleted, offset, page_num, cursor, seen_keys, row_buffer, output, result>>
      /\ result = "fetching"
  BY RestSourceAssumption DEF Insert, RestInv, RestTypeOK
<1>2. /\ n \in Nat /\ RowNumbers = 1..n /\ RowNumbers' = 1..new /\ Rows + inserted' = new
      /\ RowNumbers \subseteq RowNumbers' /\ RowNumbers' = RowNumbers \cup {new}
  BY <1>1 DEF RowNumbers
<1>3. server' = <<new>> \o server
  BY <1>1, <1>2 DEF Insert
<1>4. RestTypeOK'
  <2>1. row_buffer \in Seq(RowNumbers') /\ output \in Seq(Seq(RowNumbers'))
    <3>1. Seq(RowNumbers) \subseteq Seq(RowNumbers')
      BY <1>2, SeqMonotonic
    <3> QED BY <3>1, SeqMonotonic DEF RestInv, RestTypeOK
  <2>2. deleted \subseteq RowNumbers' /\ cursor \in {0} \cup RowNumbers' /\ seen_keys \subseteq {0} \cup RowNumbers'
    BY <1>2 DEF RestInv, RestTypeOK
  <2>3. inserted' \in Nat
    BY <1>1
  <2> QED BY <1>1, <2>1, <2>2, <2>3 DEF RestInv, RestTypeOK
<1>5. Listed'
  <2>1. /\ server \in Seq(RowNumbers') /\ <<new>> \in Seq(RowNumbers') /\ Len(<<new>>) = 1
        /\ <<new>>[1] = new /\ m \in Nat
    <3>1. server \in Seq(RowNumbers)
      BY DEF RestInv, Listed
    <3>2. new \in RowNumbers'
      BY <1>2
    <3> HIDE DEF new
    <3> QED BY <1>2, <3>1, <3>2, SeqMonotonic, LenProperties
  <2> HIDE DEF m, new
  <2>2. /\ server' \in Seq(RowNumbers') /\ Len(server') = m + 1
        /\ \A i \in 1..(m + 1) : server'[i] = IF i = 1 THEN new ELSE server[i - 1]
    <3>1. /\ server' \in Seq(RowNumbers') /\ Len(server') = 1 + m
          /\ \A i \in 1..(1 + m) : server'[i] = IF i <= 1 THEN <<new>>[i] ELSE server[i - 1]
      BY <1>3, <2>1, ConcatProperties DEF m
    <3> QED BY <2>1, <3>1
  <2>3. DOMAIN server' = 1..(m + 1) /\ DOMAIN server = 1..m
    BY <2>1, <2>2, LenProperties DEF m
  <2>4. \A i \in 1..(m + 1) : i # 1 => i - 1 \in 1..m
    BY <2>1
  <2>5. \A i \in 1..m : server[i] \in RowNumbers /\ server[i] < new /\ i + 1 \in 1..(m + 1) /\ (i + 1) - 1 = i /\ i + 1 # 1
    <3>1. \A i \in 1..m : server[i] \in RowNumbers
      BY ServerTypes DEF RestInv, m
    <3> QED BY <1>2, <2>1, <3>1 DEF new
  <2>6. Range(server') = RowNumbers' \ deleted'
    <3>1. Range(server) = RowNumbers \ deleted
      BY DEF RestInv, Listed
    <3>2. Range(server') = {new} \cup Range(server)
      <4>1. Range(<<new>>) = {new}
        BY DEF Range
      <4>2. Range(<<new>> \o server) = Range(<<new>>) \cup Range(server)
        <5> DEFINE one == <<new>>
                   numbers == RowNumbers'
        <5>1. one \in Seq(numbers) /\ server \in Seq(numbers)
          BY <2>1
        <5> HIDE DEF one, numbers
        <5>2. Range(one \o server) = Range(one) \cup Range(server)
          BY <5>1, RangeConcatenation
        <5> QED BY <5>2 DEF one
      <4> QED BY <1>3, <4>1, <4>2
    <3>3. new \notin deleted
      <4>1. new \notin RowNumbers
        BY <1>2 DEF new
      <4> QED BY <4>1 DEF RestInv, RestTypeOK
    <3> QED BY <1>1, <1>2, <3>1, <3>2, <3>3
  <2>7. ASSUME NEW i \in DOMAIN server', NEW j \in DOMAIN server', i < j
        PROVE  server'[i] > server'[j]
    <3>1. j \in 1..(m + 1) /\ i \in 1..(m + 1) /\ j # 1 /\ j - 1 \in 1..m /\ server'[j] = server[j - 1]
      BY <2>1, <2>2, <2>3, <2>4, <2>7
    <3>2. CASE i = 1
      <4>1. server'[i] = new /\ server[j - 1] < new /\ server[j - 1] \in Nat /\ new \in Nat
        <5>1. server'[i] = new /\ server[j - 1] \in RowNumbers /\ server[j - 1] < new
          BY <2>2, <2>5, <3>1, <3>2
        <5>2. new \in Nat /\ \A r \in RowNumbers : r \in Nat
          BY <1>2 DEF new
        <5> QED BY <5>1, <5>2
      <4> QED BY <3>1, <4>1
    <3>3. CASE i # 1
      <4>1. i - 1 \in 1..m /\ server'[i] = server[i - 1] /\ i - 1 < j - 1
        BY <2>2, <2>4, <2>7, <3>1, <3>3
      <4>2. server[i - 1] > server[j - 1]
        BY <2>3, <3>1, <4>1 DEF RestInv, Listed
      <4> QED BY <3>1, <4>1, <4>2
    <3> QED BY <3>2, <3>3
  <2>8. deleted' = {} => server' = [i \in RowNumbers' |-> Rows + inserted' + 1 - i]
    <3> SUFFICES ASSUME deleted = {} PROVE server' = [i \in 1..new |-> new + 1 - i]
      BY <1>1, <1>2
    <3>1. server = [i \in 1..n |-> n + 1 - i]
      BY <1>2 DEF RestInv, Listed
    <3>2. m = n /\ \A i \in 1..n : server[i] = n + 1 - i
      <4> HIDE DEF n
      <4> QED BY <1>2, <3>1 DEF m
    <3>3. m + 1 = new
      BY <3>2 DEF new
    <3>4. \A i \in 1..new : server'[i] = new + 1 - i
      <4> SUFFICES ASSUME NEW i \in 1..new PROVE server'[i] = new + 1 - i
        OBVIOUS
      <4>1. server'[i] = IF i = 1 THEN new ELSE server[i - 1]
        BY <2>2, <3>3
      <4>2. new = n + 1 /\ n \in Nat
        BY <1>2 DEF new
      <4> HIDE DEF n
      <4>3. i # 1 => i - 1 \in 1..n
        BY <4>2
      <4> QED BY <3>2, <4>1, <4>2, <4>3
    <3>5. server' = [i \in 1..new |-> server'[i]]
      BY <2>2, <2>3, <3>3
    <3>6. [i \in 1..new |-> server'[i]] = [i \in 1..new |-> new + 1 - i]
      BY <3>4
    <3> QED BY <3>5, <3>6
  <2> QED BY <2>2, <2>6, <2>7, <2>8 DEF Listed
<1>6. Delivered' = Delivered
  BY <1>1 DEF Delivered
<1> HIDE DEF n, m
<1>7. Taken' /\ NothingMissed'
  BY <1>1, <1>4, <1>6, UndeliveredStep
<1> QED BY <1>4, <1>5, <1>7 DEF RestInv

LEMMA DeleteStep ==
  ASSUME RestInv, Delete
  PROVE  RestInv'
<1> DEFINE n == Len(server)
<1>1. PICK k \in DOMAIN server : server' = RemoveAt(server, k) /\ deleted' = deleted \cup {server[k]}
  BY DEF Delete
<1>2. /\ UNCHANGED <<opts, inserted, offset, page_num, cursor, seen_keys, row_buffer, output, result>>
      /\ result = "fetching" /\ RowNumbers' = RowNumbers
  BY DEF Delete, RowNumbers
<1>3. /\ n \in Nat /\ DOMAIN server = 1..n /\ server \in Seq(RowNumbers)
      /\ \A i \in 1..n : server[i] \in RowNumbers
      /\ k \in 1..n
  BY ServerTypes DEF RestInv, Listed
<1>4. RestTypeOK'
  BY <1>1, <1>2, <1>3 DEF RestInv, RestTypeOK
<1>5. /\ server' \in Seq(RowNumbers) /\ DOMAIN server' = 1..(n - 1)
      /\ \A i \in 1..(n - 1) : server'[i] = IF i < k THEN server[i] ELSE server[i + 1]
  <2> DEFINE a == SubSeq(server, 1, k - 1)
             b == SubSeq(server, k + 1, n)
  <2>1. k - 1 \in Nat /\ k - 1 <= n /\ k \in Nat /\ n <= n /\ 0 \in Nat /\ 0 + 1 = 1
    BY <1>3
  <2>2. /\ a \in Seq(RowNumbers) /\ Len(a) = IF 0 <= k - 1 THEN k - 1 - 0 ELSE 0
        /\ \A i \in 1..(k - 1 - 0) : a[i] = server[0 + i]
    BY <1>3, <2>1, StretchType
  <2>3. /\ b \in Seq(RowNumbers) /\ Len(b) = IF k <= n THEN n - k ELSE 0
        /\ \A i \in 1..(n - k) : b[i] = server[k + i]
    BY <1>3, <2>1, StretchType
  <2>4. server' = a \o b
    BY <1>1 DEF RemoveAt
  <2> HIDE DEF a, b, n
  <2>5. Len(a) = k - 1 /\ Len(b) = n - k /\ Len(a) + Len(b) = n - 1 /\ n - 1 \in Nat
    BY <1>3, <2>1, <2>2, <2>3
  <2>6. /\ server' \in Seq(RowNumbers) /\ Len(server') = n - 1
        /\ \A i \in 1..(n - 1) : server'[i] = IF i <= k - 1 THEN a[i] ELSE b[i - (k - 1)]
    <3>1. /\ a \o b \in Seq(RowNumbers) /\ Len(a \o b) = Len(a) + Len(b)
          /\ \A i \in 1 .. Len(a) + Len(b) : (a \o b)[i] = IF i <= Len(a) THEN a[i] ELSE b[i - Len(a)]
      BY <2>2, <2>3, ConcatProperties
    <3> QED BY <2>4, <2>5, <3>1
  <2>7. ASSUME NEW i \in 1..(n - 1) PROVE server'[i] = IF i < k THEN server[i] ELSE server[i + 1]
    <3>1. CASE i < k
      <4>1. i \in 1..(k - 1 - 0) /\ 0 + i = i /\ i <= k - 1
        BY <1>3, <2>1, <3>1
      <4> QED BY <2>2, <2>6, <3>1, <4>1
    <3>2. CASE ~(i < k)
      <4>1. i - (k - 1) \in 1..(n - k) /\ k + (i - (k - 1)) = i + 1 /\ ~(i <= k - 1)
        BY <1>3, <2>1, <3>2
      <4> QED BY <2>3, <2>6, <3>2, <4>1
    <3> QED BY <3>1, <3>2
  <2>8. DOMAIN server' = 1..(n - 1)
    BY <2>6, LenProperties
  <2> QED BY <2>6, <2>7, <2>8 DEF n
<1> HIDE DEF n
<1>6. \A i, j \in 1..n : i < j => server[i] > server[j]
  BY <1>3 DEF RestInv, Listed
<1>7. \A i \in 1..(n - 1) : i \in 1..n /\ i + 1 \in 1..n /\ i < i + 1
  BY <1>3
<1>8. Listed'
  <2>1. Range(server') = Range(server) \ {server[k]}
    <3>1. ASSUME NEW i \in 1..(n - 1) PROVE server'[i] \in Range(server) /\ server'[i] # server[k]
      <4> DEFINE j == IF i < k THEN i ELSE i + 1
      <4>1. server'[i] = server[j]
        BY <1>5
      <4>2. j \in 1..n /\ (j < k \/ k < j) /\ server[j] \in Nat /\ server[k] \in Nat
        BY <1>3, <1>7, ServerTypes DEF RestInv, n
      <4> HIDE DEF j
      <4>3. server[j] # server[k]
        BY <1>3, <1>6, <4>2
      <4> QED BY <1>3, <4>1, <4>2, <4>3 DEF Range
    <3>2. ASSUME NEW j \in 1..n, server[j] # server[k] PROVE server[j] \in Range(server')
      <4>1. CASE j < k
        <5>1. j \in 1..(n - 1)
          BY <1>3, <4>1
        <5> QED BY <1>5, <4>1, <5>1 DEF Range
      <4>2. CASE ~(j < k)
        <5>1. j - 1 \in 1..(n - 1) /\ ~(j - 1 < k) /\ (j - 1) + 1 = j
          BY <1>3, <3>2, <4>2
        <5> QED BY <1>5, <5>1 DEF Range
      <4> QED BY <4>1, <4>2
    <3> QED BY <1>3, <1>5, <3>1, <3>2 DEF Range
  <2>2. Range(server') = RowNumbers' \ deleted'
    BY <1>1, <1>2, <2>1 DEF RestInv, Listed
  <2>3. ASSUME NEW i \in 1..(n - 1), NEW j \in 1..(n - 1), i < j PROVE server'[i] > server'[j]
    <3> DEFINE i2 == IF i < k THEN i ELSE i + 1
               j2 == IF j < k THEN j ELSE j + 1
    <3>1. server'[i] = server[i2] /\ server'[j] = server[j2]
      BY <1>5
    <3>2. i2 \in 1..n /\ j2 \in 1..n /\ i2 < j2
      BY <1>3, <1>7, <2>3
    <3> QED BY <1>6, <3>1, <3>2
  <2>4. deleted' # {}
    BY <1>1
  <2> QED BY <1>2, <1>5, <2>2, <2>3, <2>4 DEF Listed
<1>9. Delivered' = Delivered
  BY <1>2 DEF Delivered
<1>10. inserted <= inserted' /\ deleted \subseteq deleted' /\ result' \in {"fetching", "cut", "error"}
  BY <1>1, <1>2 DEF RestInv, RestTypeOK
<1>11. Taken' /\ NothingMissed'
  BY <1>2, <1>4, <1>9, <1>10, UndeliveredStep
<1> QED BY <1>4, <1>8, <1>11 DEF RestInv

LEMMA FailStep ==
  ASSUME RestInv, Refuse \/ Break
  PROVE  RestInv'
<1> DEFINE F == FlattenSeq(output)
<1>1. /\ UNCHANGED <<opts, server, inserted, deleted, offset, page_num, cursor, seen_keys>>
      /\ result = "fetching" /\ result' \in {"cut", "error"} /\ RowNumbers' = RowNumbers
      /\ \/ row_buffer' = row_buffer /\ output' = output
         \/ row_buffer' = <<>> /\ row_buffer = <<>> /\ output' = output \o <<>>
         \/ row_buffer' = <<>> /\ row_buffer # <<>> /\ output' = output \o <<row_buffer>>
  BY DEF Refuse, Break, RowNumbers
<1>2. output \in Seq(Seq(RowNumbers)) /\ row_buffer \in Seq(RowNumbers)
  BY DEF RestInv, RestTypeOK
<1>3. F \in Seq(RowNumbers) /\ <<>> \in Seq(RowNumbers)
  BY <1>2, FlattenType, EmptySeq
<1>4. /\ output' \in Seq(Seq(RowNumbers)) /\ row_buffer' \in Seq(RowNumbers)
      /\ Delivered' = Delivered
  <2>1. CASE row_buffer' = row_buffer /\ output' = output
    BY <1>2, <2>1 DEF Delivered
  <2>2. CASE row_buffer' = <<>> /\ row_buffer = <<>> /\ output' = output \o <<>>
    <3>1. output' = output
      BY <1>2, <2>2, ConcatEmptySeq
    <3> QED BY <1>2, <2>2, <3>1 DEF Delivered
  <2>3. CASE row_buffer' = <<>> /\ row_buffer # <<>> /\ output' = output \o <<row_buffer>>
    <3>1. output' = Append(output, row_buffer)
      BY <1>2, <2>3, AppendIsConcat
    <3>2. output' \in Seq(Seq(RowNumbers)) /\ FlattenSeq(output') = F \o row_buffer
      BY <1>2, <3>1, AppendProperties, FlattenAppend
    <3>3. F \o row_buffer \in Seq(RowNumbers)
      <4> HIDE DEF F
      <4> QED BY <1>2, <1>3, ConcatProperties
    <3>4. (F \o row_buffer) \o <<>> = F \o row_buffer
      BY <3>3, ConcatEmptySeq
    <3> QED BY <1>3, <2>3, <3>2, <3>4 DEF Delivered
  <2> QED BY <1>1, <2>1, <2>2, <2>3
<1>5. RestTypeOK'
  BY <1>1, <1>4 DEF RestInv, RestTypeOK
<1>6. Listed'
  BY <1>1 DEF RestInv, Listed
<1>7. inserted <= inserted' /\ deleted \subseteq deleted' /\ result' \in {"fetching", "cut", "error"}
  BY <1>1 DEF RestInv, RestTypeOK
<1>8. Taken' /\ NothingMissed'
  BY <1>1, <1>4, <1>5, <1>7, UndeliveredStep
<1> QED BY <1>5, <1>6, <1>8 DEF RestInv

LEMMA RestStart == RestSourceInit => RestInv
<1> SUFFICES ASSUME RestSourceInit PROVE RestInv
  OBVIOUS
<1>1. /\ server = [i \in 1..Rows |-> Rows + 1 - i] /\ inserted = 0 /\ deleted = {} /\ offset = 0
      /\ page_num = 1 /\ cursor = 0 /\ seen_keys = {} /\ row_buffer = <<>> /\ output = <<>>
      /\ result = "fetching"
      /\ opts \in Options /\ (opts.strategy \notin Positioned => ~opts.total /\ ~opts.has_more)
  BY DEF RestSourceInit
<1>2. Rows \in Nat /\ RowNumbers = 1..Rows /\ Rows + inserted = Rows
  BY <1>1, RestSourceAssumption DEF RowNumbers
<1>3. RestTypeOK
  <2>1. <<>> \in Seq(RowNumbers) /\ <<>> \in Seq(Seq(RowNumbers))
    BY EmptySeq
  <2> QED BY <1>1, <2>1 DEF RestTypeOK
<1>4. Listed
  <2>1. \A i \in 1..Rows : Rows + 1 - i \in 1..Rows /\ server[i] = Rows + 1 - i /\ Rows + 1 - (Rows + 1 - i) = i
    BY <1>1, <1>2
  <2>2. DOMAIN server = 1..Rows
    BY <1>1
  <2>3. server \in Seq(1..Rows)
    <3>1. server \in [1..Rows -> 1..Rows]
      BY <1>1, <2>1
    <3> QED BY <1>2, <3>1
  <2>4. Range(server) = 1..Rows
    BY <2>1, <2>2 DEF Range
  <2>5. \A i, j \in DOMAIN server : i < j => server[i] > server[j]
    BY <1>2, <2>1, <2>2
  <2> QED BY <1>1, <1>2, <2>3, <2>4, <2>5 DEF Listed
<1>5. Delivered = <<>>
  <2>1. <<>> \o <<>> = <<>>
    BY EmptySeq, ConcatEmptySeq
  <2> QED BY <1>1, <2>1, FlattenNothing DEF Delivered
<1>6. Range(Delivered) = {} /\ IsInjective(Delivered)
  BY <1>5 DEF Range, IsInjective
<1>7. (page_num - 1) * opts.cap = 0
  BY <1>1, <1>3, OptionTypes
<1>8. Taken
  BY <1>1, <1>5, <1>6, <1>7 DEF Taken
<1>9. NothingMissed
  <2> SUFFICES ASSUME NEW r \in Stayed, Behind(r) PROVE FALSE
    BY <1>1 DEF NothingMissed
  <2>1. r \in 1..Rows
    BY DEF Stayed
  <2>2. opts.strategy \in Positioned /\ Rows + inserted + 1 - r <= Position
    BY <1>1 DEF Behind
  <2>3. Position = 0
    BY <1>1, <1>7, <2>2, PositionIs DEF Positioned
  <2> QED BY <1>2, <2>1, <2>2, <2>3
<1> QED BY <1>3, <1>4, <1>8, <1>9 DEF RestInv

\* The invariant of RestSource: the server's rows, what was taken of them and what
\* cannot have been missed, for every number of rows, insertions and deletions and
\* every page and batch size.
LEMMA RestInvariance == RestSourceSpec => []RestInv
<1>1. RestInv /\ [RestSourceNext]_restVars => RestInv'
  <2> SUFFICES ASSUME RestInv, [RestSourceNext]_restVars PROVE RestInv'
    OBVIOUS
  <2>1. CASE UNCHANGED restVars
    <3>1. /\ UNCHANGED <<opts, server, inserted, deleted, offset, page_num, cursor>>
          /\ UNCHANGED <<seen_keys, row_buffer, output, result>>
      BY <2>1 DEF restVars
    <3>2. RestTypeOK'
      BY <3>1 DEF RestInv, RestTypeOK, RowNumbers
    <3>3. Listed'
      BY <3>1 DEF RestInv, Listed, RowNumbers
    <3>4. Taken'
      BY <3>1 DEF RestInv, Taken, RowNumbers, Delivered
    <3>5. NothingMissed'
      BY <3>1 DEF RestInv, NothingMissed, RowNumbers, Delivered, Sound, Stayed, Got, Behind, Position, Passed
    <3> QED BY <3>2, <3>3, <3>4, <3>5 DEF RestInv
  <2> QED BY <2>1, InsertStep, DeleteStep, AnswerStep, FailStep DEF RestSourceNext
<1> QED BY <1>1, RestStart, PTL DEF RestSourceSpec

\* What a fetch that ends in the regular way has: every row that was at the server all
\* the time, and none of them twice.
THEOREM SettledRowsAreFetched == RestSourceSpec => []SettledRowsArrive
<1>1. RestInv => SettledRowsArrive
  <2> SUFFICES ASSUME RestInv PROVE SettledRowsArrive
    OBVIOUS
  <2>1. ASSUME result = "done", Sound,
               NEW r \in (1..Rows) \ (deleted \cup (IF opts.dedup THEN Keyless ELSE {}))
        PROVE  r \in Range(Delivered)
    <3>1. r \in Stayed
      BY <2>1 DEF Stayed
    <3>2. Got(r)
      BY <2>1, <3>1 DEF RestInv, NothingMissed
    <3> QED BY <2>1, <3>2 DEF Got
  <2> QED BY <2>1 DEF SettledRowsArrive, RestInv, Taken
<1> QED BY <1>1, RestInvariance, PTL

(***************************************************************************)
(* The Thrift connection: the pages arrive in order and whole, and at most *)
(* one statement is in doubt.                                              *)
(***************************************************************************)
Early == {"open", "use", "execute", "poll", "fetch"}

\* A client that is not through still has a statement to finish.
CallsLeft ==
  /\ pc \in {"open", "use", "execute", "poll", "fetch", "close_op"} => calls >= 1
  /\ role # "dml" => calls <= 1

\* A statement the server works on is the one after those reported; one whose end
\* was seen is carried out; before it is sent none is in doubt.
InDoubt ==
  /\ OneInDoubt
  /\ op = "running" => applied = acked
  /\ pc \in {"open", "use", "execute"} => (applied = acked /\ op # "running")
  /\ pc \in {"fetch", "close_op"} => applied = acked + 1
  /\ (pc = "poll" /\ op = "finished") => applied = acked + 1

\* The page the server gives next, or the one that waits, follows those delivered.
PagesQueued ==
  /\ pc \in Early => (next = Len(delivered) + 1 /\ prefetch = "none")
  /\ role = "dml" => pc # "fetch"
  /\ (role = "dml" /\ pc = "close_op") => (next = Len(delivered) + 1 /\ prefetch = "none")
  /\ prefetch = "flying" => next = Len(delivered) + 1
  /\ prefetch = "ready" => (fetched = Len(delivered) + 1 /\ next = Len(delivered) + 2)

\* Nothing is fetched ahead only when the last page was delivered.
PagesKept == (pc \in {"yield", "await"} /\ prefetch = "none") => Len(delivered) >= pages

(***************************************************************************)
(* Types                                                                   *)
(***************************************************************************)
LEMMA TypeStart == ThriftInit => ThriftTypeOK /\ CallsLeft
<1> SUFFICES ASSUME ThriftInit PROVE ThriftTypeOK /\ CallsLeft
  OBVIOUS
<1>1. pages \in Nat /\ empties \subseteq 1..pages
  BY ThriftAssumption DEF ThriftInit
<1>2. calls \in Nat /\ calls >= 1 /\ (role # "dml" => calls <= 1)
  <2>1. CASE role = "dml"
    BY <2>1, ThriftAssumption DEF ThriftInit
  <2>2. CASE role # "dml"
    BY <2>2 DEF ThriftInit
  <2> QED
    BY <2>1, <2>2
<1>3. delivered \in Seq(Nat) /\ posts \subseteq {"close_op", "close_session"}
  BY DEF ThriftInit
<1>4. ThriftTypeOK
  BY <1>1, <1>2, <1>3 DEF ThriftInit, ThriftTypeOK, Roles, Pcs, OpStates
<1> QED
  BY <1>2, <1>4 DEF CallsLeft

\* What leaving changes, without the choices of Leave.
LEMMA LeaveForm ==
  ASSUME NEW how \in Over, Leave(how)
  PROVE  /\ pc' \in {how, "unopened"}
         /\ pc' \in Over /\ pc' \in Pcs
         /\ posts' \subseteq {"close_op", "close_session"}
         /\ held' = FALSE /\ guard' = FALSE
BY DEF Leave, Over, Pcs

LEMMA TypeStep ==
  ASSUME ThriftTypeOK, CallsLeft, [ThriftNext]_thriftVars
  PROVE  ThriftTypeOK' /\ CallsLeft'
<1>1. CASE OpenSession
  BY <1>1
  DEF OpenSession, thriftVars, taskVars, serverVars, ThriftTypeOK, Roles, Over, Pcs, OpStates, CallsLeft
<1>2. CASE Use
  BY <1>2
  DEF Use, thriftVars, taskVars, serverVars, ThriftTypeOK, Roles, Over, Pcs, OpStates, CallsLeft
<1>3. CASE Execute
  BY <1>3
  DEF Execute, thriftVars, taskVars, serverVars, ThriftTypeOK, Roles, Over, Pcs, OpStates, CallsLeft
<1>4. CASE Poll
  BY <1>4, LeaveForm
  DEF Poll, thriftVars, taskVars, serverVars, ThriftTypeOK, Roles, Over, Pcs, OpStates, CallsLeft
<1>5. CASE FirstPage
  <2>1. CASE Empty(next)
    BY <1>5, <2>1, LeaveForm DEF FirstPage, thriftVars, taskVars, serverVars, ThriftTypeOK, Roles, Over, Pcs, OpStates, CallsLeft
  <2>2. CASE ~Empty(next)
    <3>1. delivered' \in Seq(Nat) /\ prefetch' \in {"none", "flying"}
      BY <1>5, <2>2 DEF FirstPage, StartPrefetch, ThriftTypeOK
    <3>2. pc' = "yield" /\ next' \in Nat /\ role = "source"
            /\ UNCHANGED <<held, guard, posts, role, pages, empties, calls, acked, fetched, session, op,
                          applied, faults, unsent>>
      BY <1>5, <2>2 DEF FirstPage, ThriftTypeOK
    <3> QED
      BY <3>1, <3>2 DEF ThriftTypeOK, Roles, Over, Pcs, OpStates, CallsLeft
  <2> QED
    BY <2>1, <2>2
<1>6. CASE Prefetch
  BY <1>6
  DEF Prefetch, thriftVars, taskVars, serverVars, ThriftTypeOK, Roles, Over, Pcs, OpStates, CallsLeft
<1>7. CASE PrefetchFails
  BY <1>7
  DEF PrefetchFails, thriftVars, taskVars, serverVars, Fault, ThriftTypeOK, Roles, Over, Pcs, OpStates, CallsLeft
<1>8. CASE Resume
  BY <1>8
  DEF Resume, thriftVars, taskVars, serverVars, ThriftTypeOK, Roles, Over, Pcs, OpStates, CallsLeft
<1>9. CASE Await
  <2>1. CASE pc' # "yield"
    <3>1. pc' \in Over /\ pc' \in Pcs /\ posts' \subseteq {"close_op", "close_session"}
            /\ held' = FALSE /\ guard' = FALSE /\ UNCHANGED <<delivered, prefetch>>
      BY <1>9, <2>1, LeaveForm DEF Await, Over
    <3>2. UNCHANGED <<role, pages, empties, calls, acked, fetched, session, op, next, applied, faults, unsent>>
      BY <1>9 DEF Await, serverVars
    <3>3. ThriftTypeOK'
      BY <3>1, <3>2 DEF ThriftTypeOK
    <3>4. CallsLeft'
      BY <3>1, <3>2 DEF CallsLeft, Over
    <3> QED BY <3>3, <3>4
  <2>2. CASE pc' = "yield"
    <3>1. delivered' \in Seq(Nat) /\ prefetch' \in {"none", "flying"} /\ UNCHANGED <<held, guard, posts>>
      BY <1>9, <2>2, LeaveForm DEF Await, StartPrefetch, ThriftTypeOK, Over
    <3> QED
      BY <1>9, <2>2, <3>1 DEF Await, thriftVars, taskVars, serverVars, ThriftTypeOK, Roles, Over, Pcs, OpStates, CallsLeft
  <2> QED
    BY <2>1, <2>2
<1>10. CASE QueryPage
  BY <1>10
  DEF QueryPage, thriftVars, taskVars, serverVars, Empty, More, ThriftTypeOK, Roles, Over, Pcs, OpStates, CallsLeft
<1>11. CASE CloseOperation
  BY <1>11
  DEF CloseOperation, thriftVars, taskVars, serverVars, Fault, ThriftTypeOK, Roles, Over, Pcs, OpStates, CallsLeft
<1>12. CASE Flush
  <2>1. faults' \in Nat /\ unsent' \in BOOLEAN /\ session' \in {"none", "open", "closed"}
    <3>1. CASE session' = "closed" /\ faults' = faults /\ unsent' = unsent
      BY <3>1 DEF ThriftTypeOK
    <3>2. CASE Fault /\ unsent' = TRUE /\ session' = session
      BY <3>2 DEF Fault, ThriftTypeOK
    <3> QED
      BY <1>12, <3>1, <3>2 DEF Flush
  <2>2. pc' = "done" /\ held' = FALSE
    BY <1>12 DEF Flush
  <2>3. UNCHANGED <<role, pages, empties, guard, calls, acked, delivered, prefetch, fetched, posts,
                    op, next, applied>>
    BY <1>12 DEF Flush, taskVars
  <2> QED
    BY <2>1, <2>2, <2>3 DEF ThriftTypeOK, Roles, Over, Pcs, OpStates, CallsLeft
<1>13. CASE Work
  BY <1>13
  DEF Work, thriftVars, taskVars, serverVars, ThriftTypeOK, Roles, Over, Pcs, OpStates, CallsLeft
<1>14. CASE PostCloses
  <2>1. posts' \subseteq posts /\ session' \in {session, "closed"} /\ op' \in {op, "closed"}
    BY <1>14 DEF PostCloses, PostClose
  <2> QED
    BY <1>14, <2>1 DEF PostCloses, thriftVars, taskVars, serverVars, ThriftTypeOK, Roles, Over, Pcs, OpStates, CallsLeft
<1>15. CASE OpenFails
  BY <1>15, LeaveForm
  DEF OpenFails, thriftVars, taskVars, serverVars, Fault, ThriftTypeOK, Roles, Over, Pcs, OpStates, CallsLeft
<1>16. CASE UseFails
  BY <1>16, LeaveForm
  DEF UseFails, thriftVars, taskVars, serverVars, Fault, ThriftTypeOK, Roles, Over, Pcs, OpStates, CallsLeft
<1>17. CASE ExecuteFails
  BY <1>17, LeaveForm
  DEF ExecuteFails, thriftVars, taskVars, serverVars, Fault, ThriftTypeOK, Roles, Over, Pcs, OpStates, CallsLeft
<1>18. CASE PollFails
  BY <1>18, LeaveForm
  DEF PollFails, thriftVars, taskVars, serverVars, Fault, ThriftTypeOK, Roles, Over, Pcs, OpStates, CallsLeft
<1>19. CASE FetchFails
  BY <1>19, LeaveForm
  DEF FetchFails, thriftVars, taskVars, serverVars, Fault, ThriftTypeOK, Roles, Over, Pcs, OpStates, CallsLeft
<1>20. CASE PostFails
  BY <1>20
  DEF PostFails, thriftVars, taskVars, serverVars, Fault, ThriftTypeOK, Roles, Over, Pcs, OpStates, CallsLeft
<1>21. CASE Drop
  BY <1>21, LeaveForm
  DEF Drop, thriftVars, taskVars, serverVars, ThriftTypeOK, Roles, Over, Pcs, OpStates, CallsLeft
<1>22. CASE UNCHANGED thriftVars
  BY <1>22 DEF thriftVars, taskVars, serverVars, ThriftTypeOK, Roles, Over, Pcs, OpStates, CallsLeft
<1> QED
  BY <1>1, <1>2, <1>3, <1>4, <1>5, <1>6, <1>7, <1>8, <1>9, <1>10, <1>11, <1>12, <1>13, <1>14, <1>15, <1>16, <1>17, <1>18, <1>19, <1>20, <1>21, <1>22 DEF ThriftNext, Step, Failing

\* The state of the connection, its client and its server is well formed.
THEOREM ThriftTypeCorrect == ThriftSpec => [](ThriftTypeOK /\ CallsLeft)
<1>1. ThriftTypeOK /\ CallsLeft /\ [ThriftNext]_thriftVars => (ThriftTypeOK /\ CallsLeft)'
  BY TypeStep
<1> QED
  BY <1>1, TypeStart, PTL DEF ThriftSpec

(***************************************************************************)
(* Statements                                                              *)
(***************************************************************************)
LEMMA DoubtStep ==
  ASSUME ThriftTypeOK, CallsLeft, InDoubt, [ThriftNext]_thriftVars
  PROVE  InDoubt'
<1> USE DEF OneInDoubt
<1>1. CASE OpenSession
  BY <1>1
  DEF OpenSession, thriftVars, taskVars, serverVars, ThriftTypeOK, CallsLeft, Pcs, Over, InDoubt
<1>2. CASE Use
  BY <1>2
  DEF Use, thriftVars, taskVars, serverVars, ThriftTypeOK, CallsLeft, Pcs, Over, InDoubt
<1>3. CASE Execute
  BY <1>3
  DEF Execute, thriftVars, taskVars, serverVars, ThriftTypeOK, CallsLeft, Pcs, Over, InDoubt
<1>4. CASE Poll
  BY <1>4
  DEF Poll, thriftVars, taskVars, serverVars, Leave, ThriftTypeOK, CallsLeft, Pcs, Over, InDoubt
<1>5. CASE FirstPage
  BY <1>5
  DEF FirstPage, thriftVars, taskVars, serverVars, Leave, Empty, More, StartPrefetch, ThriftTypeOK, CallsLeft, Pcs, Over, InDoubt
<1>6. CASE Prefetch
  BY <1>6
  DEF Prefetch, thriftVars, taskVars, serverVars, ThriftTypeOK, CallsLeft, Pcs, Over, InDoubt
<1>7. CASE PrefetchFails
  BY <1>7
  DEF PrefetchFails, thriftVars, taskVars, serverVars, Fault, ThriftTypeOK, CallsLeft, Pcs, Over, InDoubt
<1>8. CASE Resume
  BY <1>8
  DEF Resume, thriftVars, taskVars, serverVars, ThriftTypeOK, CallsLeft, Pcs, Over, InDoubt
<1>9. CASE Await
  BY <1>9
  DEF Await, thriftVars, taskVars, serverVars, Leave, Empty, More, StartPrefetch, ThriftTypeOK, CallsLeft, Pcs, Over, InDoubt
<1>10. CASE QueryPage
  BY <1>10
  DEF QueryPage, thriftVars, taskVars, serverVars, Empty, More, ThriftTypeOK, CallsLeft, Pcs, Over, InDoubt
<1>11. CASE CloseOperation
  BY <1>11
  DEF CloseOperation, thriftVars, taskVars, serverVars, Fault, ThriftTypeOK, CallsLeft, Pcs, Over, InDoubt
<1>12. CASE Flush
  BY <1>12
  DEF Flush, thriftVars, taskVars, serverVars, Fault, ThriftTypeOK, CallsLeft, Pcs, Over, InDoubt
<1>13. CASE Work
  BY <1>13
  DEF Work, thriftVars, taskVars, serverVars, ThriftTypeOK, CallsLeft, Pcs, Over, InDoubt
<1>14. CASE PostCloses
  BY <1>14
  DEF PostCloses, thriftVars, taskVars, serverVars, PostClose, ThriftTypeOK, CallsLeft, Pcs, Over, InDoubt
<1>15. CASE OpenFails
  BY <1>15
  DEF OpenFails, thriftVars, taskVars, serverVars, Leave, Fault, ThriftTypeOK, CallsLeft, Pcs, Over, InDoubt
<1>16. CASE UseFails
  BY <1>16
  DEF UseFails, thriftVars, taskVars, serverVars, Leave, Fault, ThriftTypeOK, CallsLeft, Pcs, Over, InDoubt
<1>17. CASE ExecuteFails
  BY <1>17
  DEF ExecuteFails, thriftVars, taskVars, serverVars, Leave, Fault, ThriftTypeOK, CallsLeft, Pcs, Over, InDoubt
<1>18. CASE PollFails
  BY <1>18
  DEF PollFails, thriftVars, taskVars, serverVars, Leave, Fault, ThriftTypeOK, CallsLeft, Pcs, Over, InDoubt
<1>19. CASE FetchFails
  BY <1>19
  DEF FetchFails, thriftVars, taskVars, serverVars, Leave, Fault, ThriftTypeOK, CallsLeft, Pcs, Over, InDoubt
<1>20. CASE PostFails
  BY <1>20
  DEF PostFails, thriftVars, taskVars, serverVars, Fault, ThriftTypeOK, CallsLeft, Pcs, Over, InDoubt
<1>21. CASE Drop
  BY <1>21
  DEF Drop, thriftVars, taskVars, serverVars, Leave, ThriftTypeOK, CallsLeft, Pcs, Over, InDoubt
<1>22. CASE UNCHANGED thriftVars
  BY <1>22 DEF thriftVars, taskVars, serverVars, ThriftTypeOK, CallsLeft, Pcs, Over, InDoubt
<1> QED
  BY <1>1, <1>2, <1>3, <1>4, <1>5, <1>6, <1>7, <1>8, <1>9, <1>10, <1>11, <1>12, <1>13, <1>14, <1>15, <1>16, <1>17, <1>18, <1>19, <1>20, <1>21, <1>22 DEF ThriftNext, Step, Failing

\* Whatever fails or gets lost, each statement the client reports as done was
\* carried out, and beyond those at most the one it was busy with.
THEOREM AtMostOneInDoubt == ThriftSpec => []OneInDoubt
<1>1. ThriftInit => InDoubt
  BY DEF ThriftInit, InDoubt, OneInDoubt
<1>2. ThriftTypeOK /\ CallsLeft /\ InDoubt /\ [ThriftNext]_thriftVars => InDoubt'
  BY DoubtStep
<1>3. InDoubt => OneInDoubt
  BY DEF InDoubt
<1> QED
  BY <1>1, <1>2, <1>3, ThriftTypeCorrect, PTL DEF ThriftSpec

(***************************************************************************)
(* Pages                                                                   *)
(***************************************************************************)
LEMMA OrderStep ==
  ASSUME ThriftTypeOK, CallsLeft, PagesQueued, InOrder, [ThriftNext]_thriftVars
  PROVE  PagesQueued' /\ InOrder'
<1> USE DEF Early
<1>1. CASE OpenSession
  BY <1>1
  DEF OpenSession, thriftVars, taskVars, serverVars, ThriftTypeOK, CallsLeft, Roles, Pcs, Over, PagesQueued, InOrder
<1>2. CASE Use
  BY <1>2
  DEF Use, thriftVars, taskVars, serverVars, ThriftTypeOK, CallsLeft, Roles, Pcs, Over, PagesQueued, InOrder
<1>3. CASE Execute
  BY <1>3
  DEF Execute, thriftVars, taskVars, serverVars, ThriftTypeOK, CallsLeft, Roles, Pcs, Over, PagesQueued, InOrder
<1>4. CASE Poll
  BY <1>4
  DEF Poll, thriftVars, taskVars, serverVars, Leave, ThriftTypeOK, CallsLeft, Roles, Pcs, Over, PagesQueued, InOrder
<1>5. CASE FirstPage
  BY <1>5
  DEF FirstPage, thriftVars, taskVars, serverVars, Leave, Empty, More, StartPrefetch, ThriftTypeOK, CallsLeft, Roles, Pcs, Over, PagesQueued, InOrder
<1>6. CASE Prefetch
  BY <1>6
  DEF Prefetch, thriftVars, taskVars, serverVars, ThriftTypeOK, CallsLeft, Roles, Pcs, Over, PagesQueued, InOrder
<1>7. CASE PrefetchFails
  BY <1>7
  DEF PrefetchFails, thriftVars, taskVars, serverVars, Fault, ThriftTypeOK, CallsLeft, Roles, Pcs, Over, PagesQueued, InOrder
<1>8. CASE Resume
  BY <1>8
  DEF Resume, thriftVars, taskVars, serverVars, ThriftTypeOK, CallsLeft, Roles, Pcs, Over, PagesQueued, InOrder
<1>9. CASE Await
  BY <1>9
  DEF Await, thriftVars, taskVars, serverVars, Leave, Empty, More, StartPrefetch, ThriftTypeOK, CallsLeft, Roles, Pcs, Over, PagesQueued, InOrder
<1>10. CASE QueryPage
  BY <1>10
  DEF QueryPage, thriftVars, taskVars, serverVars, Empty, More, ThriftTypeOK, CallsLeft, Roles, Pcs, Over, PagesQueued, InOrder
<1>11. CASE CloseOperation
  BY <1>11
  DEF CloseOperation, thriftVars, taskVars, serverVars, Fault, ThriftTypeOK, CallsLeft, Roles, Pcs, Over, PagesQueued, InOrder
<1>12. CASE Flush
  BY <1>12
  DEF Flush, thriftVars, taskVars, serverVars, Fault, ThriftTypeOK, CallsLeft, Roles, Pcs, Over, PagesQueued, InOrder
<1>13. CASE Work
  BY <1>13
  DEF Work, thriftVars, taskVars, serverVars, ThriftTypeOK, CallsLeft, Roles, Pcs, Over, PagesQueued, InOrder
<1>14. CASE PostCloses
  BY <1>14
  DEF PostCloses, thriftVars, taskVars, serverVars, PostClose, ThriftTypeOK, CallsLeft, Roles, Pcs, Over, PagesQueued, InOrder
<1>15. CASE OpenFails
  BY <1>15
  DEF OpenFails, thriftVars, taskVars, serverVars, Leave, Fault, ThriftTypeOK, CallsLeft, Roles, Pcs, Over, PagesQueued, InOrder
<1>16. CASE UseFails
  BY <1>16
  DEF UseFails, thriftVars, taskVars, serverVars, Leave, Fault, ThriftTypeOK, CallsLeft, Roles, Pcs, Over, PagesQueued, InOrder
<1>17. CASE ExecuteFails
  BY <1>17
  DEF ExecuteFails, thriftVars, taskVars, serverVars, Leave, Fault, ThriftTypeOK, CallsLeft, Roles, Pcs, Over, PagesQueued, InOrder
<1>18. CASE PollFails
  BY <1>18
  DEF PollFails, thriftVars, taskVars, serverVars, Leave, Fault, ThriftTypeOK, CallsLeft, Roles, Pcs, Over, PagesQueued, InOrder
<1>19. CASE FetchFails
  BY <1>19
  DEF FetchFails, thriftVars, taskVars, serverVars, Leave, Fault, ThriftTypeOK, CallsLeft, Roles, Pcs, Over, PagesQueued, InOrder
<1>20. CASE PostFails
  BY <1>20
  DEF PostFails, thriftVars, taskVars, serverVars, Fault, ThriftTypeOK, CallsLeft, Roles, Pcs, Over, PagesQueued, InOrder
<1>21. CASE Drop
  BY <1>21
  DEF Drop, thriftVars, taskVars, serverVars, Leave, ThriftTypeOK, CallsLeft, Roles, Pcs, Over, PagesQueued, InOrder
<1>22. CASE UNCHANGED thriftVars
  BY <1>22 DEF thriftVars, taskVars, serverVars, ThriftTypeOK, CallsLeft, Roles, Pcs, Over, PagesQueued, InOrder
<1> QED
  BY <1>1, <1>2, <1>3, <1>4, <1>5, <1>6, <1>7, <1>8, <1>9, <1>10, <1>11, <1>12, <1>13, <1>14, <1>15, <1>16, <1>17, <1>18, <1>19, <1>20, <1>21, <1>22 DEF ThriftNext, Step, Failing

\* The pages go downstream from the first on, none left out and none twice,
\* although each request may fail after the server has moved on.
THEOREM PagesInOrder == ThriftSpec => [](PagesQueued /\ InOrder)
<1>1. ThriftInit => PagesQueued /\ InOrder
  BY DEF ThriftInit, PagesQueued, InOrder, Early
<1>2. ThriftTypeOK /\ CallsLeft /\ (PagesQueued /\ InOrder) /\ [ThriftNext]_thriftVars
        => (PagesQueued /\ InOrder)'
  BY OrderStep
<1> QED
  BY <1>1, <1>2, ThriftTypeCorrect, PTL DEF ThriftSpec

LEMMA CompleteStep ==
  ASSUME ThriftTypeOK, PagesQueued, PagesKept, Complete, [ThriftNext]_thriftVars
  PROVE  PagesKept' /\ Complete'
<1> USE DEF Early
<1>1. CASE OpenSession
  BY <1>1
  DEF OpenSession, thriftVars, taskVars, serverVars, ThriftTypeOK, Roles, Pcs, Over, PagesQueued, PagesKept, Complete
<1>2. CASE Use
  BY <1>2
  DEF Use, thriftVars, taskVars, serverVars, ThriftTypeOK, Roles, Pcs, Over, PagesQueued, PagesKept, Complete
<1>3. CASE Execute
  BY <1>3
  DEF Execute, thriftVars, taskVars, serverVars, ThriftTypeOK, Roles, Pcs, Over, PagesQueued, PagesKept, Complete
<1>4. CASE Poll
  BY <1>4
  DEF Poll, thriftVars, taskVars, serverVars, Leave, ThriftTypeOK, Roles, Pcs, Over, PagesQueued, PagesKept, Complete
<1>5. CASE FirstPage
  BY <1>5
  DEF FirstPage, thriftVars, taskVars, serverVars, Leave, Empty, More, StartPrefetch, ThriftTypeOK, Roles, Pcs, Over, PagesQueued, PagesKept, Complete
<1>6. CASE Prefetch
  BY <1>6
  DEF Prefetch, thriftVars, taskVars, serverVars, ThriftTypeOK, Roles, Pcs, Over, PagesQueued, PagesKept, Complete
<1>7. CASE PrefetchFails
  BY <1>7
  DEF PrefetchFails, thriftVars, taskVars, serverVars, Fault, ThriftTypeOK, Roles, Pcs, Over, PagesQueued, PagesKept, Complete
<1>8. CASE Resume
  BY <1>8
  DEF Resume, thriftVars, taskVars, serverVars, ThriftTypeOK, Roles, Pcs, Over, PagesQueued, PagesKept, Complete
<1>9. CASE Await
  BY <1>9
  DEF Await, thriftVars, taskVars, serverVars, Leave, Empty, More, StartPrefetch, ThriftTypeOK, Roles, Pcs, Over, PagesQueued, PagesKept, Complete
<1>10. CASE QueryPage
  BY <1>10
  DEF QueryPage, thriftVars, taskVars, serverVars, Empty, More, ThriftTypeOK, Roles, Pcs, Over, PagesQueued, PagesKept, Complete
<1>11. CASE CloseOperation
  BY <1>11
  DEF CloseOperation, thriftVars, taskVars, serverVars, Fault, ThriftTypeOK, Roles, Pcs, Over, PagesQueued, PagesKept, Complete
<1>12. CASE Flush
  BY <1>12
  DEF Flush, thriftVars, taskVars, serverVars, Fault, ThriftTypeOK, Roles, Pcs, Over, PagesQueued, PagesKept, Complete
<1>13. CASE Work
  BY <1>13
  DEF Work, thriftVars, taskVars, serverVars, ThriftTypeOK, Roles, Pcs, Over, PagesQueued, PagesKept, Complete
<1>14. CASE PostCloses
  BY <1>14
  DEF PostCloses, thriftVars, taskVars, serverVars, PostClose, ThriftTypeOK, Roles, Pcs, Over, PagesQueued, PagesKept, Complete
<1>15. CASE OpenFails
  BY <1>15
  DEF OpenFails, thriftVars, taskVars, serverVars, Leave, Fault, ThriftTypeOK, Roles, Pcs, Over, PagesQueued, PagesKept, Complete
<1>16. CASE UseFails
  BY <1>16
  DEF UseFails, thriftVars, taskVars, serverVars, Leave, Fault, ThriftTypeOK, Roles, Pcs, Over, PagesQueued, PagesKept, Complete
<1>17. CASE ExecuteFails
  BY <1>17
  DEF ExecuteFails, thriftVars, taskVars, serverVars, Leave, Fault, ThriftTypeOK, Roles, Pcs, Over, PagesQueued, PagesKept, Complete
<1>18. CASE PollFails
  BY <1>18
  DEF PollFails, thriftVars, taskVars, serverVars, Leave, Fault, ThriftTypeOK, Roles, Pcs, Over, PagesQueued, PagesKept, Complete
<1>19. CASE FetchFails
  BY <1>19
  DEF FetchFails, thriftVars, taskVars, serverVars, Leave, Fault, ThriftTypeOK, Roles, Pcs, Over, PagesQueued, PagesKept, Complete
<1>20. CASE PostFails
  BY <1>20
  DEF PostFails, thriftVars, taskVars, serverVars, Fault, ThriftTypeOK, Roles, Pcs, Over, PagesQueued, PagesKept, Complete
<1>21. CASE Drop
  BY <1>21
  DEF Drop, thriftVars, taskVars, serverVars, Leave, ThriftTypeOK, Roles, Pcs, Over, PagesQueued, PagesKept, Complete
<1>22. CASE UNCHANGED thriftVars
  BY <1>22 DEF thriftVars, taskVars, serverVars, ThriftTypeOK, Roles, Pcs, Over, PagesQueued, PagesKept, Complete
<1> QED
  BY <1>1, <1>2, <1>3, <1>4, <1>5, <1>6, <1>7, <1>8, <1>9, <1>10, <1>11, <1>12, <1>13, <1>14, <1>15, <1>16, <1>17, <1>18, <1>19, <1>20, <1>21, <1>22 DEF ThriftNext, Step, Failing

\* A read that ends without an error has delivered every page with rows, if the
\* server gives no page without rows before the last one.
THEOREM ReadsAreComplete == ThriftSpec => []Complete
<1>1. ThriftInit => PagesKept /\ Complete
  BY DEF ThriftInit, PagesKept, Complete
<1>2. ThriftTypeOK /\ (PagesQueued /\ InOrder) /\ (PagesKept /\ Complete) /\ [ThriftNext]_thriftVars
        => (PagesKept /\ Complete)'
  BY CompleteStep
<1> QED
  BY <1>1, <1>2, ThriftTypeCorrect, PagesInOrder, PTL DEF ThriftSpec

\* Pages arrive in order and all of them, and the state stays well formed.
THEOREM EveryPageArrives == ThriftSpec => []PagesArrive
<1>1. ThriftTypeOK /\ InOrder /\ Complete => PagesArrive
  BY DEF PagesArrive
<1> QED
  BY <1>1, ThriftTypeCorrect, PagesInOrder, ReadsAreComplete, PTL
===============================================================================
