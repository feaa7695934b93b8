------------------------------ MODULE RestSource ------------------------------
(***************************************************************************)
(* The REST API source (src/common/src/http/mod.rs): pages of rows are     *)
(* requested until the strategy says that there are no more, duplicates of *)
(* the dedup key are dropped, and the rows are cut into batches. All of it *)
(* happens before the first batch leaves the step. The rows at the server  *)
(* change between two requests: new rows come in at the front, others go.  *)
(***************************************************************************)
EXTENDS Naturals, Sequences, FiniteSets, SequencesExt, Functions

CONSTANTS
  Rows,          \* how many rows there are before the first request
  Keyless,       \* the rows without the dedup field
  PageSize,
  BatchSize,     \* effective_batch_size
  MaxInserts,
  MaxDeletes

ASSUME RestSourceAssumption ==
  /\ {Rows, MaxInserts, MaxDeletes} \subseteq Nat
  /\ {PageSize, BatchSize} \subseteq Nat \ {0}

\* PaginationConfig and the other options the loop looks at. Of the server, "cap" is
\* the page size it allows and "text_cursor" tells whether its cursors are strings.
Options ==
  [strategy : {"none", "cursor", "offset", "page", "link_header"},
   dedup : BOOLEAN, total : BOOLEAN, has_more : BOOLEAN,
   allow_non_2xx : BOOLEAN, text_cursor : BOOLEAN, cap : {PageSize - 1, PageSize} \ {0}]

VARIABLES
  opts,
  server,        \* the rows at the server, in the order it lists them
  inserted,      \* how many were inserted since the start
  deleted,       \* the rows deleted since the start
  offset, page_num, cursor,
  seen_keys,
  row_buffer,
  output,        \* the batches
  result         \* "fetching", "done", "cut" (allow_non_2xx) or "error"

restVars == <<opts, server, inserted, deleted, offset, page_num, cursor,
          seen_keys, row_buffer, output, result>>

Positioned == {"offset", "page"}
Continued  == {"cursor", "link_header"}

RestSourceInit ==
  /\ opts \in {o \in Options : /\ o.strategy \notin Positioned => ~o.total /\ ~o.has_more
                               /\ o.strategy # "cursor" => o.text_cursor}
  /\ server = [i \in 1..Rows |-> Rows + 1 - i]
  /\ inserted = 0
  /\ deleted = {}
  /\ offset = 0
  /\ page_num = 1
  /\ cursor = 0
  /\ seen_keys = {}
  /\ row_buffer = <<>>
  /\ output = <<>>
  /\ result = "fetching"

(***************************************************************************)
(* The server. The next cursor (and the next link) stand for the position  *)
(* after the last row served, whatever comes in or goes.                   *)
(***************************************************************************)
Passed == Cardinality({i \in DOMAIN server : cursor # 0 /\ server[i] >= cursor})

Position == CASE opts.strategy = "none"       -> 0
              [] opts.strategy = "offset"     -> offset
              [] opts.strategy = "page"       -> (page_num - 1) * opts.cap
              [] opts.strategy \in Continued  -> Passed

Page ==
  LET from == SubSeq(server, Position + 1, Len(server))
  IN  IF opts.strategy = "none" \/ Len(from) <= opts.cap THEN from
      ELSE SubSeq(from, 1, opts.cap)

NextCursor(page) ==
  IF page # <<>> /\ \E i \in DOMAIN server : server[i] < Last(page) THEN Last(page) ELSE 0

Insert ==
  /\ result = "fetching"
  /\ inserted < MaxInserts
  /\ inserted' = inserted + 1
  /\ server' = <<Rows + inserted'>> \o server
  /\ UNCHANGED <<opts, deleted, offset, page_num, cursor, seen_keys, row_buffer, output, result>>

Delete ==
  /\ result = "fetching"
  /\ \E i \in DOMAIN server :
       /\ Cardinality(deleted) < MaxDeletes
       /\ server' = RemoveAt(server, i)
       /\ deleted' = deleted \cup {server[i]}
  /\ UNCHANGED <<opts, inserted, offset, page_num, cursor, seen_keys, row_buffer, output, result>>

(***************************************************************************)
(* One pass of the loop                                                    *)
(***************************************************************************)
KeyOf(r) == IF r \in Keyless THEN 0 ELSE r

\* A row whose key was seen before is skipped; a row without the field has the
\* empty key.
IsNew(page, i) ==
  /\ KeyOf(page[i]) \notin seen_keys
  /\ \A j \in 1..(i - 1) : KeyOf(page[j]) # KeyOf(page[i])

NewRows(page) ==
  IF ~opts.dedup THEN page
  ELSE LET kept[n \in 0..Len(page)] ==
             IF n = 0 THEN <<>> ELSE IF IsNew(page, n) THEN Append(kept[n - 1], page[n]) ELSE kept[n - 1]
       IN  kept[Len(page)]

SeenAfter(page) ==
  IF opts.dedup THEN seen_keys \cup {KeyOf(page[i]) : i \in DOMAIN page} ELSE seen_keys

HasMoreIsFalse(page) == opts.has_more /\ Position + Len(page) >= Len(server)

TotalCountReached(page) ==
  /\ opts.total
  /\ (IF opts.dedup THEN Cardinality(SeenAfter(page)) ELSE offset + Len(page)) >= Len(server)

\* Mutant: the page is measured after the duplicates have been dropped.
IsLastAfterDedup(page) ==
  CASE opts.strategy = "none"        -> TRUE
    [] opts.strategy = "link_header" -> NextCursor(page) = 0
    [] OTHER -> Len(NewRows(page)) < PageSize \/ HasMoreIsFalse(page) \/ TotalCountReached(page)

IsLast(page) ==
  CASE opts.strategy = "none"        -> TRUE
    [] opts.strategy = "link_header" -> NextCursor(page) = 0
    [] opts.strategy = "cursor"      ->
         Len(page) < PageSize \/ NextCursor(page) = 0 \/ ~opts.text_cursor
    [] OTHER -> Len(page) < PageSize \/ HasMoreIsFalse(page) \/ TotalCountReached(page)

\* Full batches leave the buffer; the rest stays.
Cut(rows, n) == [i \in 1..n |-> SubSeq(rows, (i - 1) * BatchSize + 1, i * BatchSize)]

Answer ==
  LET page == Page
      rows == row_buffer \o NewRows(page)
      full == Len(rows) \div BatchSize
      rest == SubSeq(rows, full * BatchSize + 1, Len(rows))
      last == IsLast(page)
  IN  /\ result = "fetching"
      /\ seen_keys' = SeenAfter(page)
      /\ output' = output \o Cut(rows, full) \o (IF last /\ rest # <<>> THEN <<rest>> ELSE <<>>)
      /\ row_buffer' = IF last THEN <<>> ELSE rest
      /\ offset' = IF opts.strategy \in Positioned THEN offset + Len(page) ELSE offset
      /\ page_num' = IF opts.strategy = "page" THEN page_num + 1 ELSE page_num
      /\ cursor' = IF opts.strategy \in Continued /\ ~last THEN NextCursor(page) ELSE cursor
      /\ result' = IF last THEN "done" ELSE "fetching"
      /\ UNCHANGED <<opts, server, inserted, deleted>>

\* A status outside 2xx ends the loop as if nothing followed, when it is allowed.
Refuse ==
  /\ result = "fetching"
  /\ IF opts.allow_non_2xx
     THEN /\ result' = "cut"
          /\ output' = output \o (IF row_buffer = <<>> THEN <<>> ELSE <<row_buffer>>)
          /\ row_buffer' = <<>>
     ELSE /\ result' = "error"
          /\ UNCHANGED <<output, row_buffer>>
  /\ UNCHANGED <<opts, server, inserted, deleted, offset, page_num, cursor, seen_keys>>

\* The connection, the time limit or the JSON parser fails.
Break ==
  /\ result = "fetching"
  /\ result' = "error"
  /\ UNCHANGED <<opts, server, inserted, deleted, offset, page_num, cursor, seen_keys,
                 row_buffer, output>>

RestSourceNext == Insert \/ Delete \/ Answer \/ Refuse \/ Break

RestSourceSpec == RestSourceInit /\ [][RestSourceNext]_restVars /\ WF_restVars(Answer)

(***************************************************************************)
(* Properties                                                              *)
(***************************************************************************)
Delivered == FlattenSeq(output) \o row_buffer

\* Some strategies must not meet short pages, cursors that are numbers, or rows that
\* go, to see all rows.
Sound ==
  /\ opts.text_cursor
  /\ opts.strategy \in Positioned \cup {"cursor"} => opts.cap = PageSize
  /\ opts.strategy \in Positioned => deleted = {}

Stayed == (1..Rows) \ deleted
Got(r) == r \in Range(Delivered) \/ (opts.dedup /\ r \in Keyless)

(***************************************************************************)
(* The inductive invariant                                                 *)
(***************************************************************************)
RowNumbers == 1..(Rows + inserted)
RestTypeOK ==
  /\ opts \in Options /\ (opts.strategy \notin Positioned => ~opts.total /\ ~opts.has_more)
  /\ inserted \in Nat /\ deleted \subseteq RowNumbers
  /\ offset \in Nat /\ page_num \in Nat \ {0} /\ cursor \in {0} \cup RowNumbers
  /\ seen_keys \subseteq {0} \cup RowNumbers
  /\ row_buffer \in Seq(RowNumbers) /\ output \in Seq(Seq(RowNumbers))
  /\ result \in {"fetching", "done", "cut", "error"}

\* The server lists the rows that are there, the newest first.
Listed ==
  /\ server \in Seq(RowNumbers) /\ Range(server) = RowNumbers \ deleted
  /\ \A i, j \in DOMAIN server : i < j => server[i] > server[j]
  /\ deleted = {} => server = [i \in RowNumbers |-> Rows + inserted + 1 - i]

\* What was delivered was seen, and lies before the cursor.
Taken ==
  /\ opts.dedup => seen_keys = {KeyOf(r) : r \in Range(Delivered)}
  /\ opts.dedup \/ opts.strategy \notin Positioned => IsInjective(Delivered)
  /\ result = "fetching" /\ opts.strategy = "none" => Delivered = <<>>
  /\ result = "fetching" /\ opts.strategy \in Continued =>
       \A r \in Range(Delivered) : cursor # 0 /\ cursor <= r
  /\ opts.strategy = "page" => offset <= (page_num - 1) * opts.cap

\* The rows before the position of the next page.
Behind(r) ==
  \/ opts.strategy \in Positioned /\ Rows + inserted + 1 - r <= Position
  \/ opts.strategy \in Continued /\ cursor # 0 /\ cursor <= r

\* Nothing settled is left behind, and at the end nothing at all.
NothingMissed ==
  Sound =>
    /\ result = "fetching" => \A r \in Stayed : Behind(r) => Got(r)
    /\ result = "done" => \A r \in Stayed : Got(r)

RestInv == RestTypeOK /\ Listed /\ Taken /\ NothingMissed

\* A fetch that ends in the regular way has every row that was at the server all
\* the time, however many rows came in at the front between two requests (with
\* dedup_key, every such row that has the field); and no row comes twice, from a
\* strategy with a cursor or with dedup_key, even when others push it onto the next page.
SettledRowsArrive ==
  /\ RestInv
  /\ result = "done" /\ Sound =>
       (1..Rows) \ (deleted \cup (IF opts.dedup THEN Keyless ELSE {})) \subseteq Range(Delivered)
  /\ opts.dedup \/ opts.strategy \notin Positioned => IsInjective(Delivered)
=============================================================================
