----------------------------- MODULE SnapshotCsv -----------------------------
(***************************************************************************)
(* The ledger snapshot as text: Ledger::dump_csv on the payload and        *)
(* parse_snapshot on the ground, which must agree on quoting.  The dump is *)
(* written in place in a directory that is downlinked, so that a killed    *)
(* sender leaves a shorter one behind, and that is sent like any file.     *)
(*                                                                         *)
(* A text is a sequence of characters; a column name counts as one.  Of    *)
(* the columns, the ones that decide whether a file is requested again are *)
(* kept, but for the times: they are optional and hold no special          *)
(* characters.                                                             *)
(***************************************************************************)
EXTENDS Integers, SequencesExt

CONSTANTS
  Letters,        \* characters of file names, some of Comma, Quote and Break
  Digits,         \* characters of numbers
  NumberLens,     \* bound: digits of a number
  MaxNameLen,     \* bound: characters of a file name
  MaxRows,        \* bound: rows of a ledger
  Malformed       \* Err(BadConfig): the snapshot is not used

Comma == ","
Quote == "quote"
Break == "line break"

ASSUME SnapshotAssumption ==
  /\ Digits \cap {Comma, Quote, Break} = {}
  /\ NumberLens \subseteq Nat \ {0}
  /\ MaxNameLen \in Nat /\ MaxRows \in Nat

Header == <<"file_id", Comma, "file_name", Comma, "file_size", Comma, "still_exists">>
-----------------------------------------------------------------------------
(* Writing.                                                                *)

\* s.replace(x, by)
Replace(s, x, by) == FlattenSeq([k \in DOMAIN s |-> IF s[k] = x THEN by ELSE <<s[k]>>])

\* Mutated form: quotes in a quoted name are left alone.
CsvEscapeBare(s) ==
  IF {Comma, Quote, Break} \cap ToSet(s) = {} THEN s ELSE <<Quote>> \o s \o <<Quote>>

\* csv_escape
CsvEscape(s) ==
  IF {Comma, Quote, Break} \cap ToSet(s) = {} THEN s
  ELSE <<Quote>> \o Replace(s, Quote, <<Quote, Quote>>) \o <<Quote>>

DumpRow(r) ==
  r.id \o <<Comma>> \o CsvEscape(r.name) \o <<Comma>> \o r.size \o <<Comma>>
  \o <<IF r.still_exists THEN "t" ELSE "f">>

\* dump_csv: a line for the header and one for every row.
DumpCsv(table) ==
  FlattenSeq([k \in 1 .. Len(table) + 1 |->
                Append(IF k = 1 THEN Header ELSE DumpRow(table[k - 1]), Break)])
-----------------------------------------------------------------------------
(* Reading.                                                                *)

\* The lines that are not blank, the one under way included.
NonBlank(st) == IF st.cur = <<>> THEN st.done ELSE Append(st.done, st.cur)

\* The lines that ended in the first k characters and the one under way, for all k.
LineStates(text) ==
  LET st[k \in 0 .. Len(text)] ==
        IF k = 0 THEN [done |-> <<>>, cur |-> <<>>]
        ELSE IF text[k] = Break THEN [done |-> NonBlank(st[k - 1]), cur |-> <<>>]
        ELSE [st[k - 1] EXCEPT !.cur = Append(@, text[k])]
  IN  st

\* text.lines(), without the blank ones.
Lines(text) == NonBlank(LineStates(text)[Len(text)])

\* A turn of split_csv_line's loop, with a look at the next character; `skip` is
\* set when that one has been dealt with as well.
Take(st, c, next) ==
  CASE st.skip -> [st EXCEPT !.skip = FALSE]
    [] ~st.skip /\ c = Quote /\ st.quoted /\ next = Quote ->
         [st EXCEPT !.cur = Append(@, Quote), !.skip = TRUE]
    [] ~st.skip /\ c = Quote /\ ~(st.quoted /\ next = Quote) ->
         [st EXCEPT !.quoted = ~@]
    [] ~st.skip /\ c = Comma /\ ~st.quoted ->
         [st EXCEPT !.out = Append(@, st.cur), !.cur = <<>>]
    [] OTHER -> [st EXCEPT !.cur = Append(@, c)]

\* Its state after the first k characters, for all k.
SplitStates(line) ==
  LET st[k \in 0 .. Len(line)] ==
        IF k = 0 THEN [out |-> <<>>, cur |-> <<>>, quoted |-> FALSE, skip |-> FALSE]
        ELSE Take(st[k - 1], line[k], IF k < Len(line) THEN line[k + 1] ELSE "")
  IN  st

SplitCsvLine(line) ==
  LET end == SplitStates(line)[Len(line)] IN Append(end.out, end.cur)

IsNumber(s) == s # <<>> /\ ToSet(s) \subseteq Digits

\* The columns of a header: cols.iter().position(|c| c == name), or 0.
Column(header, name) ==
  LET cols == SplitCsvLine(header)
  IN  IF <<name>> \in ToSet(cols) THEN CHOOSE k \in DOMAIN cols : cols[k] = <<name>> ELSE 0

\* f.get(i), with an empty field for none.
Field(f, i) == IF i \in DOMAIN f THEN f[i] ELSE <<>>

\* Mutated form: a row may end before its size.
RowOkShort(f, id, name, size) ==
  IsNumber(Field(f, id)) /\ name \in DOMAIN f

RowOk(f, id, name, size) ==
  IsNumber(Field(f, id)) /\ name \in DOMAIN f /\ IsNumber(Field(f, size))

\* parse_snapshot: one malformed row spoils the snapshot.
ParseSnapshot(text) ==
  LET lines == Lines(text)
      col(name) == Column(lines[1], name)
      id == col("file_id")
      name == col("file_name")
      size == col("file_size")
      there == col("still_exists")
      fields == [k \in 1 .. Len(lines) - 1 |-> SplitCsvLine(lines[k + 1])]
  IN  IF lines = <<>> \/ 0 \in {id, name, size} THEN Malformed
      ELSE IF \E k \in DOMAIN fields : ~RowOk(fields[k], id, name, size) THEN Malformed
      ELSE [k \in DOMAIN fields |->
              [id |-> fields[k][id], name |-> fields[k][name], size |-> Field(fields[k], size),
               still_exists |-> Field(fields[k], there) # <<"f">>]]
-----------------------------------------------------------------------------
Names == UNION {[1 .. n -> Letters] : n \in 1 .. MaxNameLen}

Numbers == UNION {[1 .. n -> Digits] : n \in NumberLens}

LedgerRows == [id : Numbers, name : Names, size : Numbers, still_exists : BOOLEAN]

Ledgers == UNION {[1 .. n -> LedgerRows] : n \in 0 .. MaxRows}

HasBreak(table) == \E k \in DOMAIN table : Break \in ToSet(table[k].name)

\* What is read agrees with the ledger, but for the end of the last row.
Agrees(read, table) ==
  /\ Len(read) <= Len(table)
  /\ \A k \in DOMAIN read :
       /\ read[k].id = table[k].id /\ read[k].name = table[k].name
       /\ IsPrefix(read[k].size, table[k].size)
       /\ k < Len(read) => read[k] = table[k]

\* A dump that is whole: the same rows, or nothing.
SameRows == \A l \in {m \in Ledgers : ~HasBreak(m)} : ParseSnapshot(DumpCsv(l)) = l

BreakRefused ==
  \A l \in {m \in Ledgers : HasBreak(m)} : ParseSnapshot(DumpCsv(l)) = Malformed

\* Holds(read, table, n) for what is read of every ledger cut short after n characters.
EveryCut(Holds(_, _, _)) ==
  \A table \in {l \in Ledgers : ~HasBreak(l)} : \A n \in 0 .. Len(DumpCsv(table)) :
    LET read == ParseSnapshot(SubSeq(DumpCsv(table), 1, n))
    IN  read # Malformed => Holds(read, table, n)

\* A dump that is not.
NoRowMadeUp == EveryCut(LAMBDA read, table, n : Agrees(read, table))

NoRowLeftOut ==
  EveryCut(LAMBDA read, table, n :
    \A k \in DOMAIN table : Len(DumpCsv(SubSeq(table, 1, k))) <= n =>
      k \in DOMAIN read /\ read[k] = table[k])
=============================================================================
